--------------------------- MODULE EventHandlerProofs --------------------------
(***************************************************************************)
(* Proofs about EventHandler, for all messages, with replies of any depth: *)
(* the safety properties the run checks on a small set of messages.        *)
(***************************************************************************)
EXTENDS EventHandler, TLAPS

Kinds == {"text", "photo", "sticker", "gif", "unknown"}
Struct == [type : Kinds, msg_id : BOOLEAN, from : BOOLEAN, chat : BOOLEAN,
           text : Text, photo : BOOLEAN,
           entity_c : BOOLEAN, entities : BOOLEAN]
Replies == {"unset", "debug", "translation", "error", "eperm", "reported",
            "please reply", "success"}
Req == [method : Administrative \cup {AdminList, "sendMessage"}, chat : BOOLEAN,
        id : BOOLEAN, answer : Answers \cup {"unused"}, text : Replies]

-------------------------------------------------------------------------------
(* The inductive invariant.                                                *)

\* The variables have their types; no pointer but to the event or its reply.
Typing ==
  /\ TypeOK
  /\ msg \in Messages /\ role \in Roles
  /\ reqs \in Seq(Req)
  /\ cmd \in AdminCommands \cup {"nop", "report", "delvote"}
  /\ tgt \in {Null, Wild, 1, 2}

\* The event and the heap are those of the message, from load to destroy.
Memory ==
  /\ bad_free = FALSE
  /\ pc = "load" => evt = <<>>
  /\ pc # "load" /\ msg # <<>> => evt = Events(msg)
  /\ pc \notin {"load", "done"} => /\ msg # <<>> /\ ParseResult(msg[1]) = 0
                                   /\ heap = Cells(msg)
  /\ pc = "done" /\ msg # <<>> => heap = Lost(msg)

\* Where the pointer to the reply may point.  A command on a member or a message
\* has a text event with a reply.
Pointers ==
  /\ pc \in {"fetch", "privilege", "report", "exec", "send"} => evt[1].type \in event_mask
  /\ tgt = 2 => 2 \in DOMAIN evt
  /\ pc \in {"fetch", "send"} => tgt # Wild
  /\ pc = "report" /\ tgt = Wild => /\ evt[1].type = "photo" /\ evt[1].entity_c = TRUE
                                    /\ tge_get_text(evt[1]).word = "mention"
  /\ pc \in {"privilege", "exec"} \/ todo # <<>> => tgt = 2 /\ evt[1].type = "text"

\* The sender may give administrative commands.
Allowed ==
  \/ role = "sudoer"
  \/ \E j \in DOMAIN reqs : /\ reqs[j].method = AdminList
                            /\ reqs[j].answer = "empty" \/ (reqs[j].answer = "ok" /\ role = "admin")

\* Nothing is requested before the privilege check; requests are left only for
\* those allowed, and while nothing was reported but an error.
Course ==
  /\ pc \in {"load", "module", "fetch", "privilege", "report"} =>
       reqs = <<>> /\ todo = <<>> /\ text = "unset"
  /\ pc = "privilege" => cmd \in AdminCommands \cup {"delvote"}
  /\ pc = "exec" => todo # <<>>
  /\ pc = "send" => text # "unset"
  /\ todo # <<>> => Allowed /\ text \in {"unset", "error"} /\ cmd \in AdminCommands

Success(r) == r.method = "sendMessage" /\ r.text = "success"

\* After a request that failed the text is an error, and only skick goes on; a
\* success that was sent is still in the buffer.
Outcome ==
  /\ \A i \in DOMAIN reqs : Failure(reqs[i]) =>
       /\ text = "error"
       /\ cmd = "skick" \/ (todo = <<>> /\ pc \in {"send", "destroy", "done"})
  /\ \A i \in DOMAIN reqs : Success(reqs[i]) => text = "success"

\* The error of a request that failed has been sent, or is about to be.
Reports ==
  \A i \in DOMAIN reqs : Failure(reqs[i]) =>
    \/ pc = "send"
    \/ \E j \in i+1 .. Len(reqs) : reqs[j].method = "sendMessage" /\ reqs[j].text = "error"

History ==
  PrivilegeFirst /\ TextIsWritten /\ IdsAreParsed /\ StopsAtRefusal /\ Outcome /\ Reports

HandlerInv == Typing /\ Memory /\ Pointers /\ Course /\ History /\ CrashOnlyWhere
-------------------------------------------------------------------------------
(* Parsing one message, and a chain of them.                               *)

\* Passing a step is a matter of rank; a parser that fails nowhere passes all.
LEMMA PassedFacts ==
  ASSUME NEW m \in Message
  PROVE  /\ \A step \in DOMAIN Rank : Passed(m, step) \in BOOLEAN
         /\ m.bad = "none" => \A step \in {"media", "message_id", "from", "chat", "date", "entities"} :
                                Passed(m, step) = TRUE
         /\ Passed(m, "entities") = TRUE => m.bad = "none"
  BY DEF Passed, Rank, Message

\* What the parsers make of a message: a struct of its kind, with all ids if no
\* step failed; entities only then, and photos only in a photo.
LEMMA ParseFacts ==
  ASSUME NEW m \in Message
  PROVE  /\ parse_message_json_obj(m) \in Struct
         /\ parse_message_json_obj(m).type = m.kind
         /\ m.bad = "none" => /\ parse_message_json_obj(m).msg_id = TRUE
                              /\ parse_message_json_obj(m).from = TRUE
                              /\ parse_message_json_obj(m).chat = TRUE
         /\ parse_message_json_obj(m).entities = TRUE => m.bad = "none"
         /\ parse_message_json_obj(m).photo = TRUE => m.kind = "photo"
  <1> DEFINE p == parse_message_json_obj(m)
  <1>1. m.kind \in Kinds /\ m.ents \in BOOLEAN /\ m.text \in Text
    BY DEF Message, Kinds
  <1>2. NoText \in Text /\ Caption(m) \in Text
    BY Zenon, <1>1 DEF Text, Caption
  <1>3. \E t \in Text : \E f, e \in BOOLEAN :
          p = Parsed(m, t, f, e) /\ (f = TRUE => m.kind = "photo")
    <2>1. Passed(m, "media") \in BOOLEAN
      BY PassedFacts DEF Rank
    <2>2. (m.ents /\ HasCaption(m)) \in BOOLEAN
      OBVIOUS
    <2>3. CASE m.kind = "text"
      BY <1>1, <2>3 DEF parse_message_json_obj, parse_event_text
    <2>4. CASE m.kind = "photo"
      BY <1>2, <2>1, <2>2, <2>4 DEF parse_message_json_obj, parse_event_photo, parse_tgevi_photos
    <2>5. CASE m.kind = "sticker"
      BY <1>2, <2>5 DEF parse_message_json_obj, parse_event_sticker
    <2>6. CASE m.kind = "gif"
      BY <1>2, <2>2, <2>6 DEF parse_message_json_obj, parse_event_gif
    <2>7. CASE m.kind = "unknown"
      BY <1>1, <1>2, <2>7 DEF parse_message_json_obj, parse_event_unknown
    <2>8. QED
      BY <1>1, <2>3, <2>4, <2>5, <2>6, <2>7 DEF Kinds
  <1>4. PICK t \in Text : \E f, e \in BOOLEAN :
          p = Parsed(m, t, f, e) /\ (f = TRUE => m.kind = "photo")
    BY <1>3
  <1>5. PICK f \in BOOLEAN, e \in BOOLEAN :
          p = Parsed(m, t, f, e) /\ (f = TRUE => m.kind = "photo")
    BY <1>4
  <1>6. /\ p.type = m.kind /\ p.msg_id = Passed(m, "message_id") /\ p.from = Passed(m, "from")
        /\ p.chat = Passed(m, "chat") /\ p.photo = f
        /\ p.entities = (e /\ Passed(m, "entities"))
    BY <1>5 DEF Parsed, parse_tgevi_from, parse_tgevi_chat, parse_tgevi_entities
  <1>7. p \in Struct
    <2>1. /\ Passed(m, "message_id") \in BOOLEAN /\ Passed(m, "from") \in BOOLEAN
          /\ Passed(m, "chat") \in BOOLEAN
      BY PassedFacts DEF Rank
    <2>2. (e /\ Passed(m, "date")) \in BOOLEAN /\ (e /\ Passed(m, "entities")) \in BOOLEAN
      OBVIOUS
    <2>3. QED
      BY <1>1, <1>5, <2>1, <2>2 DEF Parsed, Struct, parse_tgevi_from, parse_tgevi_chat,
           parse_tgevi_entities
  <1> HIDE DEF p
  <1>8. m.bad = "none" => p.msg_id = TRUE /\ p.from = TRUE /\ p.chat = TRUE
    BY <1>6, PassedFacts
  <1>9. p.entities = TRUE => m.bad = "none"
    BY Zenon, <1>6, PassedFacts
  <1>10. QED
    BY <1>5, <1>6, <1>7, <1>8, <1>9 DEF p

\* The outermost message always becomes an event.  A reply does if it could be
\* parsed, and then every message before it reads its reply.
LEMMA LinkedFacts ==
  ASSUME NEW c \in Seq(Message), c # <<>>
  PROVE  /\ 1 \in Linked(c) /\ 1 \in DOMAIN c
         /\ \A k \in Reached(c) : k \in DOMAIN c /\ k \in Nat /\ k >= 1 /\ c[k] \in Message
         /\ Linked(c) \subseteq Reached(c)
         /\ \A k \in Reached(c) : \A j \in 1..k-1 : j \in Linked(c) /\ ReadsReply(c[j])
  <1>1. 1 \in DOMAIN c /\ DOMAIN c = 1..Len(c) /\ Len(c) \in Nat
    OBVIOUS
  <1>2. 1 \in Linked(c)
    BY <1>1 DEF Linked, Reached
  <1>3. \A k \in Reached(c) : k \in DOMAIN c /\ k \in Nat /\ k >= 1 /\ c[k] \in Message
    BY <1>1 DEF Reached
  <1>4. ASSUME NEW k \in Reached(c), NEW j \in 1..k-1
        PROVE  j \in Linked(c) /\ ReadsReply(c[j])
    <2>1. ReadsReply(c[j])
      BY DEF Reached
    <2>2. j \in Reached(c)
      BY <1>1, <1>3 DEF Reached
    <2>3. ParseResult(c[j]) = 0
      BY <2>1 DEF ReadsReply, ParseResult
    <2>4. QED
      BY <2>1, <2>2, <2>3 DEF Linked
  <1>5. QED
    BY <1>1, <1>2, <1>3, <1>4 DEF Linked

\* The heap after parsing: what the cells are.
LEMMA CellFacts ==
  ASSUME NEW c \in Seq(Message), c # <<>>, NEW k, NEW w
  PROVE  <<k, w>> \in Cells(c) <=>
           \/ k = 1 /\ w = "json"
           \/ k \in Linked(c) /\ k # 1 /\ w = "node"
           \/ k \in Reached(c) /\ w \in {"photo", "entities"} /\ parse_message_json_obj(c[k])[w] = TRUE
  <1> DEFINE p(j) == parse_message_json_obj(c[j])
  <1>1. \A j \in Reached(c) : p(j) \in Struct
    BY LinkedFacts, ParseFacts
  <1>2. \A j \in Reached(c) : \A a \in {"photo", "entities"} : p(j)[a] \in BOOLEAN
    BY <1>1 DEF Struct
  <1>3. <<k, w>> \in UNION {Arrays(j, p(j)) : j \in Reached(c)}
          <=> k \in Reached(c) /\ w \in {"photo", "entities"} /\ p(k)[w] = TRUE
    <2>1. \A j \in Reached(c) : <<k, w>> \in Arrays(j, p(j))
            <=> k = j /\ w \in {"photo", "entities"} /\ p(j)[w]
      BY Zenon DEF Arrays
    <2>2. QED
      BY Zenon, <1>2, <2>1
  <1>4. QED
    BY <1>3 DEF Cells

\* The calls of free, and the cells they free.
LEMMA CallFacts ==
  ASSUME NEW c \in Seq(Message), c # <<>>, NEW k, NEW w
  PROVE  <<k, w>> \in tg_event_destroy(Events(c)) <=>
           /\ k \in Destroyed(Events(c))
           /\ \/ w = "json" /\ k = 1
              \/ w = "reply" /\ k + 1 \in Linked(c) /\ c[k].kind # "unknown"
              \/ /\ w \in {"photo", "entities"} /\ c[k].kind # "unknown"
                 /\ parse_message_json_obj(c[k])[w] = TRUE
  <1> DEFINE e == Events(c)
  <1>1. DOMAIN e = Linked(c)
    BY DEF Events
  <1>2. <<k, w>> \in tg_event_destroy(e) <=> k \in Destroyed(e) /\ w \in Frees(e, k)
    <2>1. \A j \in Destroyed(e) : <<k, w>> \in {<<j, v>> : v \in Frees(e, j)}
                                <=> k = j /\ w \in Frees(e, j)
      BY Zenon
    <2>2. QED
      BY Zenon, <2>1 DEF tg_event_destroy
  <1>3. SUFFICES ASSUME k \in Destroyed(e)
                 PROVE  w \in Frees(e, k) <=>
                          \/ w = "json" /\ k = 1
                          \/ w = "reply" /\ k + 1 \in Linked(c) /\ c[k].kind # "unknown"
                          \/ /\ w \in {"photo", "entities"} /\ c[k].kind # "unknown"
                             /\ parse_message_json_obj(c[k])[w] = TRUE
    BY Zenon, <1>2
  <1>4. k \in Linked(c) /\ c[k] \in Message /\ e[k] = parse_message_json_obj(c[k])
    BY <1>1, <1>3, LinkedFacts DEF Destroyed, Events
  <1>5. e[k] \in Struct /\ e[k].type = c[k].kind
    BY <1>4, ParseFacts
  <1>6. e[k]["photo"] \in BOOLEAN /\ e[k]["entities"] \in BOOLEAN
    BY <1>5 DEF Struct
  <1> HIDE DEF e
  <1>7. QED
    BY <1>1, <1>4, <1>5, <1>6 DEF Frees, PutsJson

\* An event is destroyed if no unknown event comes before it.
LEMMA DestroyedFacts ==
  ASSUME NEW c \in Seq(Message), c # <<>>, NEW k
  PROVE  k \in Destroyed(Events(c)) <=>
           k \in Linked(c) /\ \A j \in 1..k-1 : c[j].kind # "unknown"
  <1>1. DOMAIN Events(c) = Linked(c)
    BY DEF Events
  <1>2. ASSUME k \in Linked(c), NEW j \in 1..k-1
        PROVE  Events(c)[j].type = c[j].kind
    <2>1. j \in Linked(c) /\ c[j] \in Message
      BY <1>2, LinkedFacts
    <2>2. Events(c)[j] = parse_message_json_obj(c[j])
      BY <2>1 DEF Events
    <2>3. QED
      BY <2>1, <2>2, ParseFacts
  <1>3. QED
    BY <1>1, <1>2 DEF Destroyed

\* The cell of a call determines the call.
LEMMA FreedFacts ==
  ASSUME NEW j \in Nat, NEW v, v # "node", NEW k, NEW w, Freed(<<j, v>>) = <<k, w>>
  PROVE  /\ w = "node" => v = "reply" /\ k = j + 1
         /\ w # "node" => v = w /\ j = k
  <1>1. Freed(<<j, v>>) = IF v = "reply" THEN <<j + 1, "node">> ELSE <<j, v>>
    BY DEF Freed
  <1>2. CASE v = "reply"
    <2>1. <<j + 1, "node">> = <<k, w>>
      BY Zenon, <1>1, <1>2
    <2>2. QED
      BY Zenon, <1>2, <2>1
  <1>3. CASE v # "reply"
    <2>1. <<j, v>> = <<k, w>>
      BY Zenon, <1>1, <1>3
    <2>2. QED
      BY Zenon, <2>1
  <1>4. QED
    BY Zenon, <1>2, <1>3

\* Destroying what was parsed frees only live cells, each once, and what is left
\* are the known losses.
LEMMA DestroyBalances ==
  ASSUME NEW c \in Seq(Message), c # <<>>
  PROVE  /\ \A x \in tg_event_destroy(Events(c)) : Freed(x) \in Cells(c)
         /\ \A x, y \in tg_event_destroy(Events(c)) : Freed(x) = Freed(y) => x = y
         /\ Cells(c) \ {Freed(x) : x \in tg_event_destroy(Events(c))} = Lost(c)
  <1> DEFINE calls == tg_event_destroy(Events(c))
             L == Linked(c)
             p(k) == parse_message_json_obj(c[k])
             Clear(k) == \A j \in 1..k-1 : c[j].kind # "unknown"
  <1>1. /\ 1 \in L /\ L \subseteq Reached(c)
        /\ \A k \in Reached(c) : k \in Nat /\ k >= 1 /\ c[k] \in Message
        /\ \A k \in Reached(c) : \A j \in 1..k-1 : j \in L
    BY LinkedFacts
  <1>2. \A x \in calls : \E k, w : x = <<k, w>>
    BY Zenon DEF tg_event_destroy
  <1>3. ASSUME NEW k, NEW w
        PROVE  <<k, w>> \in calls <=>
                 /\ k \in L /\ Clear(k)
                 /\ \/ w = "json" /\ k = 1
                    \/ w = "reply" /\ k + 1 \in L /\ c[k].kind # "unknown"
                    \/ w \in {"photo", "entities"} /\ c[k].kind # "unknown" /\ p(k)[w] = TRUE
    BY Zenon, CallFacts, DestroyedFacts
  <1>4. ASSUME NEW k, NEW w
        PROVE  <<k, w>> \in Cells(c) <=>
                 \/ k = 1 /\ w = "json"
                 \/ k \in L /\ k # 1 /\ w = "node"
                 \/ k \in Reached(c) /\ w \in {"photo", "entities"} /\ p(k)[w] = TRUE
    BY Zenon, CellFacts
  <1>5. \A k, w : Freed(<<k, w>>) = IF w = "reply" THEN <<k + 1, "node">> ELSE <<k, w>>
    BY DEF Freed
  <1>6. \A x \in Cells(c) : \E k, w : x = <<k, w>>
    BY Zenon DEF Cells, Arrays
  <1>7. \A k \in L : /\ k \in Reached(c) /\ k \in Nat /\ k >= 1
                     /\ p(k).photo = TRUE => c[k].kind # "unknown"
    <2>1. ASSUME NEW k \in L PROVE p(k).photo = TRUE => c[k].kind # "unknown"
      <3>1. c[k] \in Message
        BY <1>1
      <3>2. QED
        BY <3>1, ParseFacts
    <2>2. QED
      BY <1>1, <2>1
  <1>8. \A k \in Reached(c) : k \notin L => p(k).entities # TRUE
    <2>1. ASSUME NEW k \in Reached(c), p(k).entities = TRUE PROVE k \in L
      <3>1. c[k].bad = "none"
        BY <1>1, <2>1, ParseFacts
      <3>2. QED
        BY <3>1 DEF Linked, ParseResult
    <2>2. QED
      BY <2>1
  <1> HIDE DEF calls, L, p
  <1>9. ASSUME NEW x \in calls PROVE Freed(x) \in Cells(c)
    <2>1. PICK k, w : x = <<k, w>>
      BY <1>2
    <2>2. k \in L /\ k \in Reached(c) /\ k \in Nat /\ k >= 1
      BY <1>3, <1>7, <2>1
    <2>3. CASE w = "reply"
      <3>1. k + 1 \in L /\ Freed(x) = <<k + 1, "node">>
        BY Zenon, <1>3, <1>5, <2>1, <2>3
      <3>2. k + 1 # 1
        BY <2>2
      <3>3. QED
        BY Zenon, <1>4, <3>1, <3>2
    <2>4. CASE w # "reply"
      <3>1. /\ Freed(x) = <<k, w>>
            /\ (w = "json" /\ k = 1) \/ (w \in {"photo", "entities"} /\ p(k)[w] = TRUE)
        BY Zenon, <1>3, <1>5, <2>1, <2>4
      <3>2. QED
        BY Zenon, <1>4, <2>2, <3>1
    <2>5. QED
      BY <2>3, <2>4
  <1>10. ASSUME NEW x \in calls, NEW y \in calls, Freed(x) = Freed(y) PROVE x = y
    <2>1. PICK k, w : x = <<k, w>>
      BY <1>2
    <2>2. PICK j, v : y = <<j, v>>
      BY <1>2
    <2>3. k \in Nat /\ j \in Nat /\ w # "node" /\ v # "node"
      BY <1>3, <1>7, <2>1, <2>2
    <2>4. PICK i, u : Freed(x) = <<i, u>>
      <3>1. Freed(x) = <<k + 1, "node">> \/ Freed(x) = <<k, w>>
        BY Zenon, <1>5, <2>1
      <3>2. QED
        BY Zenon, <3>1
    <2>5. /\ u = "node" => w = "reply" /\ i = k + 1 /\ v = "reply" /\ i = j + 1
          /\ u # "node" => w = u /\ k = i /\ v = u /\ j = i
      <3>1. Freed(<<k, w>>) = <<i, u>> /\ Freed(<<j, v>>) = <<i, u>>
        BY Zenon, <1>10, <2>1, <2>2, <2>4
      <3>2. /\ u = "node" => w = "reply" /\ i = k + 1
            /\ u # "node" => w = u /\ k = i
        BY <2>3, <3>1, FreedFacts
      <3>3. /\ u = "node" => v = "reply" /\ i = j + 1
            /\ u # "node" => v = u /\ j = i
        BY <2>3, <3>1, FreedFacts
      <3>4. QED
        BY Zenon, <3>2, <3>3
    <2>6. k = j /\ w = v
      BY <2>3, <2>5
    <2>7. QED
      BY Zenon, <2>1, <2>2, <2>6
  <1>11. ASSUME NEW k, NEW w, <<k, w>> \in Cells(c)
         PROVE  (\E x \in calls : Freed(x) = <<k, w>>) <=>
                  /\ k \in L
                  /\ \A u \in L : c[u].kind = "unknown" => ~(k > u) /\ <<k, w>> # <<u, "entities">>
    <2>1. CASE k = 1 /\ w = "json"
      <3>1. <<k, w>> \in calls /\ Freed(<<k, w>>) = <<k, w>>
        <4>1. 1 \in L
          BY <1>1 DEF L
        <4>2. Clear(1)
          OBVIOUS
        <4>3. <<1, "json">> \in calls /\ Freed(<<1, "json">>) = <<1, "json">>
          BY Zenon, <1>3, <1>5, <4>1, <4>2
        <4>4. QED
          BY Zenon, <2>1, <4>3
      <3>2. \A u \in L : ~(k > u) /\ <<k, w>> # <<u, "entities">>
        BY <1>7, <2>1
      <3>3. k \in L
        BY <1>1, <2>1 DEF L
      <3>4. QED
        BY Zenon, <3>1, <3>2, <3>3
    <2>2. CASE k \in L /\ k # 1 /\ w = "node"
      <3>1. k \in Nat /\ k > 1 /\ k - 1 \in L /\ k - 1 \in Nat /\ (k - 1) + 1 = k
        <4>1. k \in Nat /\ k > 1 /\ k - 1 \in 1..k-1
          BY <1>7, <2>2
        <4>2. k - 1 \in L
          BY <1>1, <1>7, <2>2, <4>1 DEF L
        <4>3. QED
          BY <4>1, <4>2
      <3>2. (\E x \in calls : Freed(x) = <<k, w>>) <=> <<k - 1, "reply">> \in calls
        <4>1. Freed(<<k - 1, "reply">>) = <<k, w>>
          BY <1>5, <2>2, <3>1
        <4>2. ASSUME NEW x \in calls, Freed(x) = <<k, w>> PROVE x = <<k - 1, "reply">>
          <5>1. PICK j, v : x = <<j, v>>
            BY <1>2
          <5>2. j \in Nat /\ v # "node"
            BY <1>3, <1>7, <5>1
          <5>3. v = "reply" /\ k = j + 1
            BY Zenon, <2>2, <4>2, <5>1, <5>2, FreedFacts
          <5>4. j = k - 1
            BY <5>2, <5>3
          <5>5. QED
            BY Zenon, <5>1, <5>3, <5>4
        <4>3. QED
          BY Zenon, <4>1, <4>2
      <3>3. <<k - 1, "reply">> \in calls <=> Clear(k - 1) /\ c[k - 1].kind # "unknown"
        <4>1. ASSUME NEW i, NEW v, v = "reply"
              PROVE  <<i, v>> \in calls <=>
                       i \in L /\ Clear(i) /\ i + 1 \in L /\ c[i].kind # "unknown"
          <5>1. v # "json" /\ v \notin {"photo", "entities"}
            BY <4>1
          <5>2. QED
            BY Zenon, <1>3, <4>1, <5>1
        <4>2. QED
          BY Zenon, <2>2, <3>1, <4>1
      <3>4. (\A u \in L : c[u].kind = "unknown" => ~(k > u)) <=> Clear(k - 1) /\ c[k - 1].kind # "unknown"
        <4>1. \A j \in 1..k-1 : j \in L
          BY <1>1, <1>7, <2>2 DEF L
        <4>2. QED
          BY <1>7, <3>1, <4>1
      <3>5. QED
        BY <2>2, <3>2, <3>3, <3>4
    <2>3. CASE k \in Reached(c) /\ w \in {"photo", "entities"} /\ p(k)[w] = TRUE
      <3>1. (\E x \in calls : Freed(x) = <<k, w>>) <=> <<k, w>> \in calls
        <4>1. Freed(<<k, w>>) = <<k, w>>
          BY <1>5, <2>3
        <4>2. ASSUME NEW x \in calls, Freed(x) = <<k, w>> PROVE x = <<k, w>>
          <5>1. PICK j, v : x = <<j, v>>
            BY <1>2
          <5>2. j \in Nat /\ v # "node" /\ w # "node"
            BY <1>3, <1>7, <2>3, <5>1
          <5>3. Freed(<<j, v>>) = <<k, w>>
            BY Zenon, <4>2, <5>1
          <5>4. v = w /\ j = k
            BY <5>2, <5>3, FreedFacts
          <5>5. QED
            BY Zenon, <5>1, <5>4
        <4>3. QED
          BY Zenon, <4>1, <4>2
      <3>2. <<k, w>> \in calls <=> k \in L /\ Clear(k) /\ c[k].kind # "unknown"
        BY <1>3, <2>3
      <3>3. ASSUME k \in L
            PROVE  (\A u \in L : c[u].kind = "unknown" => ~(k > u) /\ <<k, w>> # <<u, "entities">>)
                     <=> Clear(k) /\ c[k].kind # "unknown"
        <4>1. \A j \in 1..k-1 : j \in L
          BY <1>1, <2>3 DEF L
        <4>2. w = "photo" => c[k].kind # "unknown"
          BY <1>7, <2>3, <3>3
        <4>3. k \in Nat /\ w \in {"photo", "entities"}
          BY <1>7, <2>3, <3>3
        <4>4. QED
          BY <1>7, <3>3, <4>1, <4>2, <4>3
      <3>4. QED
        BY Zenon, <3>1, <3>2, <3>3
    <2>4. QED
      BY <1>4, <1>11, <2>1, <2>2, <2>3
  <1>12. ASSUME NEW k, NEW w, <<k, w>> \in Cells(c), k \notin L PROVE w = "photo"
    BY <1>1, <1>4, <1>8, <1>12 DEF L
  <1>13. Cells(c) \ {Freed(x) : x \in calls} = Lost(c)
    <2>1. ASSUME NEW k, NEW w, <<k, w>> \in Cells(c)
          PROVE  <<k, w>> \in Lost(c) <=> ~(\E x \in calls : Freed(x) = <<k, w>>)
      <3>1. <<k, w>>[1] = k /\ <<k, w>>[2] = w
        OBVIOUS
      <3>2. QED
        BY <1>11, <1>12, <2>1, <3>1 DEF Lost, L
    <2>2. ASSUME NEW x \in Cells(c)
          PROVE  x \in Lost(c) <=> x \notin {Freed(y) : y \in calls}
      <3>1. PICK k, w : x = <<k, w>>
        BY Zenon, <1>6
      <3>2. QED
        BY Zenon, <2>1, <3>1
    <2>3. Lost(c) \subseteq Cells(c)
      BY Zenon DEF Lost
    <2>4. QED
      BY Zenon, <2>2, <2>3
  <1>14. QED
    BY <1>9, <1>10, <1>13 DEF calls

-------------------------------------------------------------------------------
(* Facts about a state of the handler.                                     *)

\* Once loaded, the event and its reply are what the parsers made of the message:
\* they have their ids, unless the reply is an unknown event.
LEMMA EventFacts ==
  ASSUME Typing, Memory, pc \notin {"load", "done"}
  PROVE  /\ 1 \in DOMAIN evt /\ evt[1] \in Struct
         /\ evt[1].type \in event_mask =>
              evt[1].msg_id = TRUE /\ evt[1].from = TRUE /\ evt[1].chat = TRUE
         /\ 2 \in DOMAIN evt =>
              /\ evt[1].type \in {"text", "sticker", "unknown"} /\ evt[2] \in Struct
              /\ \/ evt[2].type = "unknown"
                 \/ evt[2].msg_id = TRUE /\ evt[2].from = TRUE /\ evt[2].chat = TRUE
  <1>1. msg \in Seq(Message) /\ msg # <<>> /\ ParseResult(msg[1]) = 0 /\ evt = Events(msg)
    BY HandlerAssumption DEF Typing, Memory
  <1>2. DOMAIN evt = Linked(msg) /\ \A k \in Linked(msg) : evt[k] = parse_message_json_obj(msg[k])
    BY <1>1 DEF Events
  <1>3. /\ 1 \in Linked(msg)
        /\ \A k \in Linked(msg) : msg[k] \in Message /\ \A j \in 1..k-1 : ReadsReply(msg[j])
    BY <1>1, LinkedFacts
  <1>4. \A k \in Linked(msg) : ParseResult(msg[k]) = 0
    BY <1>1 DEF Linked
  <1>5. ASSUME NEW k \in Linked(msg)
        PROVE  /\ evt[k] \in Struct /\ evt[k].type = msg[k].kind
               /\ \/ evt[k].type = "unknown"
                  \/ evt[k].msg_id = TRUE /\ evt[k].from = TRUE /\ evt[k].chat = TRUE
    <2>1. msg[k] \in Message /\ evt[k] = parse_message_json_obj(msg[k])
      BY <1>2, <1>3
    <2>2. msg[k].kind = "unknown" \/ msg[k].bad = "none"
      BY <1>4 DEF ParseResult, EINVAL
    <2>3. QED
      BY <2>1, <2>2, ParseFacts
  <1>6. 2 \in Linked(msg) => evt[1].type \in {"text", "sticker", "unknown"}
    <2>1. 2 \in Linked(msg) => ReadsReply(msg[1])
      <3>1. 1 \in 1..2-1
        OBVIOUS
      <3>2. QED
        BY Zenon, <1>3, <3>1
    <2>2. QED
      BY <1>3, <1>5, <2>1 DEF ReadsReply
  <1>7. "unknown" \notin event_mask
    BY DEF event_mask
  <1>8. QED
    BY Zenon, <1>2, <1>3, <1>5, <1>6, <1>7

\* What tge_get_reply_to returns for an event a module is asked about.
LEMMA ReplyFacts ==
  ASSUME NEW e, e[1].type \in event_mask, e[1].entity_c \in BOOLEAN
  PROVE  /\ tge_get_reply_to(e) \in {Null, Wild, 2}
         /\ tge_get_reply_to(e) = Wild => e[1].type = "photo" /\ e[1].entity_c = TRUE
         /\ tge_get_reply_to(e) = 2 => e[1].type = "text" /\ 2 \in DOMAIN e
  BY DEF tge_get_reply_to, event_mask, Null, Wild

\* Appending to a sequence.
LEMMA AppendFacts ==
  ASSUME NEW S, NEW s \in Seq(S), NEW x \in S
  PROVE  /\ Append(s, x) \in Seq(S) /\ Len(s) \in Nat /\ DOMAIN s = 1..Len(s)
         /\ DOMAIN Append(s, x) = 1..Len(s) + 1
         /\ \A i \in 1..Len(s) : Append(s, x)[i] = s[i]
         /\ Append(s, x)[Len(s) + 1] = x
  OBVIOUS

\* How the history of requests grows: one more request keeps each property if
\* that request, and the state it is made in, do.
LEMMA LogGrows ==
  ASSUME Typing, NEW x \in Req, reqs' = Append(reqs, x), UNCHANGED <<role, evt, cmd>>
  PROVE  /\ reqs' \in Seq(Req)
         /\ \A i \in DOMAIN reqs' : reqs'[i] = x \/ \E k \in DOMAIN reqs : reqs'[i] = reqs[k]
         /\ \E i \in DOMAIN reqs' : reqs'[i] = x
         /\ Allowed => Allowed'
         /\ PrivilegeFirst /\ (x.method \in Administrative => Allowed) => PrivilegeFirst'
         /\ TextIsWritten /\ (x.method = "sendMessage" => x.text # "unset") => TextIsWritten'
         /\ IdsAreParsed /\ (\/ x.chat = TRUE /\ x.id = TRUE
                             \/ evt[1].type = "text" /\ 2 \in DOMAIN evt /\ evt[2].type = "unknown")
              => IdsAreParsed'
         /\ StopsAtRefusal /\ (\/ cmd = "skick" \/ x.method = "sendMessage"
                               \/ \A i \in DOMAIN reqs : ~Failure(reqs[i]))
              => StopsAtRefusal'
  <1> DEFINE n == Len(reqs)
  <1>1. /\ reqs' \in Seq(Req) /\ n \in Nat /\ DOMAIN reqs = 1..n /\ DOMAIN reqs' = 1..n + 1
        /\ \A i \in 1..n : reqs'[i] = reqs[i]
        /\ reqs'[n + 1] = x
    BY AppendFacts DEF Typing
  <1> HIDE DEF n
  <1>2. /\ \A i \in 1..n : i \in DOMAIN reqs'
        /\ \A i \in DOMAIN reqs' : i \in 1..n \/ i = n + 1
        /\ 1..(n + 1) - 1 = 1..n
        /\ \A i \in 1..n : \A j \in 1..i-1 : j \in 1..n
        /\ \A i \in DOMAIN reqs' : i \in Nat
        /\ \A j \in DOMAIN reqs' : ~(n + 1 < j)
    BY <1>1
  <1>3a. \A i \in DOMAIN reqs' : reqs'[i] = x \/ \E k \in DOMAIN reqs : reqs'[i] = reqs[k]
    BY Zenon, <1>1, <1>2
  <1>3b. \E i \in DOMAIN reqs' : reqs'[i] = x
    <2>1. n + 1 \in DOMAIN reqs'
      BY <1>1
    <2>2. QED
      BY Zenon, <1>1, <2>1
  <1>3. Allowed => Allowed'
    BY Zenon, <1>1, <1>2 DEF Allowed
  <1>4. ASSUME PrivilegeFirst, x.method \in Administrative => Allowed PROVE PrivilegeFirst'
    <2> SUFFICES ASSUME NEW i \in DOMAIN reqs', reqs'[i].method \in Administrative
                 PROVE  \/ role = "sudoer"
                        \/ \E j \in 1..i-1 :
                             /\ reqs'[j].method = AdminList
                             /\ \/ reqs'[j].answer = "empty"
                                \/ reqs'[j].answer = "ok" /\ role = "admin"
      BY Zenon DEF PrivilegeFirst
    <2>1. CASE i \in 1..n
      <3>1. i \in DOMAIN reqs /\ reqs[i].method \in Administrative
        BY Zenon, <1>1, <2>1
      <3>2. \/ role = "sudoer"
            \/ \E j \in 1..i-1 : /\ reqs[j].method = AdminList
                                 /\ reqs[j].answer = "empty" \/ (reqs[j].answer = "ok" /\ role = "admin")
        BY Zenon, <1>4, <3>1 DEF PrivilegeFirst
      <3>3. \A j \in 1..i-1 : reqs'[j] = reqs[j]
        BY Zenon, <1>1, <1>2, <2>1
      <3>4. QED
        BY Zenon, <3>2, <3>3
    <2>2. CASE i = n + 1
      BY Zenon, <1>1, <1>2, <1>4, <2>2 DEF Allowed
    <2>3. QED
      BY Zenon, <1>2, <2>1, <2>2
  <1>5. ASSUME TextIsWritten, x.method = "sendMessage" => x.text # "unset" PROVE TextIsWritten'
    <2>1. \A i \in DOMAIN reqs' : reqs'[i].method = "sendMessage" => reqs'[i].text # "unset"
      BY Zenon, <1>1, <1>2, <1>5 DEF TextIsWritten, Requests
    <2>2. QED
      BY Zenon, <2>1 DEF TextIsWritten, Requests
  <1>6. ASSUME IdsAreParsed,
               \/ x.chat = TRUE /\ x.id = TRUE
               \/ evt[1].type = "text" /\ 2 \in DOMAIN evt /\ evt[2].type = "unknown"
        PROVE  IdsAreParsed'
    <2>1. \A i \in DOMAIN reqs' :
            \/ reqs'[i].chat /\ reqs'[i].id
            \/ evt[1].type = "text" /\ 2 \in DOMAIN evt /\ evt[2].type = "unknown"
      BY Zenon, <1>1, <1>2, <1>6 DEF IdsAreParsed, Requests
    <2>2. QED
      BY Zenon, <2>1 DEF IdsAreParsed, Requests
  <1>7. ASSUME StopsAtRefusal,
               \/ cmd = "skick" \/ x.method = "sendMessage"
               \/ \A i \in DOMAIN reqs : ~Failure(reqs[i])
        PROVE  StopsAtRefusal'
    <2> SUFFICES ASSUME cmd # "skick", NEW i \in DOMAIN reqs', NEW j \in DOMAIN reqs', i < j,
                        reqs'[i].method \in Administrative, reqs'[i].answer = "refused"
                 PROVE  reqs'[j].method = "sendMessage"
      BY Zenon DEF StopsAtRefusal
    <2>1. i \in 1..n
      BY Zenon, <1>2
    <2>2. CASE j \in 1..n
      BY Zenon, <1>1, <1>7, <2>1, <2>2 DEF StopsAtRefusal
    <2>3. CASE j = n + 1
      BY Zenon, <1>1, <1>7, <2>1, <2>3 DEF Failure
    <2>4. QED
      BY Zenon, <1>2, <2>2, <2>3
  <1>8. QED
    BY Zenon, <1>1, <1>3, <1>3a, <1>3b, <1>4, <1>5, <1>6, <1>7

\* A failed request makes the handler go to send_reply, and what is sent then is
\* the error: no failure is left unreported.
LEMMA ReportsGrow ==
  ASSUME Typing, Outcome, Reports, NEW x \in Req, reqs' = Append(reqs, x),
         Failure(x) => pc' = "send",
         pc = "send" => x.method = "sendMessage" /\ x.text = text
  PROVE  Reports'
  <1> DEFINE n == Len(reqs)
             Tells(q) == q.method = "sendMessage" /\ q.text = "error"
  <1>1. /\ reqs' \in Seq(Req) /\ n \in Nat /\ DOMAIN reqs = 1..n /\ DOMAIN reqs' = 1..n + 1
        /\ \A i \in 1..n : reqs'[i] = reqs[i]
        /\ reqs'[n + 1] = x
    BY AppendFacts DEF Typing
  <1>2. Len(reqs') = n + 1
    BY DEF Typing
  <1> HIDE DEF n
  <1>3. ASSUME NEW i \in DOMAIN reqs', Failure(reqs'[i]), pc' # "send"
        PROVE  \E j \in i+1 .. n + 1 : Tells(reqs'[j])
    <2>1. i # n + 1
      BY Zenon, <1>1, <1>3
    <2>2. i \in 1..n /\ reqs'[i] = reqs[i] /\ n + 1 \in i+1 .. n + 1
      BY <1>1, <2>1
    <2>3. i \in DOMAIN reqs /\ Failure(reqs[i])
      BY Zenon, <1>1, <1>3, <2>2
    <2>4. CASE pc = "send"
      <3>1. text = "error"
        BY Zenon, <2>3 DEF Outcome
      <3>2. Tells(reqs'[n + 1])
        BY Zenon, <1>1, <2>4, <3>1
      <3>3. QED
        BY Zenon, <2>2, <3>2
    <2>5. CASE pc # "send"
      <3>1. PICK j \in i+1 .. n : Tells(reqs[j])
        BY Zenon, <2>3, <2>5 DEF Reports, n
      <3>2. j \in 1..n /\ j \in i+1 .. n + 1
        BY <1>1, <2>2
      <3>3. reqs'[j] = reqs[j]
        BY Zenon, <1>1, <3>2
      <3>4. QED
        BY Zenon, <3>1, <3>2, <3>3
    <2>6. QED
      BY <2>4, <2>5
  <1>4. QED
    BY Zenon, <1>2, <1>3 DEF Reports

-------------------------------------------------------------------------------
(* The invariant holds initially, and each step keeps it.                  *)

\* The state gwbot_event_handler starts in.
LEMMA InitHandler == Init => HandlerInv
  <1> SUFFICES ASSUME Init PROVE HandlerInv
    OBVIOUS
  <1>1. Typing
    BY DEF Init, Typing, TypeOK, mod_tbl, EINVAL, ECANCELED, EBADMSG, Null, Wild
  <1>2. Memory /\ Pointers /\ Course /\ CrashOnlyWhere
    BY DEF Init, Memory, Pointers, Course, CrashOnlyWhere, Null, Wild
  <1>3. DOMAIN reqs = {}
    BY DEF Init
  <1>4. History
    BY Zenon, <1>3 DEF History, PrivilegeFirst, TextIsWritten, IdsAreParsed, StopsAtRefusal,
         Outcome, Reports, Requests
  <1>5. QED
    BY <1>1, <1>2, <1>4 DEF HandlerInv

\* Between load and destroy no step touches the event.
LEMMA MemoryStays ==
  ASSUME Memory, pc \notin {"load", "done"}, pc' \notin {"load", "done"}, UNCHANGED <<msg, event>>
  PROVE  Memory'
  <1>1. UNCHANGED <<msg, evt, heap, bad_free>>
    BY DEF event
  <1>2. QED
    BY Zenon, <1>1 DEF Memory

\* An empty history satisfies everything about histories.
LEMMA NoHistory == ASSUME reqs' = <<>> PROVE History'
  <1>1. DOMAIN reqs' = {}
    OBVIOUS
  <1>2. PrivilegeFirst' /\ StopsAtRefusal' /\ Outcome' /\ Reports'
    BY Zenon, <1>1 DEF PrivilegeFirst, StopsAtRefusal, Outcome, Reports
  <1>3. TextIsWritten' /\ IdsAreParsed'
    BY Zenon, <1>1 DEF TextIsWritten, IdsAreParsed, Requests
  <1>4. QED
    BY Zenon, <1>2, <1>3 DEF History

\* Loading: the parsed event, or everything that could be freed is freed.
LEMMA LoadKeeps == ASSUME HandlerInv, tg_event_load_str PROVE HandlerInv'
  <1> USE DEF HandlerInv
  <1>1. /\ pc = "load" /\ UNCHANGED <<msg, role, mod, cmd, tgt, todo, text, reqs>>
        /\ pc' \in {"module", "done"} /\ ret' \in {0, EINVAL}
    BY DEF tg_event_load_str, input, ParseResult
  <1>2. reqs = <<>> /\ todo = <<>> /\ text = "unset" /\ evt = <<>> /\ bad_free = FALSE
    BY <1>1 DEF Course, Memory
  <1>3. Typing'
    BY <1>1 DEF Typing, TypeOK
  <1>4. Memory'
    <2>1. CASE msg = <<>>
      BY <1>1, <1>2, <2>1 DEF tg_event_load_str, event, Memory
    <2>2. CASE msg # <<>> /\ ParseResult(msg[1]) = 0
      BY <1>1, <1>2, <2>2 DEF tg_event_load_str, Memory
    <2>3. CASE msg # <<>> /\ ParseResult(msg[1]) # 0
      <3>1. /\ pc' = "done" /\ evt' = Events(msg)
            /\ FreeAll(Cells(msg), tg_event_destroy(Events(msg)))
        BY <2>3 DEF tg_event_load_str
      <3>2. msg \in Seq(Message)
        BY HandlerAssumption DEF Typing
      <3>3. bad_free' = FALSE /\ heap' = Lost(msg)
        BY Zenon, <2>3, <3>1, <3>2, DestroyBalances DEF FreeAll
      <3>4. QED
        BY <1>1, <3>1, <3>3 DEF Memory
    <2>4. QED
      BY <2>1, <2>2, <2>3
  <1>5. tgt # 2
    BY <1>2 DEF Pointers
  <1>6. Pointers' /\ Course' /\ CrashOnlyWhere'
    BY <1>1, <1>2, <1>5 DEF Pointers, Course, CrashOnlyWhere
  <1>7. History'
    BY <1>1, <1>2, NoHistory
  <1>8. QED
    BY <1>3, <1>4, <1>6, <1>7

\* A step that makes no request and comes before the first one.
LEMMA QuietKeeps ==
  ASSUME HandlerInv, pc \in {"module", "fetch"}, UNCHANGED <<input, event, todo, reqs>>,
         pc' \in {"module", "fetch", "send", "report", "privilege", "crashed", "destroy"},
         mod' \in 1..Len(mod_tbl) + 1, text' \in Replies, ret' \in {0, ECANCELED, EBADMSG, ENOMEM, ret},
         cmd' \in AdminCommands \cup {"nop", "report", "delvote"}, tgt' \in {Null, Wild, 1, 2},
         Pointers', CrashOnlyWhere',
         pc' = "privilege" => cmd' \in AdminCommands \cup {"delvote"},
         pc' = "send" => text' # "unset",
         pc' \in {"module", "fetch", "privilege", "report"} => text' = "unset"
  PROVE  HandlerInv'
  <1> USE DEF HandlerInv
  <1>1. UNCHANGED <<msg, role, evt, heap, bad_free>> /\ reqs' = <<>> /\ todo' = <<>>
    BY DEF input, event, Course
  <1>2. Typing'
    BY <1>1 DEF Typing, TypeOK, Replies
  <1>3. Memory'
    BY MemoryStays, <1>1
  <1>4. Course'
    BY <1>1 DEF Course
  <1>5. History'
    BY <1>1, NoHistory
  <1>6. QED
    BY <1>2, <1>3, <1>4, <1>5

\* The modules are asked one after the other.
LEMMA AskedFacts ==
  ASSUME HandlerInv, NEW name, Asked(name)
  PROVE  /\ pc = "module" /\ evt[1].type \in event_mask
         /\ 1 \in DOMAIN evt /\ evt[1] \in Struct
         /\ mod \in 1..Len(mod_tbl) + 1 /\ mod + 1 \in 1..Len(mod_tbl) + 1
         /\ text = "unset" /\ text \in Replies
         /\ tge_get_reply_to(evt) \in {Null, Wild, 2}
         /\ tge_get_reply_to(evt) = Wild => evt[1].type = "photo" /\ evt[1].entity_c = TRUE
         /\ tge_get_reply_to(evt) = 2 => evt[1].type = "text" /\ 2 \in DOMAIN evt
  <1>1. pc = "module" /\ evt[1].type \in event_mask /\ mod <= Len(mod_tbl)
    BY DEF Asked
  <1>2. 1 \in DOMAIN evt /\ evt[1] \in Struct
    BY <1>1, EventFacts DEF HandlerInv
  <1>3. evt[1].entity_c \in BOOLEAN
    BY <1>2 DEF Struct
  <1>4. mod \in 1..Len(mod_tbl) + 1 /\ mod + 1 \in 1..Len(mod_tbl) + 1
    <2>1. mod \in 1..Len(mod_tbl) + 1
      BY DEF HandlerInv, Typing, TypeOK
    <2>2. Len(mod_tbl) = 4
      BY DEF mod_tbl
    <2>3. QED
      BY <1>1, <2>1, <2>2
  <1>5. text = "unset" /\ text \in Replies
    BY <1>1 DEF HandlerInv, Course, Replies
  <1>6. QED
    BY <1>1, <1>2, <1>3, <1>4, <1>5, ReplyFacts

\* A module that returns -ECANCELED, or crashes on a wild pointer.
LEMMA CancelKeeps ==
  ASSUME HandlerInv, NEW name, Asked(name), Cancel, UNCHANGED <<input, event, todo, reqs>>
  PROVE  HandlerInv'
  <1>1. /\ pc' = "module" /\ mod' = mod + 1 /\ ret' = ECANCELED /\ UNCHANGED <<cmd, tgt, text>>
        /\ UNCHANGED <<evt, todo>>
    BY AskedFacts DEF Cancel, event
  <1>2. /\ cmd \in AdminCommands \cup {"nop", "report", "delvote"} /\ tgt \in {Null, Wild, 1, 2}
        /\ todo = <<>> /\ (tgt = 2 => 2 \in DOMAIN evt)
    BY AskedFacts DEF HandlerInv, Typing, Pointers, Course
  <1>3. Pointers' /\ CrashOnlyWhere'
    BY <1>1, <1>2 DEF Pointers, CrashOnlyWhere
  <1>4. QED
    BY <1>1, <1>2, <1>3, AskedFacts, QuietKeeps

\* A crash happens only where tge_get_reply_to misreads a photo that is addressed
\* to a module.
LEMMA CrashKeeps ==
  ASSUME HandlerInv, NEW name, Asked(name), tge_get_reply_to(evt) = Wild, Crash,
         Addressed(tge_get_text(evt[1]).word), UNCHANGED <<input, event, todo, reqs>>
  PROVE  HandlerInv'
  <1>1. /\ pc' = "crashed" /\ UNCHANGED <<mod, cmd, tgt, text, ret>> /\ UNCHANGED <<evt, todo>>
    BY DEF Crash, event
  <1>2. /\ cmd \in AdminCommands \cup {"nop", "report", "delvote"} /\ tgt \in {Null, Wild, 1, 2}
        /\ todo = <<>> /\ (tgt = 2 => 2 \in DOMAIN evt)
    BY AskedFacts DEF HandlerInv, Typing, Pointers, Course
  <1>3. evt[1].type = "photo" /\ evt[1].entity_c = TRUE
    BY AskedFacts
  <1>4. Pointers'
    BY <1>1, <1>2, <1>3 DEF Pointers
  <1>5. CrashOnlyWhere'
    BY Zenon, <1>1, <1>3 DEF CrashOnlyWhere
  <1>6. QED
    BY <1>1, <1>2, <1>4, <1>5, AskedFacts, QuietKeeps

\* The end of the loop over the modules.
LEMMA NoModuleKeeps == ASSUME HandlerInv, NoModule PROVE HandlerInv'
  <1>1. /\ pc = "module" /\ pc' = "destroy" /\ UNCHANGED <<mod, cmd, tgt, text, ret>>
        /\ UNCHANGED <<input, event, todo, reqs>> /\ UNCHANGED <<evt>>
    BY DEF NoModule, event
  <1>2. /\ cmd \in AdminCommands \cup {"nop", "report", "delvote"} /\ tgt \in {Null, Wild, 1, 2}
        /\ todo = <<>> /\ (tgt = 2 => 2 \in DOMAIN evt)
        /\ mod \in 1..Len(mod_tbl) + 1 /\ text \in Replies
    BY <1>1 DEF HandlerInv, Typing, TypeOK, Pointers, Course, Replies
  <1>3. Pointers' /\ CrashOnlyWhere'
    BY <1>1, <1>2 DEF Pointers, CrashOnlyWhere
  <1>4. QED
    BY <1>1, <1>2, <1>3, QuietKeeps

\* The modules 000_debug and 001_standard.
LEMMA DebugKeeps == ASSUME HandlerInv, debug \/ standard PROVE HandlerInv'
  <1>1. CASE debug
    <2>1. Asked("debug") /\ UNCHANGED <<input, event, todo, reqs>>
      BY <1>1 DEF debug
    <2>2. CASE Cancel
      BY <2>1, <2>2, CancelKeeps
    <2>3. CASE ~Cancel
      <3>1. /\ pc' = "send" /\ tgt' = 1 /\ text' = "debug" /\ ret' = 0 /\ UNCHANGED <<mod, cmd>>
            /\ UNCHANGED <<evt, todo>>
        BY <1>1, <2>3 DEF debug, event
      <3>2. cmd \in AdminCommands \cup {"nop", "report", "delvote"} /\ todo = <<>>
        BY <2>1, AskedFacts DEF HandlerInv, Typing, Course
      <3>3. Pointers' /\ CrashOnlyWhere'
        <4>1. evt[1].type \in event_mask
          BY <2>1, AskedFacts
        <4>2. 1 # Wild /\ 1 # 2
          BY DEF Wild
        <4>3. QED
          BY <3>1, <3>2, <4>1, <4>2 DEF Pointers, CrashOnlyWhere
      <3>4. "debug" \in Replies /\ 1 \in {Null, Wild, 1, 2}
        BY DEF Replies
      <3>5. QED
        BY <2>1, <3>1, <3>2, <3>3, <3>4, AskedFacts, QuietKeeps
    <2>4. QED
      BY <2>2, <2>3
  <1>2. CASE standard
    BY <1>2, CancelKeeps DEF standard
  <1>3. QED
    BY <1>1, <1>2

\* The entry of 002_translate: the text is in the command or in the reply.
LEMMA TranslateKeeps == ASSUME HandlerInv, translate PROVE HandlerInv'
  <1> DEFINE t == tge_get_text(evt[1])
             reply == tge_get_reply_to(evt)
             To(p) == pc' = "fetch" /\ tgt' = p /\ UNCHANGED <<mod, cmd, text, ret>>
  <1>1. Asked("translate") /\ UNCHANGED <<input, event, todo, reqs>>
    BY DEF translate
  <1>4. \/ Cancel \/ (reply = Wild /\ Addressed(t.word) /\ Crash)
        \/ To(1) \/ (reply # Null /\ reply # Wild /\ To(reply))
    <2>1. CASE ~BeginsTranslation(t.word)
      BY Zenon, <2>1 DEF translate
    <2>2. CASE BeginsTranslation(t.word) /\ reply = Wild
      <3>1. Addressed(t.word)
        BY Zenon, <2>2 DEF Addressed
      <3>2. QED
        BY Zenon, <2>2, <3>1 DEF translate
    <2>3. CASE BeginsTranslation(t.word) /\ reply # Wild
      BY Zenon, <2>3 DEF translate
    <2>4. QED
      BY Zenon, <2>1, <2>2, <2>3
  <1> HIDE DEF t
  <1>5. ASSUME NEW p \in {1, 2}, To(p), p = 2 => 2 \in DOMAIN evt PROVE HandlerInv'
    <2>1. /\ cmd \in AdminCommands \cup {"nop", "report", "delvote"} /\ todo = <<>>
          /\ UNCHANGED <<evt, todo>>
      BY <1>1, AskedFacts DEF HandlerInv, Typing, Course, event
    <2>2. p # Wild /\ p \in {Null, Wild, 1, 2}
      BY DEF Wild
    <2>3. Pointers' /\ CrashOnlyWhere'
      BY <1>1, <1>5, <2>1, <2>2, AskedFacts DEF Pointers, CrashOnlyWhere
    <2>4. QED
      BY <1>1, <1>5, <2>1, <2>2, <2>3, AskedFacts, QuietKeeps
  <1>6. reply # Null /\ reply # Wild => reply = 2 /\ 2 \in DOMAIN evt
    BY <1>1, AskedFacts
  <1> HIDE DEF reply
  <1>7. QED
    BY <1>1, <1>4, <1>5, <1>6, CancelKeeps, CrashKeeps DEF reply, t

\* The translation arrives, or does not.
LEMMA FetchKeeps == ASSUME HandlerInv, fetch_api PROVE HandlerInv'
  <1>1. /\ pc = "fetch" /\ UNCHANGED <<input, event, todo, reqs>> /\ UNCHANGED <<mod, cmd, tgt, evt>>
        /\ pc' \in {"destroy", "send"} /\ ret' \in {0, EBADMSG, ENOMEM}
        /\ text' \in {"translation", "error", text} /\ (pc' = "send" => text' \in {"translation", "error"})
    BY DEF fetch_api, event
  <1>2. /\ cmd \in AdminCommands \cup {"nop", "report", "delvote"} /\ tgt \in {Null, Wild, 1, 2}
        /\ todo = <<>> /\ (tgt = 2 => 2 \in DOMAIN evt) /\ tgt # Wild
        /\ mod \in 1..Len(mod_tbl) + 1 /\ text \in Replies /\ evt[1].type \in event_mask
    BY <1>1 DEF HandlerInv, Typing, TypeOK, Pointers, Course, Replies
  <1>3. Pointers' /\ CrashOnlyWhere'
    BY <1>1, <1>2 DEF Pointers, CrashOnlyWhere
  <1>4. text' \in Replies
    BY <1>1, <1>2 DEF Replies
  <1>5. QED
    BY <1>1, <1>2, <1>3, <1>4, QuietKeeps

\* The table holds the commands of the two kinds.
LEMMA CommandFacts ==
  ASSUME NEW i \in DOMAIN cmd_tbl
  PROVE  CommandOf(cmd_tbl[i]) \in AdminCommands \cup {"report", "delvote"}
  <1>1. i \in 1..16
    BY DEF cmd_tbl
  <1>2. cmd_tbl[i] \in {"ban", "sban", "unban", "kick", "skick", "warn", "mute", "tmute",
                        "unmute", "pin", "unpin", "delete", "del", "report", "admin", "delvote"}
    BY <1>1 DEF cmd_tbl
  <1>3. QED
    BY <1>2 DEF CommandOf, AdminCommands

\* The entry of 003_admin: the command is known, and has the reply it needs.
LEMMA AdminKeeps == ASSUME HandlerInv, admin PROVE HandlerInv'
  <1> DEFINE t == tge_get_text(evt[1])
             reply == tge_get_reply_to(evt)
             Run(k) == /\ cmd' = k /\ tgt' = reply /\ UNCHANGED <<mod, text, ret>>
                       /\ pc' = IF k = "report" THEN "report" ELSE "privilege"
             Known == AdminCommands \cup {"report", "delvote"}
  <1>1. Asked("admin") /\ UNCHANGED <<input, event, todo, reqs>>
    BY DEF admin
  <1>2. \/ Cancel \/ (reply = Wild /\ Addressed(t.word) /\ Crash)
        \/ \E c \in Known :
             /\ Run(c)
             /\ \/ reply # Null /\ reply # Wild
                \/ c = "report" /\ (reply # Wild \/ t.word = "mention")
    <2>1. CASE t.word = "mention"
      BY <2>1 DEF admin
    <2>2. CASE t.word # "mention" /\ ~Cancel
      <3>1. PICK i \in DOMAIN cmd_tbl :
              /\ cmd_tbl[i] = t.word
              /\ LET c == CommandOf(cmd_tbl[i]) IN
                 IF reply = Null
                 THEN IF c = "report" /\ t.args = 0 THEN Run(c) ELSE Cancel
                 ELSE IF reply = Wild THEN Crash
                 ELSE Run(c)
        BY <2>2 DEF admin
      <3>2. CommandOf(cmd_tbl[i]) \in Known
        BY CommandFacts
      <3>3. Addressed(t.word)
        BY Zenon, <3>1 DEF Addressed
      <3>4. Null # Wild
        BY DEF Null, Wild
      <3>5. QED
        BY Zenon, <2>2, <3>1, <3>2, <3>3, <3>4
    <2>3. QED
      BY <2>1, <2>2
  <1>3. /\ reply \in {Null, Wild, 2}
        /\ reply = Wild => evt[1].type = "photo" /\ evt[1].entity_c = TRUE
        /\ reply = 2 => evt[1].type = "text" /\ 2 \in DOMAIN evt
    BY <1>1, AskedFacts
  <1> HIDE DEF reply, t
  <1>4. ASSUME NEW c \in Known, Run(c),
               \/ reply # Null /\ reply # Wild
               \/ c = "report" /\ (reply # Wild \/ t.word = "mention")
        PROVE  HandlerInv'
    <2>1. /\ todo = <<>> /\ UNCHANGED <<evt, todo>> /\ evt[1].type \in event_mask
          /\ reply \in {Null, Wild, 1, 2} /\ pc' \in {"report", "privilege"}
      BY <1>1, <1>3, <1>4, AskedFacts DEF HandlerInv, Course, event
    <2>2. Pointers' /\ CrashOnlyWhere'
      BY <1>3, <1>4, <2>1 DEF Pointers, CrashOnlyWhere, Null, Wild, t
    <2>3. c \in AdminCommands \cup {"nop", "report", "delvote"}
      BY <1>4
    <2>4. pc' = "privilege" => c \in AdminCommands \cup {"delvote"}
      BY <1>4
    <2>5. QED
      BY <1>1, <1>4, <2>1, <2>2, <2>3, <2>4, AskedFacts, QuietKeeps
  <1> HIDE DEF Run
  <1>5. QED
    BY <1>1, <1>2, <1>4, CancelKeeps, CrashKeeps DEF reply, t
-------------------------------------------------------------------------------
(* The steps that make a request.                                          *)

\* The elements of a sequence.
LEMMA ElementFacts == ASSUME NEW S, NEW s \in Seq(S) PROVE \A i \in DOMAIN s : s[i] \in S
  OBVIOUS

\* What a step that makes the request x has to respect.
LEMMA RequestKeeps ==
  ASSUME HandlerInv, NEW x \in Req, reqs' = Append(reqs, x), UNCHANGED <<input, mod, event, cmd, tgt>>,
         pc \in {"privilege", "report", "exec", "send"}, pc' \in {"exec", "send", "destroy", "crashed"},
         todo' \in Seq(Administrative), text' \in Replies, ret' \in {0, ECANCELED, ret},
         x.method \in Administrative => Allowed,
         x.method = "sendMessage" => x.text # "unset",
         \/ x.chat = TRUE /\ x.id = TRUE
         \/ evt[1].type = "text" /\ 2 \in DOMAIN evt /\ evt[2].type = "unknown",
         \/ cmd = "skick" \/ x.method = "sendMessage"
         \/ \A i \in DOMAIN reqs : ~Failure(reqs[i]),
         pc' = "exec" => todo' # <<>>,
         pc' = "send" => text' # "unset" /\ tgt # Wild,
         todo' # <<>> => /\ Allowed' /\ text' \in {"unset", "error"} /\ cmd \in AdminCommands
                         /\ tgt = 2 /\ evt[1].type = "text",
         Failure(x) => pc' = "send",
         pc = "send" => x.method = "sendMessage" /\ x.text = text,
         \A r \in Req : Failure(r) /\ (r = x \/ \E k \in DOMAIN reqs : r = reqs[k]) =>
           text' = "error" /\ (cmd = "skick" \/ (todo' = <<>> /\ pc' \in {"send", "destroy"})),
         \A r \in Req : Success(r) /\ (r = x \/ \E k \in DOMAIN reqs : r = reqs[k]) =>
           text' = "success",
         CrashOnlyWhere'
  PROVE  HandlerInv'
  <1>1. UNCHANGED <<msg, role, evt, heap, bad_free>> /\ UNCHANGED <<msg, event>>
        /\ UNCHANGED <<role, evt, cmd>> /\ UNCHANGED <<mod, cmd, tgt>>
    BY DEF input, event
  <1>2. Typing /\ Memory /\ Pointers /\ History
    BY DEF HandlerInv
  <1>3. \A i \in DOMAIN reqs' : reqs'[i] = x \/ \E k \in DOMAIN reqs : reqs'[i] = reqs[k]
    BY <1>1, <1>2, LogGrows
  <1>3a. reqs' \in Seq(Req)
    BY <1>1, <1>2, LogGrows
  <1>4. Typing'
    BY <1>1, <1>2, <1>3a DEF Typing, TypeOK, Replies
  <1>5. Memory'
    BY <1>1, <1>2, MemoryStays
  <1>6. Pointers'
    BY <1>1, <1>2 DEF Pointers
  <1>7. Course'
    BY <1>1 DEF Course
  <1>8. PrivilegeFirst' /\ TextIsWritten' /\ IdsAreParsed' /\ StopsAtRefusal'
    BY <1>1, <1>2, LogGrows DEF History
  <1>9. Outcome'
    <2>1. \A i \in DOMAIN reqs' : reqs'[i] \in Req
      BY Zenon, <1>3a, ElementFacts
    <2>2. QED
      BY Zenon, <1>1, <1>3, <2>1 DEF Outcome
  <1>10. Reports'
    BY <1>2, ReportsGrow DEF History
  <1>11. QED
    BY <1>4, <1>5, <1>6, <1>7, <1>8, <1>9, <1>10 DEF HandlerInv, History

\* A request is well formed.
LEMMA RequestFacts ==
  ASSUME HandlerInv, NEW m \in Administrative \cup {AdminList, "sendMessage"}, NEW ch \in BOOLEAN,
         NEW id \in BOOLEAN, NEW a \in Answers \cup {"unused"}
  PROVE  /\ Request(m, ch, id, a) \in Req
         /\ Request(m, ch, id, a).method = m /\ Request(m, ch, id, a).chat = ch
         /\ Request(m, ch, id, a).id = id /\ Request(m, ch, id, a).answer = a
         /\ Request(m, ch, id, a).text = text
  <1>1. text \in Replies
    BY DEF HandlerInv, Typing, TypeOK, Replies
  <1>2. QED
    BY <1>1 DEF Request, Req

\* A command makes at least one request.
LEMMA PlanFacts ==
  ASSUME NEW c \in AdminCommands \ {"warn", "tmute"}
  PROVE  Plan(c) \in Seq(Administrative) /\ Plan(c) # <<>>
  <1>1. CASE c \in {"ban", "unban", "kick", "mute", "unmute", "pin", "unpin"}
    <2>1. PICK m \in Administrative : Plan(c) = <<m>>
      BY <1>1 DEF Plan, Administrative
    <2>2. QED
      BY <2>1
  <1>2. CASE c \in {"sban", "skick"}
    <2>1. PICK m \in Administrative : Plan(c) = <<m, "del_cmd", "del_reply">>
      BY <1>2 DEF Plan, Administrative
    <2>2. "del_cmd" \in Administrative /\ "del_reply" \in Administrative
      BY DEF Administrative
    <2>3. QED
      BY <2>1, <2>2
  <1>3. CASE c = "delete"
    <2>1. Plan(c) = <<"del_reply", "del_cmd">>
      BY <1>3 DEF Plan
    <2>2. "del_cmd" \in Administrative /\ "del_reply" \in Administrative
      BY DEF Administrative
    <2>3. QED
      BY <2>1, <2>2
  <1>4. QED
    BY <1>1, <1>2, <1>3 DEF AdminCommands

\* The list of administrators is asked for in the chat of the event.
LEMMA ListFacts ==
  ASSUME HandlerInv, pc \in {"privilege", "report"}, NEW answer \in Answers
  PROVE  LET x == Request(AdminList, tge_get_chat_id(evt[1]), TRUE, answer) IN
         /\ x \in Req /\ x.method = AdminList /\ x.answer = answer /\ x.chat = TRUE /\ x.id = TRUE
         /\ x.method \notin Administrative /\ x.method # "sendMessage"
  <1>1. evt[1].chat = TRUE
    BY EventFacts DEF HandlerInv, Pointers
  <1>2. tge_get_chat_id(evt[1]) = TRUE
    BY <1>1 DEF tge_get_chat_id
  <1>3. TRUE \in BOOLEAN /\ answer \in Answers \cup {"unused"}
        /\ AdminList \in Administrative \cup {AdminList, "sendMessage"}
    OBVIOUS
  <1>4. AdminList \notin Administrative /\ AdminList # "sendMessage"
    BY DEF AdminList, Administrative
  <1>5. LET x == Request(AdminList, TRUE, TRUE, answer) IN
        x \in Req /\ x.method = AdminList /\ x.answer = answer /\ x.chat = TRUE /\ x.id = TRUE
    <2>1. text \in Replies
      BY DEF HandlerInv, Typing, TypeOK, Replies
    <2>2. QED
      BY <1>3, <2>1 DEF Request, Req
  <1>6. QED
    BY Zenon, <1>2, <1>4, <1>5

\* The start of a command that needs no check, or has passed it.
LEMMA StartFacts ==
  ASSUME HandlerInv, pc = "privilege", Start
  PROVE  /\ pc' \in {"exec", "send", "destroy"} /\ todo' \in Seq(Administrative) /\ text' \in Replies
         /\ ret' \in {0, ECANCELED, ret}
         /\ pc' = "exec" => todo' # <<>>
         /\ pc' = "send" => text' # "unset"
         /\ todo' # <<>> => cmd \in AdminCommands /\ text' = "unset"
  <1>1. todo = <<>> /\ text = "unset" /\ cmd \in AdminCommands \cup {"delvote"}
    BY DEF HandlerInv, Course
  <1>2. todo \in Seq(Administrative)
    BY DEF HandlerInv, Typing, TypeOK
  <1>3. CASE cmd \in {"warn", "tmute", "delvote"}
    BY <1>1, <1>2, <1>3 DEF Start, Replies
  <1>4. CASE cmd \notin {"warn", "tmute", "delvote"}
    <2>1. cmd \in AdminCommands \ {"warn", "tmute"}
      BY <1>1, <1>4
    <2>2. Plan(cmd) \in Seq(Administrative) /\ Plan(cmd) # <<>>
      BY <2>1, PlanFacts
    <2>3. \/ pc' = "send" /\ text' = "please reply" /\ ret' = 0 /\ UNCHANGED todo
          \/ pc' = "exec" /\ todo' = Plan(cmd) /\ UNCHANGED <<text, ret>>
      BY <1>4 DEF Start
    <2>4. QED
      BY <1>1, <1>2, <2>1, <2>2, <2>3 DEF Replies
  <1>5. QED
    BY <1>3, <1>4

\* The privilege check: what it lets pass is allowed.
LEMMA PrivilegeKeeps == ASSUME HandlerInv, is_privileged_user PROVE HandlerInv'
  <1>1. /\ pc = "privilege" /\ UNCHANGED <<input, mod, event, cmd, tgt>>
        /\ UNCHANGED <<msg, role, evt, cmd, tgt, mod>> /\ UNCHANGED <<msg, event>>
        /\ UNCHANGED <<role, evt, cmd>>
    BY DEF is_privileged_user, input, event
  <1>2. /\ Typing /\ Memory /\ reqs = <<>> /\ todo = <<>> /\ text = "unset"
        /\ cmd \in AdminCommands \cup {"delvote"}
        /\ tgt = 2 /\ evt[1].type = "text" /\ tgt # Wild /\ 2 \in DOMAIN evt
    BY <1>1 DEF HandlerInv, Course, Pointers, Wild
  <1>3. CASE (~NeedsPrivilege(cmd) \/ role = "sudoer") /\ Start /\ UNCHANGED reqs
    <2>1. /\ pc' \in {"exec", "send", "destroy"} /\ todo' \in Seq(Administrative) /\ text' \in Replies
          /\ ret' \in {0, ECANCELED, ret}
          /\ pc' = "exec" => todo' # <<>>
          /\ pc' = "send" => text' # "unset"
          /\ todo' # <<>> => cmd \in AdminCommands /\ text' = "unset"
      BY <1>1, <1>3, StartFacts
    <2>2. Typing'
      BY <1>1, <1>2, <1>3, <2>1 DEF Typing, TypeOK, Replies
    <2>3. Memory'
      BY <1>1, <1>2, <2>1, MemoryStays
    <2>4. Pointers'
      BY <1>1, <1>2, <2>1 DEF Pointers, event_mask
    <2>5. Course'
      BY <1>1, <1>3, <2>1 DEF Course, Allowed, NeedsPrivilege
    <2>6. History'
      BY <1>2, <1>3, NoHistory
    <2>7. CrashOnlyWhere'
      BY <2>1 DEF CrashOnlyWhere
    <2>8. QED
      BY <2>2, <2>3, <2>4, <2>5, <2>6, <2>7 DEF HandlerInv
  <1>4. ASSUME NEW answer \in Answers, NEW listed \in parse_tga_admins(answer),
               reqs' = Append(reqs, Request(AdminList, tge_get_chat_id(evt[1]), TRUE, answer)),
               IF listed = "yes" THEN Start
               ELSE /\ pc' = "send" /\ ret' = 0 /\ UNCHANGED todo
                    /\ text' = IF listed = "no" THEN "eperm" ELSE "error"
        PROVE  HandlerInv'
    <2> DEFINE x == Request(AdminList, tge_get_chat_id(evt[1]), TRUE, answer)
    <2>1. /\ x \in Req /\ x.method = AdminList /\ x.answer = answer /\ x.chat = TRUE /\ x.id = TRUE
          /\ x.method \notin Administrative /\ x.method # "sendMessage"
      BY <1>1, ListFacts
    <2>2. reqs' = Append(reqs, x)
      BY <1>4
    <2> HIDE DEF x
    <2>3. /\ pc' \in {"exec", "send", "destroy"} /\ todo' \in Seq(Administrative) /\ text' \in Replies
          /\ ret' \in {0, ECANCELED, ret}
          /\ pc' = "exec" => todo' # <<>>
          /\ pc' = "send" => text' # "unset"
          /\ todo' # <<>> => listed = "yes" /\ text' = "unset" /\ cmd \in AdminCommands
      <3>1. CASE listed = "yes"
        BY <1>1, <1>4, <3>1, StartFacts
      <3>2. CASE listed # "yes"
        <4>1. todo \in Seq(Administrative)
          BY <1>2 DEF Typing, TypeOK
        <4>2. QED
          BY <1>2, <1>4, <3>2, <4>1 DEF Replies
      <3>3. QED
        BY <3>1, <3>2
    <2>4. listed = "yes" => Allowed'
      <3> SUFFICES ASSUME listed = "yes" PROVE Allowed'
        OBVIOUS
      <3>1. answer = "empty" \/ (answer = "ok" /\ role = "admin")
        BY <1>4 DEF parse_tga_admins
      <3>2. PICK i \in DOMAIN reqs' : reqs'[i] = x
        BY <1>1, <1>2, <2>1, <2>2, LogGrows
      <3>3. QED
        BY <1>1, <2>1, <3>1, <3>2 DEF Allowed
    <2>5. DOMAIN reqs = {}
      BY <1>2
    <2>6. ~Failure(x) /\ ~Success(x)
      BY <2>1 DEF Failure, Success
    <2>7. CrashOnlyWhere'
      BY <2>3 DEF CrashOnlyWhere
    <2>8. /\ \A r \in Req : Failure(r) /\ (r = x \/ \E k \in DOMAIN reqs : r = reqs[k]) => FALSE
          /\ \A r \in Req : Success(r) /\ (r = x \/ \E k \in DOMAIN reqs : r = reqs[k]) => FALSE
          /\ \A i \in DOMAIN reqs : ~Failure(reqs[i])
      BY Zenon, <2>5, <2>6
    <2>9. QED
      BY <1>1, <1>2, <2>1, <2>2, <2>3, <2>4, <2>7, <2>8, RequestKeeps
  <1>5. QED
    BY <1>3, <1>4 DEF is_privileged_user

\* A report: the list of administrators is asked for, then the reply is read.
LEMMA ReportKeeps == ASSUME HandlerInv, exec_usr_cmd_report PROVE HandlerInv'
  <1>1. /\ pc = "report" /\ UNCHANGED <<input, mod, event, cmd, tgt>> /\ UNCHANGED <<evt, tgt, todo>>
        /\ pc' = IF tgt = Wild THEN "crashed" ELSE "send"
        /\ ret' = 0
    BY DEF exec_usr_cmd_report, event
  <1>2. /\ reqs = <<>> /\ todo = <<>> /\ todo \in Seq(Administrative)
        /\ tgt = Wild => /\ evt[1].type = "photo" /\ evt[1].entity_c = TRUE
                         /\ tge_get_text(evt[1]).word = "mention"
    BY <1>1 DEF HandlerInv, Course, Pointers, Typing, TypeOK
  <1>3. PICK answer \in Answers : \E listed \in parse_tga_admins(answer) :
          /\ reqs' = Append(reqs, Request(AdminList, tge_get_chat_id(evt[1]), TRUE, answer))
          /\ text' = IF listed = "error" THEN "error" ELSE "reported"
    BY DEF exec_usr_cmd_report
  <1> DEFINE x == Request(AdminList, tge_get_chat_id(evt[1]), TRUE, answer)
  <1>4. /\ x \in Req /\ x.method = AdminList /\ x.answer = answer /\ x.chat = TRUE /\ x.id = TRUE
        /\ x.method \notin Administrative /\ x.method # "sendMessage"
    BY <1>1, ListFacts
  <1>5. reqs' = Append(reqs, x) /\ text' \in Replies /\ text' # "unset"
    BY <1>3 DEF Replies
  <1> HIDE DEF x
  <1>6. DOMAIN reqs = {} /\ ~Failure(x) /\ ~Success(x)
    BY <1>2, <1>4 DEF Failure, Success
  <1>7. CrashOnlyWhere'
    BY Zenon, <1>1, <1>2 DEF CrashOnlyWhere, Addressed
  <1>8. /\ \A r \in Req : Failure(r) /\ (r = x \/ \E k \in DOMAIN reqs : r = reqs[k]) => FALSE
        /\ \A r \in Req : Success(r) /\ (r = x \/ \E k \in DOMAIN reqs : r = reqs[k]) => FALSE
        /\ \A i \in DOMAIN reqs : ~Failure(reqs[i])
    BY Zenon, <1>6
  <1>9. QED
    BY <1>1, <1>2, <1>4, <1>5, <1>7, <1>8, RequestKeeps

\* The requests left, taken one by one.
LEMMA TodoFacts ==
  ASSUME todo \in Seq(Administrative), todo # <<>>
  PROVE  /\ Head(todo) \in Administrative /\ Tail(todo) \in Seq(Administrative)
         /\ Len(todo) # 1 => Tail(todo) # <<>>
         /\ <<>> \in Seq(Administrative)
  <1>1. Head(todo) \in Administrative /\ Tail(todo) \in Seq(Administrative)
    OBVIOUS
  <1>2. Len(todo) \in Nat /\ Len(todo) # 0 /\ Len(Tail(todo)) = Len(todo) - 1
    OBVIOUS
  <1>3. ASSUME NEW s \in Seq(Administrative), s = <<>> PROVE Len(s) = 0
    BY <1>3
  <1>4. <<>> \in Seq(Administrative)
    OBVIOUS
  <1>5. QED
    BY <1>1, <1>2, <1>3, <1>4

\* What a command does after one of its requests.
LEMMA AfterFacts ==
  ASSUME HandlerInv, pc = "exec", NEW answer \in Answers, NEW ok \in process_json_msg(answer),
         IF ~ok THEN AfterFailure
         ELSE IF Len(todo) = 1 THEN Finish
         ELSE todo' = Tail(todo) /\ UNCHANGED <<pc, text, ret>>
  PROVE  /\ pc' \in {"exec", "send", "destroy", "crashed"} /\ todo' \in Seq(Administrative)
         /\ text' \in Replies /\ ret' \in {0, ret}
         /\ pc' = "exec" => todo' # <<>>
         /\ pc' = "send" => text' # "unset"
         /\ todo' # <<>> => text' \in {"unset", "error"}
         /\ pc' = "crashed" => tge_get_user_id(evt[tgt]) # TRUE /\ cmd \notin OnMessage \cup Silent
         /\ answer \in {"refused", "garbled"} =>
              text' = "error" /\ pc' = "send" /\ (cmd = "skick" \/ todo' = <<>>)
         /\ cmd = "skick" /\ text = "error" => text' = "error"
  <1>1. /\ todo \in Seq(Administrative) /\ todo # <<>> /\ text \in {"unset", "error"}
    BY DEF HandlerInv, Typing, TypeOK, Course
  <1>2. /\ Head(todo) \in Administrative /\ Tail(todo) \in Seq(Administrative)
        /\ Len(todo) # 1 => Tail(todo) # <<>>
        /\ <<>> \in Seq(Administrative)
    BY <1>1, TodoFacts
  <1>3. answer \in {"refused", "garbled"} => ok = FALSE
    BY DEF process_json_msg
  <1>4. CASE ~ok
    <2>1. /\ text' = "error" /\ pc' = "send" /\ ret' = 0
          /\ todo' = Tail(todo) \/ todo' = <<>>
          /\ cmd = "skick" \/ todo' = <<>>
      BY <1>4 DEF AfterFailure
    <2>2. QED
      BY <1>2, <2>1 DEF Replies
  <1>5. CASE ok /\ Len(todo) = 1
    <2>1. /\ todo' = <<>> /\ ret' = 0
          /\ \/ cmd \in Silent /\ pc' = "destroy" /\ UNCHANGED text
             \/ /\ cmd \notin Silent /\ cmd \notin OnMessage /\ pc' = "crashed"
                /\ ~tge_get_user_id(evt[tgt]) /\ UNCHANGED text
             \/ cmd \notin Silent /\ pc' = "send" /\ text' = "success"
      BY <1>5 DEF Finish
    <2>2. cmd \notin Silent => cmd # "skick"
      BY DEF Silent
    <2>3. answer \notin {"refused", "garbled"}
      BY <1>3, <1>5
    <2>4. QED
      BY <1>1, <1>2, <2>1, <2>2, <2>3 DEF Replies
  <1>6. CASE ok /\ Len(todo) # 1
    <2>1. todo' = Tail(todo) /\ UNCHANGED <<pc, text, ret>>
      BY <1>6
    <2>2. answer \notin {"refused", "garbled"}
      BY <1>3, <1>6
    <2>3. QED
      BY <1>1, <1>2, <1>6, <2>1, <2>2 DEF Replies
  <1>7. QED
    BY <1>4, <1>5, <1>6

\* A request of an administrative command.
LEMMA ExecKeeps == ASSUME HandlerInv, exec_adm_cmd PROVE HandlerInv'
  <1>1. /\ pc = "exec" /\ UNCHANGED <<input, mod, event, cmd, tgt>>
        /\ UNCHANGED <<role, evt, cmd>> /\ UNCHANGED <<tgt>>
    BY DEF exec_adm_cmd, input, event
  <1>2. /\ Typing /\ todo \in Seq(Administrative) /\ todo # <<>> /\ Allowed /\ text \in {"unset", "error"}
        /\ cmd \in AdminCommands /\ tgt = 2 /\ tgt # Wild /\ evt[1].type = "text" /\ 2 \in DOMAIN evt /\ Outcome
    <2>1. Typing /\ Course /\ Pointers /\ Outcome
      BY DEF HandlerInv, History
    <2>2. todo \in Seq(Administrative)
      BY <2>1 DEF Typing, TypeOK
    <2>3. todo # <<>> /\ Allowed /\ text \in {"unset", "error"} /\ cmd \in AdminCommands
      BY <1>1, <2>1 DEF Course
    <2>4. tgt = 2 /\ evt[1].type = "text" /\ 2 \in DOMAIN evt
      BY <1>1, <2>1 DEF Pointers
    <2>5. 2 # Wild
      BY DEF Wild
    <2>6. QED
      BY <2>1, <2>2, <2>3, <2>4, <2>5
  <1>3. /\ evt[1] \in Struct /\ evt[2] \in Struct /\ evt[1].chat = TRUE /\ evt[1].msg_id = TRUE
        /\ \/ evt[2].type = "unknown"
           \/ evt[2].msg_id = TRUE /\ evt[2].from = TRUE
    BY <1>1, <1>2, EventFacts DEF HandlerInv, event_mask
  <1>4. PICK answer \in Answers : \E ok \in process_json_msg(answer) :
          /\ reqs' = Append(reqs, Request(Head(todo), tge_get_chat_id(evt[1]),
                                          IdOf(Head(todo)), answer))
          /\ IF ~ok THEN AfterFailure
             ELSE IF Len(todo) = 1 THEN Finish
             ELSE todo' = Tail(todo) /\ UNCHANGED <<pc, text, ret>>
    BY DEF exec_adm_cmd
  <1> DEFINE m == Head(todo)
             ch == tge_get_chat_id(evt[1])
             id == IdOf(m)
             x == Request(m, ch, id, answer)
  <1>5. m \in Administrative /\ m # "sendMessage"
    BY <1>2, TodoFacts DEF Administrative
  <1>6. ch = TRUE /\ ch \in BOOLEAN
    BY <1>3 DEF tge_get_chat_id
  <1>7. id \in BOOLEAN /\ (id = TRUE \/ evt[2].type = "unknown")
    <2>1. id \in {evt[2].from, evt[2].msg_id, evt[1].msg_id}
      BY <1>2, <1>5 DEF IdOf, Administrative, tge_get_user_id, tge_get_msg_id
    <2>2. evt[2].from \in BOOLEAN /\ evt[2].msg_id \in BOOLEAN /\ evt[1].msg_id \in BOOLEAN
      BY <1>3 DEF Struct
    <2> HIDE DEF id
    <2>3. QED
      BY <1>3, <2>1, <2>2
  <1> HIDE DEF m, ch, id
  <1>8. x \in Req /\ x.method = m /\ x.chat = ch /\ x.id = id /\ x.answer = answer
    <2>1. m \in Administrative \cup {AdminList, "sendMessage"} /\ answer \in Answers \cup {"unused"}
      BY <1>5
    <2>2. ch \in BOOLEAN /\ id \in BOOLEAN
      BY <1>6, <1>7
    <2>3. QED
      BY <2>1, <2>2, RequestFacts
  <1>9. reqs' = Append(reqs, x)
    BY <1>4 DEF m, ch, id
  <1> HIDE DEF x
  <1>10. /\ pc' \in {"exec", "send", "destroy", "crashed"} /\ todo' \in Seq(Administrative)
         /\ text' \in Replies /\ ret' \in {0, ret}
         /\ pc' = "exec" => todo' # <<>>
         /\ pc' = "send" => text' # "unset"
         /\ todo' # <<>> => text' \in {"unset", "error"}
         /\ pc' = "crashed" => tge_get_user_id(evt[tgt]) # TRUE /\ cmd \notin OnMessage \cup Silent
         /\ answer \in {"refused", "garbled"} =>
              text' = "error" /\ pc' = "send" /\ (cmd = "skick" \/ todo' = <<>>)
         /\ cmd = "skick" /\ text = "error" => text' = "error"
    BY <1>1, <1>4, AfterFacts
  <1>11. Allowed'
    BY <1>1, <1>2, <1>8, <1>9, LogGrows
  <1>12. CrashOnlyWhere'
    <2>1. pc' = "crashed" => evt[2].type = "unknown" /\ evt[2].from # TRUE
      BY <1>2, <1>3, <1>10 DEF tge_get_user_id
    <2>2. evt[2].from \in BOOLEAN
      BY <1>3 DEF Struct
    <2>3. reqs' # <<>>
      <3>1. \E i \in DOMAIN reqs' : reqs'[i] = x
        BY <1>1, <1>2, <1>8, <1>9, LogGrows
      <3>2. QED
        BY <3>1
    <2>4. QED
      BY <1>1, <1>2, <1>10, <2>1, <2>2, <2>3 DEF CrashOnlyWhere
  <1>13. ASSUME NEW k \in DOMAIN reqs
         PROVE  /\ Failure(reqs[k]) => cmd = "skick" /\ text = "error"
                /\ ~Success(reqs[k])
    BY <1>1, <1>2 DEF Outcome
  <1>14. ~Success(x) /\ (Failure(x) => answer \in {"refused", "garbled"})
    BY <1>5, <1>8 DEF Success, Failure
  <1>15. /\ \A r \in Req : Failure(r) /\ (r = x \/ \E k \in DOMAIN reqs : r = reqs[k]) =>
              text' = "error" /\ (cmd = "skick" \/ (todo' = <<>> /\ pc' \in {"send", "destroy"}))
         /\ \A r \in Req : Success(r) /\ (r = x \/ \E k \in DOMAIN reqs : r = reqs[k]) =>
              text' = "success"
         /\ cmd = "skick" \/ \A i \in DOMAIN reqs : ~Failure(reqs[i])
    BY Zenon, <1>10, <1>13, <1>14
  <1>16. \/ x.chat = TRUE /\ x.id = TRUE
         \/ evt[1].type = "text" /\ 2 \in DOMAIN evt /\ evt[2].type = "unknown"
    BY <1>2, <1>6, <1>7, <1>8
  <1>17. x.method # "sendMessage"
    BY <1>5, <1>8
  <1>18. Failure(x) => pc' = "send"
    BY <1>10, <1>14
  <1>19. QED
    BY <1>1, <1>2, <1>8, <1>9, <1>10, <1>11, <1>12, <1>15, <1>16, <1>17, <1>18, RequestKeeps

\* A reply is sent, to the event or to the message it replies to.
LEMMA SendKeeps == ASSUME HandlerInv, send_reply PROVE HandlerInv'
  <1>1. /\ pc = "send" /\ UNCHANGED <<input, mod, event, cmd, tgt>>
        /\ UNCHANGED <<role, evt, cmd>> /\ UNCHANGED <<todo, text, ret, tgt>>
        /\ pc' = IF todo = <<>> THEN "destroy" ELSE "exec"
    BY DEF send_reply, input, event
  <1>2. Typing /\ Memory /\ Course /\ Pointers /\ Outcome
    BY DEF HandlerInv, History
  <1>3. todo \in Seq(Administrative) /\ text \in Replies /\ text # "unset"
    BY <1>1, <1>2 DEF Typing, TypeOK, Course, Replies
  <1>4. todo # <<>> => /\ Allowed /\ text \in {"unset", "error"} /\ cmd \in AdminCommands
                       /\ tgt = 2 /\ evt[1].type = "text"
    BY <1>2 DEF Course, Pointers
  <1>5. /\ tgt \in {Null, 1, 2} /\ tgt # Wild /\ evt[1].type \in event_mask
        /\ tgt = 2 => 2 \in DOMAIN evt
    BY <1>1, <1>2 DEF Typing, Pointers
  <1>6. /\ evt[1] \in Struct /\ evt[1].msg_id = TRUE /\ evt[1].chat = TRUE
        /\ 2 \in DOMAIN evt =>
             /\ evt[1].type \in {"text", "sticker", "unknown"} /\ evt[2] \in Struct
             /\ \/ evt[2].type = "unknown"
                \/ evt[2].msg_id = TRUE /\ evt[2].chat = TRUE
    BY <1>1, <1>2, <1>5, EventFacts
  <1>7. /\ Answered \in Struct
        /\ \/ Answered.msg_id = TRUE /\ Answered.chat = TRUE
           \/ evt[1].type = "text" /\ 2 \in DOMAIN evt /\ evt[2].type = "unknown"
    <2>1. Answered = evt[1] \/ (2 \in DOMAIN evt /\ Answered = evt[2])
      BY <1>5 DEF Answered
    <2>2. 2 \in DOMAIN evt => evt[1].type = "text"
      BY <1>5, <1>6 DEF event_mask
    <2>3. QED
      BY <1>6, <2>1, <2>2
  <1> DEFINE ch == tge_get_chat_id(Answered)
             id == tge_get_msg_id(Answered)
             x == Request("sendMessage", ch, id, "unused")
  <1>8. /\ ch \in BOOLEAN /\ id \in BOOLEAN
        /\ \/ id = TRUE /\ ch = TRUE
           \/ evt[1].type = "text" /\ 2 \in DOMAIN evt /\ evt[2].type = "unknown"
    BY <1>7 DEF tge_get_chat_id, tge_get_msg_id, Struct
  <1>9. reqs' = Append(reqs, x)
    BY DEF send_reply
  <1> HIDE DEF ch, id
  <1>10. x \in Req /\ x.method = "sendMessage" /\ x.chat = ch /\ x.id = id /\ x.text = text
    <2>1. /\ ch \in BOOLEAN /\ id \in BOOLEAN /\ "unused" \in Answers \cup {"unused"}
          /\ "sendMessage" \in Administrative \cup {AdminList, "sendMessage"}
      BY <1>8
    <2>2. QED
      BY <2>1, RequestFacts
  <1> HIDE DEF x
  <1>11. x.method \notin Administrative
    BY <1>10 DEF Administrative
  <1>12. ~Failure(x) /\ (Success(x) => text = "success")
    BY <1>10, <1>11 DEF Failure, Success
  <1>13. /\ \A r \in Req : Failure(r) /\ (r = x \/ \E k \in DOMAIN reqs : r = reqs[k]) =>
              text' = "error" /\ (cmd = "skick" \/ (todo' = <<>> /\ pc' \in {"send", "destroy"}))
         /\ \A r \in Req : Success(r) /\ (r = x \/ \E k \in DOMAIN reqs : r = reqs[k]) =>
              text' = "success"
    <2>1. ASSUME NEW k \in DOMAIN reqs
          PROVE  /\ Failure(reqs[k]) => text = "error" /\ (cmd = "skick" \/ todo = <<>>)
                 /\ Success(reqs[k]) => text = "success"
      BY <1>2 DEF Outcome
    <2>2. text' = text /\ todo' = todo /\ (todo = <<>> => pc' \in {"send", "destroy"})
      BY <1>1
    <2>3. QED
      BY Zenon, <1>12, <2>1, <2>2
  <1>14. Allowed => Allowed'
    BY <1>1, <1>2, <1>9, <1>10, LogGrows
  <1>15. CrashOnlyWhere'
    BY <1>1 DEF CrashOnlyWhere
  <1>16. \/ x.chat = TRUE /\ x.id = TRUE
         \/ evt[1].type = "text" /\ 2 \in DOMAIN evt /\ evt[2].type = "unknown"
    BY <1>8, <1>10
  <1>17. x.text # "unset"
    BY <1>3, <1>10
  <1>18. pc' \in {"exec", "destroy"} /\ (pc' = "exec" => todo' # <<>>)
    BY <1>1
  <1>19. QED
    BY <1>1, <1>3, <1>4, <1>9, <1>10, <1>11, <1>12, <1>13, <1>14, <1>15, <1>16, <1>17, <1>18,
       RequestKeeps
-------------------------------------------------------------------------------
(* The end of the call.                                                    *)

\* A step that touches neither the requests nor what is said about them.
LEMMA HistoryStays ==
  ASSUME History, UNCHANGED <<role, evt, cmd, reqs, text, todo>>,
         pc' = pc \/ (pc # "send" /\ pc' = "done")
  PROVE  History'
  <1>1. PrivilegeFirst' /\ TextIsWritten' /\ IdsAreParsed' /\ StopsAtRefusal'
    BY DEF History, PrivilegeFirst, TextIsWritten, IdsAreParsed, StopsAtRefusal, Requests
  <1>2. Outcome'
    BY DEF History, Outcome
  <1>3. Reports'
    BY Zenon DEF History, Reports
  <1>4. QED
    BY <1>1, <1>2, <1>3 DEF History

\* tg_event_destroy frees every cell of the event once, but for the known losses.
LEMMA DestroyKeeps == ASSUME HandlerInv, Destroy PROVE HandlerInv'
  <1>1. /\ pc = "destroy" /\ pc' = "done" /\ FreeAll(heap, tg_event_destroy(evt))
        /\ UNCHANGED <<msg, role, mod, evt, cmd, tgt, todo, text, reqs, ret>>
    BY DEF Destroy, input
  <1>2. Typing /\ Memory /\ Pointers /\ Course /\ History
    BY DEF HandlerInv
  <1>3. msg \in Seq(Message) /\ msg # <<>> /\ evt = Events(msg) /\ heap = Cells(msg)
    BY <1>1, <1>2, HandlerAssumption DEF Typing, Memory
  <1> DEFINE calls == tg_event_destroy(evt)
  <1>4. /\ \A x \in calls : Freed(x) \in heap
        /\ \A x, y \in calls : Freed(x) = Freed(y) => x = y
        /\ heap \ {Freed(x) : x \in calls} = Lost(msg)
    BY Zenon, <1>3, DestroyBalances
  <1> HIDE DEF calls
  <1>5. /\ heap' = heap \ {Freed(c) : c \in calls}
        /\ bad_free' = \/ \E c \in calls : Freed(c) \notin heap
                       \/ \E c, d \in calls : c # d /\ Freed(c) = Freed(d)
    BY Zenon, <1>1 DEF FreeAll, calls
  <1>6. heap' = Lost(msg) /\ bad_free' = FALSE
    BY Zenon, <1>4, <1>5
  <1>7. Memory'
    BY Zenon, <1>1, <1>2, <1>3, <1>6 DEF Memory
  <1>8. Typing'
    BY <1>1, <1>2 DEF Typing, TypeOK
  <1>9. Pointers' /\ Course'
    BY <1>1, <1>2 DEF Pointers, Course, Allowed
  <1>10. History'
    BY <1>1, <1>2, HistoryStays
  <1>11. CrashOnlyWhere'
    BY <1>1 DEF CrashOnlyWhere
  <1>12. QED
    BY <1>7, <1>8, <1>9, <1>10, <1>11 DEF HandlerInv
-------------------------------------------------------------------------------
(* The theorems.                                                           *)

\* Every step of the handler keeps the invariant.
LEMMA HandlerStep == ASSUME HandlerInv, [Next]_vars PROVE HandlerInv'
  <1>1. CASE UNCHANGED vars
    <2>1. UNCHANGED <<msg, role, pc, mod, evt, heap, bad_free, cmd, tgt, todo, text, reqs, ret>>
      BY <1>1 DEF vars, input, event
    <2>2. Typing /\ Memory /\ Pointers /\ Course /\ History /\ CrashOnlyWhere
      BY DEF HandlerInv
    <2>3. Typing'
      <3>1. TypeOK'
        BY <2>1, <2>2 DEF Typing, TypeOK
      <3>2. QED
        BY Zenon, <2>1, <2>2, <3>1 DEF Typing
    <2>4. Memory'
      BY Zenon, <2>1, <2>2 DEF Memory
    <2>5. Pointers' /\ Course' /\ CrashOnlyWhere'
      BY <2>1, <2>2 DEF Pointers, Course, Allowed, CrashOnlyWhere
    <2>6. History'
      BY <2>1, <2>2, HistoryStays
    <2>7. QED
      BY <2>3, <2>4, <2>5, <2>6 DEF HandlerInv
  <1>2. CASE Next
    BY <1>2, LoadKeeps, NoModuleKeeps, DebugKeeps, TranslateKeeps, FetchKeeps, AdminKeeps,
       PrivilegeKeeps, ReportKeeps, ExecKeeps, SendKeeps, DestroyKeeps DEF Next
  <1>3. QED
    BY <1>1, <1>2

\* The inductive invariant of gwbot_event_handler holds for every message, with
\* replies of any depth, every sender and every answer of Telegram.
THEOREM HandlerSafety == Spec => []HandlerInv
  <1>1. Init => HandlerInv
    BY InitHandler
  <1>2. HandlerInv /\ [Next]_vars => HandlerInv'
    BY HandlerStep
  <1>3. QED
    BY <1>1, <1>2, PTL DEF Spec

\* The handler's variables always have their types.
THEOREM HandlerTypes == Spec => []TypeOK
  <1>1. HandlerInv => TypeOK
    BY DEF HandlerInv, Typing
  <1>2. QED
    BY <1>1, HandlerSafety, PTL

\* is_privileged_user guards every administrative request: none is made for an
\* ordinary member, unless the list of administrators had no body.
THEOREM OnlyThePrivileged == Spec => []PrivilegeFirst
  <1>1. HandlerInv => PrivilegeFirst
    BY DEF HandlerInv, History
  <1>2. QED
    BY <1>1, HandlerSafety, PTL

\* exec_adm_cmd_* never report a success after a request that failed.
THEOREM SuccessIsTrue == Spec => []NoFalseSuccess
  <1>1. HandlerInv => NoFalseSuccess
    <2> SUFFICES ASSUME HandlerInv, NEW i \in DOMAIN reqs, NEW j \in DOMAIN reqs,
                        Success(reqs[i]), Failure(reqs[j])
                 PROVE  FALSE
      BY DEF NoFalseSuccess, Success, Failure
    <2>1. text = "success" /\ text = "error"
      BY DEF HandlerInv, History, Outcome
    <2>2. QED
      BY <2>1
  <1>2. QED
    BY <1>1, HandlerSafety, PTL

\* send_reply never sends a buffer that nothing was written to.
THEOREM RepliesAreWritten == Spec => []TextIsWritten
  <1>1. HandlerInv => TextIsWritten
    BY DEF HandlerInv, History
  <1>2. QED
    BY <1>1, HandlerSafety, PTL

\* The ids in requests were parsed from a message, unless the message replied to
\* is of an unknown kind.
THEOREM RequestsNameParsedIds == Spec => []IdsAreParsed
  <1>1. HandlerInv => IdsAreParsed
    BY DEF HandlerInv, History
  <1>2. QED
    BY <1>1, HandlerSafety, PTL

\* The handler crashes only on a photo whose caption has entities and is addressed
\* to a module, or in a command about a member without a name, whose request was
\* made.
THEOREM CrashesAreKnown == Spec => []CrashOnlyWhere
  <1>1. HandlerInv => CrashOnlyWhere
    BY DEF HandlerInv
  <1>2. QED
    BY <1>1, HandlerSafety, PTL

\* tg_event_destroy frees each cell of an event, and of the replies behind it,
\* once; at the return only the known losses are left.
THEOREM MemoryIsBalanced == Spec => []HeapBalanced
  <1>1. HandlerInv => HeapBalanced
    BY DEF HandlerInv, Memory, HeapBalanced
  <1>2. QED
    BY <1>1, HandlerSafety, PTL

\* A command other than a silent kick makes no request after one that Telegram
\* refused.
THEOREM RefusalEndsCommand == Spec => []StopsAtRefusal
  <1>1. HandlerInv => StopsAtRefusal
    BY DEF HandlerInv, History
  <1>2. QED
    BY <1>1, HandlerSafety, PTL

\* A reply with the error follows every administrative request that was refused or
\* whose answer could not be read, before gwbot_event_handler returns.
THEOREM FailuresAreReported == Spec => []RefusalIsReported
  <1>1. HandlerInv => RefusalIsReported
    <2> SUFFICES ASSUME HandlerInv, pc = "done" PROVE RefusalIsReported
      BY Zenon DEF RefusalIsReported
    <2>1. pc # "send" /\ Reports
      BY DEF HandlerInv, History
    <2>2. QED
      BY Zenon, <2>1 DEF Reports, RefusalIsReported
  <1>2. QED
    BY <1>1, HandlerSafety, PTL

===============================================================================
