---------------------------- MODULE MCEventHandler ----------------------------
(***************************************************************************)
(* A small set of messages for EventHandler: every command with and        *)
(* without arguments, every kind of content, every step at which a parser  *)
(* can fail, and replies to replies.                                       *)
(***************************************************************************)
EXTENDS EventHandler

Steps(kind) ==
  {"message_id", "from", "chat", "date", "none"}
  \cup (IF kind \in {"photo", "sticker", "gif"} THEN {"media"} ELSE {})
  \cup (IF kind = "sticker" THEN {} ELSE {"entities"})

Kinds == {"text", "photo", "sticker", "gif", "unknown"}
Word(w) == [word |-> w, args |-> 0]

\* A sticker and an unknown message have no text, a text message has one.
TextsFor(kind, texts) ==
  CASE kind = "text" -> texts
    [] kind \in {"photo", "gif"} -> texts \cup {NoText}
    [] OTHER -> {NoText}

\* Messages of a kind; one that fails at its entities has some.
Of(kind, texts) ==
  {m \in [kind : {kind}, bad : Steps(kind), ents : BOOLEAN, text : TextsFor(kind, texts)] :
     m.bad = "entities" => m.ents /\ (kind \in {"photo", "gif"} => HasCaption(m))}

Plain == UNION {Of(k, {Word("other")}) : k \in Kinds}
Inner == {m \in Plain : m.bad \in {"none", "from"} /\ m.kind \in {"text", "photo", "unknown"}}

Commands == {Word(cmd_tbl[i]) : i \in DOMAIN cmd_tbl}
Texts == Commands \cup {[word |-> w, args |-> 1] : w \in {"ban", "report"}}
         \cup {Word("other"), Word("mention"), Word("debug"), Word("tl"), Word("tr..")}
         \cup {[word |-> "tr", args |-> n] : n \in 0..3}

Good(k, texts) == {m \in Of(k, texts) : m.bad = "none"}
Repliers == UNION {Good(k, {Word("other")}) : k \in {"text", "sticker", "unknown"}}

\* Chains of one, two and three messages.
MCMessages ==
  {<<>>}
  \cup {<<m>> : m \in Plain \cup Good("text", Texts) \cup Good("photo", Texts)}
  \cup (Plain \X Inner) \cup ((Repliers \cup Good("text", Texts)) \X Plain)
  \cup (Good("text", {Word("tr"), Word("tr..")}) \X Good("text", {Word("long")}))
  \cup {<<m, n, i>> : m \in Repliers, n \in {p \in Plain : p.bad = "none"}, i \in Inner}
===============================================================================
