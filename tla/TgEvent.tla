------------------------------- MODULE TgEvent --------------------------------
(***************************************************************************)
(* Telegram events (lib/tg_event.c, tg_event.h, tg_event/): a message in   *)
(* JSON becomes a struct tgev, which owns an array of photos, an array of  *)
(* entities and the event it replies to, and is destroyed again.           *)
(*                                                                         *)
(* A message is abstracted to the kind of its content, the first step of   *)
(* the parser that fails, whether it has entities, and its text.  The      *)
(* values of the keys have the types the Bot API gives them.               *)
(*                                                                         *)
(* A message replies to at most one other, so a message with the message   *)
(* it replies to, and so on, is a sequence, the outermost first.  Parsing  *)
(* and destroying recurse along that sequence; here the calls they make    *)
(* are sets of positions.  A parsed event is a sequence of structs, and a  *)
(* pointer to an event is a position in it, Null or Wild.                  *)
(*                                                                         *)
(* A heap cell is named by the position of its event and by what it is:    *)
(* "node" (the struct, if it is a reply), "photo", "entities", and "json"  *)
(* for the tree of JSON objects, which belongs to the outermost event.     *)
(***************************************************************************)
EXTENDS Integers, Sequences

Null == 0
Wild == -1              \* a pointer that points to no event

EINVAL == -22

\* The steps of the parsers, in order: the content (photos, sticker, animation),
\* message_id, from, chat, what follows up to date, the entities.
Rank == [media |-> 1, message_id |-> 2, from |-> 3, chat |-> 4, date |-> 5,
         entities |-> 6, none |-> 7]

NoText == [word |-> "none", args |-> 0]
Text == [word : STRING, args : 0..3] \cup {NoText}
Message == [kind : {"text", "photo", "sticker", "gif", "unknown"}, bad : DOMAIN Rank,
            ents : BOOLEAN, text : Text]

\* The parser of m gets past the step.
Passed(m, step) == Rank[m.bad] > Rank[step]

HasCaption(m) == m.text # NoText

\* The caption is read after date.
Caption(m) == IF Passed(m, "date") THEN m.text ELSE NoText

\* Slip: the parser's result is ignored for every kind.
ParseResult_lax(m) == 0

\* An unknown event is accepted whatever its parser says.
ParseResult(m) == IF m.bad = "none" \/ m.kind = "unknown" THEN 0 ELSE EINVAL

\* Whether the sender, the chat, the photos and the entities have been parsed.
parse_tgevi_from(m) == Passed(m, "from")
parse_tgevi_chat(m) == Passed(m, "chat")
parse_tgevi_photos(m) == Passed(m, "media")
parse_tgevi_entities(m) == Passed(m, "entities")

\* What the parsers have in common: the struct with these contents, filled up to
\* the step that fails.
Parsed(m, text, photo, ents) ==
  [type |-> m.kind, msg_id |-> Passed(m, "message_id"), from |-> parse_tgevi_from(m),
   chat |-> parse_tgevi_chat(m), text |-> text, photo |-> photo,
   entity_c |-> ents /\ Passed(m, "date"), entities |-> ents /\ parse_tgevi_entities(m)]

parse_event_text(m) == Parsed(m, m.text, FALSE, m.ents)

\* The photos come first; the entities are those of the caption.
parse_event_photo(m) ==
  Parsed(m, Caption(m), parse_tgevi_photos(m), m.ents /\ HasCaption(m))

parse_event_sticker(m) == Parsed(m, NoText, FALSE, FALSE)

parse_event_gif(m) == Parsed(m, Caption(m), FALSE, m.ents /\ HasCaption(m))

parse_event_unknown(m) == Parsed(m, NoText, FALSE, m.ents)

\* The parsers are tried in this order until one knows the content.
parse_message_json_obj(m) ==
  CASE m.kind = "text" -> parse_event_text(m)
    [] m.kind = "photo" -> parse_event_photo(m)
    [] m.kind = "sticker" -> parse_event_sticker(m)
    [] m.kind = "gif" -> parse_event_gif(m)
    [] m.kind = "unknown" -> parse_event_unknown(m)

\* Parsers that end with parse_replied_msg; those of photos and animations only
\* look whether there is a reply.
ReadsReply(m) == m.bad = "none" /\ m.kind \in {"text", "sticker", "unknown"}

\* The messages of the chain c that are parsed.
Reached(c) == {k \in DOMAIN c : \A j \in 1..k-1 : ReadsReply(c[j])}

\* parse_replied_msg: those that become events.  If a replied message cannot be
\* parsed its node is freed, and none of its arrays.
Linked(c) == {k \in Reached(c) : k = 1 \/ ParseResult(c[k]) = 0}

\* The event, and the heap, that parsing the chain leaves.
Events(c) == [k \in Linked(c) |-> parse_message_json_obj(c[k])]
Arrays(k, e) == {<<k, w>> : w \in {a \in {"photo", "entities"} : e[a]}}
Cells(c) == {<<1, "json">>} \cup {<<k, "node">> : k \in Linked(c) \ {1}}
            \cup UNION {Arrays(k, parse_message_json_obj(c[k])) : k \in Reached(c)}

\* Slip: is_replied_node is not set.
PutsJson_always(k) == TRUE

\* Only the outermost event puts the JSON object.
PutsJson(k) == k = 1

\* The events tg_event_destroy is called for: an unknown event does not destroy
\* its reply.
Destroyed(e) == {k \in DOMAIN e : \A j \in 1..k-1 : e[j].type # "unknown"}

\* What it frees of the event at k: its arrays, its reply (destroy_reply_to_msg)
\* and the JSON object; of an unknown event only the last.
Frees(e, k) ==
  {a \in {"photo", "entities"} : e[k][a] /\ e[k].type # "unknown"}
  \cup (IF k + 1 \in DOMAIN e /\ e[k].type # "unknown" THEN {"reply"} ELSE {})
  \cup (IF PutsJson(k) THEN {"json"} ELSE {})

\* The calls of free in tg_event_destroy, and the cell a call frees.
tg_event_destroy(e) == UNION {{<<k, w>> : w \in Frees(e, k)} : k \in Destroyed(e)}
Freed(call) == IF call[2] = "reply" THEN <<call[1] + 1, "node">> ELSE call

-------------------------------------------------------------------------------
(* Getters.                                                                *)

tge_get_text(s) == IF s.type \in {"text", "photo", "gif"} THEN s.text ELSE NoText

\* Slip: the caption is where a text event has its reply.
tge_get_reply_to_caption(e) ==
  CASE e[1].type = "text" -> IF 2 \in DOMAIN e THEN 2 ELSE Null
    [] e[1].type = "photo" -> IF e[1].text # NoText THEN Wild ELSE Null
    [] OTHER -> Null

\* tge_get_reply_to reads msg_text.reply_to for every type.  In a text event
\* that is the reply; the word of a photo at the same place is caption_entity_c,
\* in a sticker or an animation it is the file_unique_id of a file.
tge_get_reply_to(e) ==
  CASE e[1].type = "text" -> IF 2 \in DOMAIN e THEN 2 ELSE Null
    [] e[1].type = "photo" -> IF e[1].entity_c THEN Wild ELSE Null
    [] e[1].type \in {"sticker", "gif"} -> Wild
    [] OTHER -> Null

\* Whether message_id, chat id and user id of the event come from the message;
\* they are zero otherwise.
tge_get_msg_id(s) == s.msg_id
tge_get_chat_id(s) == s.chat
tge_get_user_id(s) == s.from
===============================================================================
