----------------------------- MODULE EventHandler -----------------------------
(***************************************************************************)
(* One call of gwbot_event_handler (core/event_handler.c) by a worker: the *)
(* event is loaded, offered to the modules 000_debug, 001_standard,        *)
(* 002_translate and 003_admin until one takes it, and destroyed.  Modules *)
(* talk to Telegram through lib/tg_api; every answer may be a refusal,     *)
(* garbage or a transport error, or have no body at all.                   *)
(*                                                                         *)
(* A text is what it starts with and the number of arguments: a command    *)
(* word, "debug" for whatever begins with /debug, "tr.." for whatever      *)
(* begins with tr or tl and is no translate command (a longer word, a      *)
(* language code that is too long), "long" for a text that is too long to  *)
(* translate, "other" for the rest.                                        *)
(*                                                                         *)
(* An id in a request is TRUE if it came from a message, FALSE if it is    *)
(* the zero the event was cleared with.                                    *)
(***************************************************************************)
EXTENDS TgEvent

CONSTANTS Messages,     \* the messages the handler may be given, with their replies
          Roles         \* of the sender: "sudoer", "admin" or "member"

\* A string that is no JSON, or has no update_id or message, is <<>>.
ASSUME HandlerAssumption ==
  /\ Messages \subseteq Seq(Message)
  /\ Roles \subseteq {"sudoer", "admin", "member"}

VARIABLES msg, role,    \* the input
          pc, mod,      \* where the handler is, and the module asked
          evt, heap, bad_free,
          cmd, tgt,     \* the command, and a pointer to the event replied to or answered
          todo,         \* requests the command still has to make
          text,         \* the reply_text buffer
          reqs,         \* requests made so far
          ret

input == <<msg, role>>
event == <<evt, heap, bad_free>>
vars == <<input, pc, mod, event, cmd, tgt, todo, text, reqs, ret>>

ECANCELED == -125
EBADMSG == -74
ENOMEM == -12
AdminList == "getChatAdministrators"

\* mod_tbl; every entry has the mask TGEV_TEXT | TGEV_PHOTO.
mod_tbl == <<"debug", "standard", "translate", "admin">>
event_mask == {"text", "photo"}

\* The command table of the admin module, in the order it is tried.
cmd_tbl == <<"ban", "sban", "unban", "kick", "skick", "warn", "mute", "tmute",
             "unmute", "pin", "unpin", "delete", "del", "report", "admin", "delvote">>

\* strncmp compares as many characters as the entry has.
IsPrefix(name, word) == name = word \/ (name = "del" /\ word \in {"delete", "delvote"})

\* The entry at i is the first that matches the word.
Matches(i, word) ==
  IsPrefix(cmd_tbl[i], word) /\ \A j \in 1..i-1 : ~IsPrefix(cmd_tbl[j], word)

CommandOf(name) ==
  CASE name = "del" -> "delete" [] name = "admin" -> "report" [] OTHER -> name

\* ADMIN_CMD_BITS
AdminCommands == {"ban", "sban", "unban", "kick", "skick", "warn", "mute", "tmute",
                  "unmute", "pin", "unpin", "delete"}
OnMessage == {"pin", "unpin", "delete"}
Silent == {"sban", "skick"}

\* The requests the exec_adm_cmd_* function of a command makes.
Plan(c) ==
  CASE c = "ban" -> <<"kick">>
    [] c = "sban" -> <<"kick", "del_cmd", "del_reply">>
    [] c \in {"unban", "kick"} -> <<"unban">>
    [] c = "skick" -> <<"unban", "del_cmd", "del_reply">>
    [] c \in {"mute", "unmute"} -> <<"restrict">>
    [] c = "pin" -> <<"pin">>
    [] c = "unpin" -> <<"unpin">>
    [] c = "delete" -> <<"del_reply", "del_cmd">>

Answers == {"ok", "refused", "garbled", "down", "empty"}

\* Slip: a refusal is not noticed.
process_json_msg_lax(answer) == IF answer = "garbled" THEN {FALSE} ELSE {TRUE}

\* What do_kick, do_unban, ... make of an answer.  A transport error ("down")
\* leaves ok TRUE; an answer without a body is read from uninitialised memory.
process_json_msg(answer) ==
  CASE answer \in {"ok", "down"} -> {TRUE}
    [] answer \in {"refused", "garbled"} -> {FALSE}
    [] answer = "empty" -> BOOLEAN

\* The list of administrators: the sender is in it ("yes"), is not ("no"), or
\* there is no list.
parse_tga_admins(answer) ==
  CASE answer = "ok" -> {IF role = "admin" THEN "yes" ELSE "no"}
    [] answer = "empty" -> {"yes", "no", "error"}
    [] OTHER -> {"error"}

Request(method, chat, id, answer) ==
  [method |-> method, chat |-> chat, id |-> id, answer |-> answer, text |-> text]

-------------------------------------------------------------------------------
Init ==
  /\ msg \in Messages
  /\ role \in Roles
  /\ pc = "load" /\ mod = 1
  /\ evt = <<>> /\ heap = {} /\ bad_free = FALSE
  /\ cmd = "nop" /\ tgt = Null /\ todo = <<>>
  /\ text = "unset" /\ reqs = <<>> /\ ret = 0

\* These calls of free, on the heap h.
FreeAll(h, calls) ==
  /\ heap' = h \ {Freed(c) : c \in calls}
  /\ bad_free' = \/ \E c \in calls : Freed(c) \notin h
                 \/ \E c, d \in calls : c # d /\ Freed(c) = Freed(d)

\* tg_event_load_str.  A failed load destroys what it has built.
tg_event_load_str ==
  /\ pc = "load"
  /\ IF msg = <<>>
     THEN /\ ret' = EINVAL /\ pc' = "done"
          /\ UNCHANGED event
     ELSE /\ evt' = Events(msg) /\ ret' = ParseResult(msg[1])
          /\ IF ParseResult(msg[1]) = 0
             THEN heap' = Cells(msg) /\ pc' = "module" /\ UNCHANGED bad_free
             ELSE FreeAll(Cells(msg), tg_event_destroy(Events(msg))) /\ pc' = "done"
  /\ UNCHANGED <<input, mod, cmd, tgt, todo, text, reqs>>

Asked(name) ==
  /\ pc = "module" /\ mod <= Len(mod_tbl) /\ mod_tbl[mod] = name
  /\ evt[1].type \in event_mask

\* The module returns -ECANCELED: the next one is asked.
Cancel == mod' = mod + 1 /\ ret' = ECANCELED /\ UNCHANGED <<pc, cmd, tgt, text>>

Crash == pc' = "crashed" /\ UNCHANGED <<mod, cmd, tgt, text, ret>>

\* No module is left that would take the event.
LoopEnds == mod > Len(mod_tbl) \/ evt[1].type \notin event_mask

NoModule ==
  /\ pc = "module"
  /\ LoopEnds
  /\ pc' = "destroy"
  /\ UNCHANGED <<input, mod, event, cmd, tgt, todo, text, reqs, ret>>

\* A text that begins with /debug.
debug ==
  /\ Asked("debug")
  /\ IF tge_get_text(evt[1]).word = "debug"
     THEN pc' = "send" /\ tgt' = 1 /\ text' = "debug" /\ ret' = 0 /\ UNCHANGED <<mod, cmd>>
     ELSE Cancel
  /\ UNCHANGED <<input, event, todo, reqs>>

standard ==
  /\ Asked("standard")
  /\ Cancel
  /\ UNCHANGED <<input, event, todo, reqs>>

\* parse_command of the translate module.  A text that begins with tr or tl, after
\* an optional prefix, has the text of its reply read at once; only then is it
\* looked at whether the command ends there.
Translations == {"tr", "tl"}
BeginsTranslation(word) == word \in Translations \cup {"tr.."}

\* With three arguments the text is in the command, with fewer it is the text of
\* the message replied to, if it has one that is not too long.
translate ==
  /\ Asked("translate")
  /\ LET t == tge_get_text(evt[1])
         reply == tge_get_reply_to(evt)
         To(p) == pc' = "fetch" /\ tgt' = p /\ UNCHANGED <<mod, cmd, text, ret>> IN
     IF ~BeginsTranslation(t.word) THEN Cancel
     ELSE IF reply = Wild THEN Crash
     ELSE IF t.word \notin Translations THEN Cancel
     ELSE IF t.args = 3 THEN To(1)
     ELSE IF reply = Null THEN Cancel
     ELSE IF tge_get_text(evt[reply]) = NoText THEN Cancel
     ELSE IF tge_get_text(evt[reply]).word = "long" THEN Cancel
     ELSE To(reply)
  /\ UNCHANGED <<input, event, todo, reqs>>

\* handle_translate_module: no answer, no reply.
fetch_api ==
  /\ pc = "fetch"
  /\ \/ pc' = "destroy" /\ ret' \in {EBADMSG, ENOMEM} /\ UNCHANGED text
     \/ \E s \in {"translation", "error"} : text' = s /\ pc' = "send" /\ ret' = 0
  /\ UNCHANGED <<input, mod, event, cmd, tgt, todo, reqs>>

\* Slip: the privilege check covers only the commands on members.
NeedsPrivilege_partly(c) == c \in AdminCommands \ OnMessage

NeedsPrivilege(c) == c \in AdminCommands

\* The entry of the admin module up to the privilege check.  A command other
\* than a report needs a message replied to; so does a report with arguments.
\* The sender of that message is read at once, unless the text is a mention.
admin ==
  /\ Asked("admin")
  /\ LET t == tge_get_text(evt[1])
         reply == tge_get_reply_to(evt)
         Run(k) == /\ cmd' = k /\ tgt' = reply /\ UNCHANGED <<mod, text, ret>>
                   /\ pc' = IF k = "report" THEN "report" ELSE "privilege" IN
     IF t.word = "mention" THEN Run("report")
     ELSE \/ ~(\E i \in DOMAIN cmd_tbl : Matches(i, t.word)) /\ Cancel
          \/ \E i \in DOMAIN cmd_tbl :
               /\ Matches(i, t.word)
               /\ LET c == CommandOf(cmd_tbl[i]) IN
                  IF cmd_tbl[i] # t.word THEN Cancel     \* no white space after the name
                  ELSE IF reply = Null
                  THEN IF c = "report" /\ t.args = 0 THEN Run(c) ELSE Cancel
                  ELSE IF reply = Wild THEN Crash
                  ELSE Run(c)
  /\ UNCHANGED <<input, event, todo, reqs>>

\* Where a command starts once the sender may give it; warn, tmute and delvote
\* do nothing.  A message without an id is not pinned, unpinned or deleted.
Start ==
  IF cmd \in {"warn", "tmute", "delvote"}
  THEN pc' = "destroy" /\ ret' = ECANCELED /\ UNCHANGED <<todo, text>>
  ELSE IF cmd \in OnMessage /\ ~tge_get_msg_id(evt[tgt])
  THEN pc' = "send" /\ text' = "please reply" /\ ret' = 0 /\ UNCHANGED todo
  ELSE pc' = "exec" /\ todo' = Plan(cmd) /\ UNCHANGED <<text, ret>>

\* is_privileged_user: a sudoer at once, others by the list of administrators.
is_privileged_user ==
  /\ pc = "privilege"
  /\ \/ /\ ~NeedsPrivilege(cmd) \/ role = "sudoer"
        /\ Start /\ UNCHANGED reqs
     \/ /\ NeedsPrivilege(cmd) /\ role # "sudoer"
        /\ \E answer \in Answers : \E listed \in parse_tga_admins(answer) :
             /\ reqs' = Append(reqs, Request(AdminList, tge_get_chat_id(evt[1]), TRUE, answer))
             /\ IF listed = "yes" THEN Start
                ELSE /\ pc' = "send" /\ ret' = 0 /\ UNCHANGED todo
                     /\ text' = IF listed = "no" THEN "eperm" ELSE "error"
  /\ UNCHANGED <<input, mod, event, cmd, tgt>>

\* exec_usr_cmd_report
exec_usr_cmd_report ==
  /\ pc = "report"
  /\ \E answer \in Answers : \E listed \in parse_tga_admins(answer) :
       /\ reqs' = Append(reqs, Request(AdminList, tge_get_chat_id(evt[1]), TRUE, answer))
       /\ text' = IF listed = "error" THEN "error" ELSE "reported"
  /\ pc' = IF tgt = Wild THEN "crashed" ELSE "send"
  /\ ret' = 0
  /\ UNCHANGED <<input, mod, event, cmd, tgt, todo>>

\* The id a request is about.
IdOf(method) ==
  CASE method \in {"kick", "unban", "restrict"} -> tge_get_user_id(evt[tgt])
    [] method \in {"pin", "unpin", "del_reply"} -> tge_get_msg_id(evt[tgt])
    [] method = "del_cmd" -> tge_get_msg_id(evt[1])

\* Slips: a failed step leaves reply_text alone; the failed verdict is returned;
\* the command goes on; a silent command is silent about its failure too.
AfterFailure_silent ==
  text' = "error" /\ ret' = 0 /\ todo' = <<>> /\ pc' = IF cmd \in Silent THEN "destroy" ELSE "send"
AfterFailure_mute == UNCHANGED text /\ pc' = "send" /\ ret' = 0 /\ todo' = <<>>
AfterFailure_ret == text' = "error" /\ pc' = "send" /\ ret' = 1 /\ todo' = <<>>
AfterFailure_on == text' = "error" /\ pc' = "send" /\ ret' = 0 /\ todo' = Tail(todo)

\* A request failed: its error is sent, and the command is over.  But after a
\* failed unban exec_adm_cmd_kick goes on to delete, as send_reply returned 0.
AfterFailure ==
  /\ text' = "error" /\ pc' = "send" /\ ret' = 0
  /\ todo' = IF cmd = "skick" /\ Head(todo) = "unban" THEN Tail(todo) ELSE <<>>

\* The last request succeeded.  gen_name_link reads the name of the member, which
\* a message without a sender does not have.
Finish ==
  /\ todo' = <<>> /\ ret' = 0
  /\ IF cmd \in Silent THEN pc' = "destroy" /\ UNCHANGED text
     ELSE IF cmd \notin OnMessage /\ ~tge_get_user_id(evt[tgt])
     THEN pc' = "crashed" /\ UNCHANGED text
     ELSE pc' = "send" /\ text' = "success"

\* One request of exec_adm_cmd_*, by do_kick, do_unban, do_mute, do_pin,
\* do_unpin or do_del_msg.
exec_adm_cmd ==
  /\ pc = "exec"
  /\ \E answer \in Answers : \E ok \in process_json_msg(answer) :
       /\ reqs' = Append(reqs, Request(Head(todo), tge_get_chat_id(evt[1]),
                                       IdOf(Head(todo)), answer))
       /\ IF ~ok THEN AfterFailure
          ELSE IF Len(todo) = 1 THEN Finish
          ELSE todo' = Tail(todo) /\ UNCHANGED <<pc, text, ret>>
  /\ UNCHANGED <<input, mod, event, cmd, tgt>>

\* The event a reply goes to.
Answered == evt[IF cmd \in AdminCommands \/ tgt = Null THEN 1 ELSE tgt]

\* send_reply, send_reply_text, send_debug_message: the outcome is not used.
send_reply ==
  /\ pc = "send"
  /\ reqs' = Append(reqs, Request("sendMessage", tge_get_chat_id(Answered),
                                  tge_get_msg_id(Answered), "unused"))
  /\ pc' = IF todo = <<>> THEN "destroy" ELSE "exec"
  /\ UNCHANGED <<input, mod, event, cmd, tgt, todo, text, ret>>

Destroy ==
  /\ pc = "destroy"
  /\ FreeAll(heap, tg_event_destroy(evt))
  /\ pc' = "done"
  /\ UNCHANGED <<input, mod, evt, cmd, tgt, todo, text, reqs, ret>>

Next ==
  \/ tg_event_load_str \/ NoModule \/ debug \/ standard \/ translate \/ fetch_api
  \/ admin \/ is_privileged_user \/ exec_usr_cmd_report \/ exec_adm_cmd
  \/ send_reply \/ Destroy

Spec == Init /\ [][Next]_vars

-------------------------------------------------------------------------------
Requests == {reqs[i] : i \in DOMAIN reqs}
Administrative == {"kick", "unban", "restrict", "pin", "unpin", "del_cmd", "del_reply"}

\* The handler's variables have their types.
TypeOK ==
  /\ pc \in {"load", "module", "fetch", "privilege", "report", "exec", "send",
             "destroy", "done", "crashed"}
  /\ mod \in 1..Len(mod_tbl) + 1
  /\ todo \in Seq(Administrative)
  /\ text \in {"unset", "debug", "translation", "error", "eperm", "reported",
               "please reply", "success"}
  /\ ret \in {0, EINVAL, ECANCELED, EBADMSG, ENOMEM}

\* An ordinary member gets no administrative request out of the bot: such a
\* request is made for a sudoer, for a listed administrator, or after a list
\* without a body, which is_privileged_user reads from uninitialised memory.
PrivilegeFirst ==
  \A i \in DOMAIN reqs : reqs[i].method \in Administrative =>
    \/ role = "sudoer"
    \/ \E j \in 1..i-1 : /\ reqs[j].method = AdminList
                         /\ reqs[j].answer = "empty" \/ (reqs[j].answer = "ok" /\ role = "admin")

\* "... has been banned!" and the like are not sent when Telegram refused a
\* request of the command or its answer could not be read (process_json_msg).
NoFalseSuccess ==
  \A i, j \in DOMAIN reqs :
    (reqs[i].method = "sendMessage" /\ reqs[i].text = "success"
       /\ reqs[j].method \in Administrative) => reqs[j].answer \notin {"refused", "garbled"}

\* send_reply never sends a reply_text buffer nothing was written to.
TextIsWritten == \A r \in Requests : r.method = "sendMessage" => r.text # "unset"

\* The chats, users and messages named in requests come from parsed messages,
\* never from fields left zero; the exception is an unknown event replied to,
\* whose half-parsed fields parse_message_json_obj accepts.
IdsAreParsed ==
  \A r \in Requests :
    \/ r.chat /\ r.id
    \/ evt[1].type = "text" /\ 2 \in DOMAIN evt /\ evt[2].type = "unknown"

\* A caption that takes a module as far as the message replied to: it begins like
\* a translation, is an administrative command or mentions the admins.
Addressed(word) ==
  BeginsTranslation(word) \/ word = "mention" \/ \E i \in DOMAIN cmd_tbl : cmd_tbl[i] = word

\* Only two things crash the handler.  A photo whose caption has entities and is
\* addressed to a module: tge_get_reply_to misreads it.  A command that names the
\* member it was about, when the message replied to has no sender: gen_name_link
\* reads the missing name, after the request was made.  Any other text, caption,
\* reply or answer is survived.
CrashOnlyWhere ==
  pc = "crashed" =>
    \/ /\ evt[1].type = "photo" /\ evt[1].entity_c
       /\ Addressed(tge_get_text(evt[1]).word)
    \/ /\ evt[1].type = "text" /\ 2 \in DOMAIN evt /\ evt[2].type = "unknown" /\ ~evt[2].from
       /\ cmd \in AdminCommands \ (OnMessage \cup Silent) /\ reqs # <<>>

\* The cells that tg_event_destroy and parse_replied_msg lose: the arrays of an
\* unknown event and everything behind it, and the photos of a reply whose
\* parsing failed.
Lost(c) ==
  {x \in Cells(c) :
     \/ \E u \in Linked(c) : c[u].kind = "unknown" /\ (x[1] > u \/ x = <<u, "entities">>)
     \/ x[1] \notin Linked(c) /\ x[2] = "photo"}

\* When the handler returns every cell of the event was freed exactly once,
\* except the known losses: no double free, no free of a stranger, no other leak.
HeapBalanced ==
  /\ ~bad_free
  /\ (pc = "done" /\ msg # <<>>) => heap = Lost(msg)

\* A silent ban and a delete stop at the first request that fails: no request
\* follows one that Telegram refused.
StopsAtRefusal ==
  cmd # "skick" =>
    \A i, j \in DOMAIN reqs :
      (i < j /\ reqs[i].method \in Administrative /\ reqs[i].answer = "refused")
        => reqs[j].method = "sendMessage"

\* A request Telegram did not carry out.
Failure(r) == r.method \in Administrative /\ r.answer \in {"refused", "garbled"}

\* Whoever gave a command learns that it failed: when the handler returns, a reply
\* with the error has followed every refused or unreadable answer, also for the
\* commands that are silent when they succeed.
RefusalIsReported ==
  pc = "done" =>
    \A i \in DOMAIN reqs : Failure(reqs[i]) =>
      \E j \in i+1 .. Len(reqs) : reqs[j].method = "sendMessage" /\ reqs[j].text = "error"
===============================================================================
