------------------------------ MODULE WorkerPool ------------------------------
(***************************************************************************)
(* The dispatch of client events to worker threads (core/server.c).        *)
(*                                                                         *)
(* The main thread takes a slot index from thread_stk, fills the slot      *)
(* under its ev_lock and either signals the worker that owns the slot or   *)
(* spawns one; with no free slot the event is queued in sqes and handed    *)
(* out later, one per turn of the event loop.  A worker handles the event  *)
(* while it holds ev_lock, pushes its slot back and waits, at most one     *)
(* second at a time, for the next one.  After IdleLimit + 1 fruitless      *)
(* waits it leaves: it unlocks and destroys ev_lock and ev_cond, clears    *)
(* the slot field by field and initialises both again, holding no lock.    *)
(*                                                                         *)
(* A worker thread is a process of its own, apart from the slot it serves: *)
(* nothing in the code stops a new thread from being spawned for a slot    *)
(* whose previous thread is still leaving.                                 *)
(*                                                                         *)
(* The model is of the default build, in which assert() is compiled in: a  *)
(* failed assertion or a panic() ends the process (aborted).               *)
(***************************************************************************)
EXTENDS Integers, Sequences, FiniteSets

CONSTANTS ThreadC,    \* cfg->worker.thread_c, the number of slots
          Workers,    \* identities of worker threads alive at the same time
          Events,     \* the complete packets clients send
          NoEvent,    \* a NULL sqe_node, a packet buffer never written
          SqeCap,     \* capacity of the sqes queue (100000 in init_state)
          IdleLimit   \* the 300 of handle_thread

ASSUME PoolAssumption ==
  /\ ThreadC \in Nat \ {0}
  /\ SqeCap \in Nat
  /\ IdleLimit \in Nat
  /\ NoEvent \notin Events
  /\ {"main", "free"} \cap Workers = {}

Slots == 0 .. ThreadC - 1
MaybeEvent == Events \cup {NoEvent}
Holder == Workers \cup {"main", "free"}

VARIABLES
  \* struct gwbot_state
  stop_el, thread_stk, sqes, online_thread,
  \* struct gwbot_thread, one per slot
  is_online, has_event, ev_from_sqe, pkt, sqe_node,
  ev_lock,      \* who holds the mutex: a worker, "main" or "free"
  lock_init,    \* ev_lock.need_destroy
  cond_init,    \* ev_cond.need_destroy
  \* the main thread: position, the slot and the event in its hands, and whether
  \* that event is (to be) taken from sqes
  mpc, mslot, mev, msqe,
  \* the worker threads: position, slot, idle counter, event being handled
  tpc, tslot, counter, tev,
  \* history
  aborted,      \* an assert() or a panic() has ended the process
  arrived,      \* events submit_event was called with
  refused,      \* events submit_event returned an error for, queue or memory
  runs,         \* how often the handler was started for an event
  done,         \* events whose handler has returned
  freed,        \* events whose queue node has been freed
  raced,        \* a slot was claimed while its worker was leaving it
  spawn_failed  \* pthread_create has failed for a filled slot

stateVars == <<stop_el, thread_stk, sqes, online_thread>>
slotVars == <<is_online, has_event, ev_from_sqe, pkt, sqe_node>>
lockVars == <<ev_lock, lock_init, cond_init>>
mainVars == <<mpc, mslot, mev, msqe>>
handVars == <<mslot, mev, msqe>>
threadVars == <<tpc, tslot, counter, tev>>
histVars == <<arrived, refused, runs, done, freed, raced, spawn_failed>>
vars == <<stateVars, slotVars, lockVars, mainVars, threadVars, histVars, aborted>>

MainPC == {"top", "poll", "lock", "acquire", "fill", "mark", "store", "signal",
           "unlock", "unlock_offline", "spawn", "exit"}
ThreadPC == {"none", "start", "lock", "wait", "handle", "push", "unlock",
             "out", "destroy_lock", "destroy_cond", "reset_online", "reset_event",
             "reset_sqe", "reset_node", "init_lock", "init_cond", "dec"}

\* Positions of a worker on its way out, from "goto out" to its last access to
\* the slot.
Leaving == {"out", "destroy_lock", "destroy_cond", "reset_online", "reset_event",
            "reset_sqe", "reset_node", "init_lock", "init_cond"}

\* Positions between gw_mutex_lock and gw_mutex_unlock of the slot's ev_lock.
\* (gw_cond_timedwait_rel gives the lock up while it waits.)
Holding == {"handle", "push", "unlock", "out"}
MainHolding == {"fill", "mark", "store", "signal", "unlock", "unlock_offline"}

\* The main thread has popped a slot and not filled it yet.
Unfilled == {"lock", "acquire", "fill", "mark", "store"}

\* The positions in which the main thread has a slot it popped in its hands.
MainClaiming == {"lock", "acquire"} \cup MainHolding \cup {"spawn"}

Distinct(q) == \A i, j \in 1 .. Len(q) : q[i] = q[j] => i = j

Stacked == {thread_stk[i] : i \in 1 .. Len(thread_stk)}
Queue == {sqes[i] : i \in 1 .. Len(sqes)}

\* Slip: the handler always reads the packet of the slot.
SlotEvent_packet(s) == pkt[s]

\* The event gwbot_event_handler reads from the slot.
SlotEvent(s) == IF ev_from_sqe[s] THEN sqe_node[s] ELSE pkt[s]

\* Slip: the indices pushed start at 1.
InitStack_from_one == [i \in 1 .. ThreadC |-> i]

\* init_state pushes thread_c - 1 down to 0.
InitStack == [i \in 1 .. ThreadC |-> i - 1]

\* init_state: every slot offline, its index on the stack.
Init ==
  /\ stop_el = FALSE
  /\ thread_stk = InitStack
  /\ sqes = <<>>
  /\ online_thread = 0
  /\ is_online = [s \in Slots |-> FALSE]
  /\ has_event = [s \in Slots |-> FALSE]
  /\ ev_from_sqe = [s \in Slots |-> FALSE]
  /\ pkt = [s \in Slots |-> NoEvent]
  /\ sqe_node = [s \in Slots |-> NoEvent]
  /\ ev_lock = [s \in Slots |-> "free"]
  /\ lock_init = [s \in Slots |-> TRUE]
  /\ cond_init = [s \in Slots |-> TRUE]
  /\ mpc = "top" /\ mslot = 0 /\ mev = NoEvent /\ msqe = FALSE
  /\ tpc = [w \in Workers |-> "none"]
  /\ tslot = [w \in Workers |-> 0]
  /\ counter = [w \in Workers |-> 0]
  /\ tev = [w \in Workers |-> NoEvent]
  /\ aborted = FALSE
  /\ arrived = {} /\ refused = {} /\ done = {} /\ freed = {}
  /\ runs = [e \in Events |-> 0]
  /\ raced = FALSE /\ spawn_failed = FALSE

-------------------------------------------------------------------------------
(* The main thread: run_event_loop, submit_event, dispatch_sqe.            *)

MainAt(pc) == ~aborted /\ mpc = pc

\* Slip: the top of the stack is read and not removed.
ClaimSlot_peek(s) ==
  /\ thread_stk # <<>>
  /\ s = Head(thread_stk)
  /\ mslot' = s
  /\ mpc' = "lock"
  /\ UNCHANGED <<thread_stk, raced>>

\* tss_pop of thread_stk under thread_stk_lock, and the claim on the slot.
\* (raced records a claim on a slot whose worker is on its way out.)
ClaimSlot(s) ==
  /\ thread_stk # <<>>
  /\ s = Head(thread_stk)
  /\ thread_stk' = Tail(thread_stk)
  /\ mslot' = s
  /\ mpc' = "lock"
  /\ IF \E w \in Workers : tslot[w] = s /\ tpc[w] \in Leaving
     THEN raced' = TRUE ELSE UNCHANGED raced

\* The main thread has no slot in its hands any more.
ReleaseHands == mslot' = 0 /\ mev' = NoEvent /\ msqe' = FALSE

\* Slip: the loop does not look at stop_el.
run_event_loop_top_forever ==
  /\ MainAt("top") /\ sqes = <<>>
  /\ mpc' = "poll"
  /\ UNCHANGED <<stateVars, slotVars, lockVars, handVars, threadVars, histVars, aborted>>

\* The top of the loop of run_event_loop, with no queued event: to epoll_wait.
run_event_loop_top ==
  /\ MainAt("top") /\ ~stop_el /\ sqes = <<>>
  /\ mpc' = "poll"
  /\ UNCHANGED <<stateVars, slotVars, lockVars, handVars, threadVars, histVars, aborted>>

\* Slip: the queue is left to a later turn, always.
dispatch_sqe_later ==
  /\ MainAt("top") /\ ~stop_el /\ sqes # <<>>
  /\ mpc' = "poll"
  /\ UNCHANGED <<stateVars, slotVars, lockVars, handVars, threadVars, histVars, aborted>>

\* dispatch_sqe up to the lock of the slot: all slots taken, or one is claimed.
dispatch_sqe ==
  /\ MainAt("top") /\ ~stop_el /\ sqes # <<>>
  /\ \/ /\ thread_stk = <<>>
        /\ mpc' = "poll"
        /\ UNCHANGED <<thread_stk, mslot, msqe, raced>>
     \/ \E s \in Slots : ClaimSlot(s) /\ msqe' = TRUE
  /\ UNCHANGED <<stop_el, sqes, online_thread, slotVars, lockVars, mev, threadVars,
                 arrived, refused, runs, done, freed, spawn_failed, aborted>>

\* submit_event for a packet completed in this batch.  With no free slot it is
\* queued; a full queue, or no memory for the node, refuses it.
submit_event(e) ==
  /\ MainAt("poll") /\ e \notin arrived
  /\ arrived' = arrived \cup {e}
  /\ \/ \E s \in Slots :
           /\ ClaimSlot(s)
           /\ mev' = e
           /\ UNCHANGED <<sqes, refused, msqe>>
     \/ /\ thread_stk = <<>> /\ Len(sqes) < SqeCap
        /\ sqes' = Append(sqes, e)
        /\ UNCHANGED <<thread_stk, refused, mainVars, raced>>
     \/ /\ thread_stk = <<>>
        /\ refused' = refused \cup {e}
        /\ UNCHANGED <<thread_stk, sqes, mainVars, raced>>
  /\ UNCHANGED <<stop_el, online_thread, slotVars, lockVars, threadVars,
                 runs, done, freed, spawn_failed, aborted>>

\* The batch is over (or epoll_wait timed out or was interrupted).
run_event_loop_next ==
  /\ MainAt("poll")
  /\ mpc' = "top"
  /\ UNCHANGED <<stateVars, slotVars, lockVars, handVars, threadVars, histVars, aborted>>

\* gw_mutex_lock(&thread->ev_lock): the assertion, then the acquisition.  On a
\* mutex destroyed between the two pthread_mutex_lock may return EINVAL, which
\* the code ignores.
main_lock ==
  /\ MainAt("lock") /\ lock_init[mslot]
  /\ mpc' = "acquire"
  /\ UNCHANGED <<stateVars, slotVars, lockVars, handVars, threadVars, histVars, aborted>>

main_acquire ==
  /\ MainAt("acquire")
  /\ \/ /\ ev_lock[mslot] = "free"
        /\ ev_lock' = [ev_lock EXCEPT ![mslot] = "main"]
     \/ /\ ~lock_init[mslot]
        /\ UNCHANGED ev_lock
  /\ mpc' = "fill"
  /\ UNCHANGED <<stateVars, slotVars, lock_init, cond_init, handVars, threadVars,
                 histVars, aborted>>

\* Slip: the first node is read and stays in the queue.
TakeNode_peek == sqes # <<>> /\ mev' = Head(sqes) /\ UNCHANGED sqes

\* que_dequeue of the first node of sqes.
TakeNode == sqes # <<>> /\ mev' = Head(sqes) /\ sqes' = Tail(sqes)

\* The body of submit_to_thread, or of dispatch_sqe, which takes the first node
\* of sqes: the fields of the slot in the order of the code, then the test of
\* is_online.  One write at a time, because reset_thread of a leaving worker
\* writes to the same fields without the lock.
main_fill ==
  /\ MainAt("fill")
  /\ \/ /\ ~msqe
        /\ ev_from_sqe' = [ev_from_sqe EXCEPT ![mslot] = FALSE]
        /\ UNCHANGED <<sqes, mev>>
     \/ /\ msqe /\ TakeNode
        /\ ev_from_sqe' = [ev_from_sqe EXCEPT ![mslot] = TRUE]
  /\ mpc' = "mark"
  /\ UNCHANGED <<stop_el, thread_stk, online_thread, is_online, has_event, pkt, sqe_node,
                 lockVars, mslot, msqe, threadVars, histVars, aborted>>

main_mark ==
  /\ MainAt("mark")
  /\ has_event' = [has_event EXCEPT ![mslot] = TRUE]
  /\ mpc' = "store"
  /\ UNCHANGED <<stateVars, is_online, ev_from_sqe, pkt, sqe_node, lockVars, handVars,
                 threadVars, histVars, aborted>>

\* Slip: a worker is assumed to be there.
AfterStore_no_spawn == "signal"

\* Slip: a worker is spawned for every event.
AfterStore_always_spawn == "unlock_offline"

\* The test of is_online: signal the worker of the slot, or spawn one.
AfterStore == IF is_online[mslot] THEN "signal" ELSE "unlock_offline"

main_store ==
  /\ MainAt("store")
  /\ \/ /\ ~msqe
        /\ pkt' = [pkt EXCEPT ![mslot] = mev]
        /\ UNCHANGED sqe_node
     \/ /\ msqe
        /\ sqe_node' = [sqe_node EXCEPT ![mslot] = mev]
        /\ UNCHANGED pkt
  /\ mpc' = AfterStore
  /\ UNCHANGED <<stateVars, is_online, has_event, ev_from_sqe, lockVars, handVars,
                 threadVars, histVars, aborted>>

\* gw_cond_signal.  A worker may also wake up unsignalled, so that the signal
\* itself changes nothing a worker can tell apart.
main_signal ==
  /\ MainAt("signal") /\ cond_init[mslot]
  /\ mpc' = "unlock"
  /\ UNCHANGED <<stateVars, slotVars, lockVars, handVars, threadVars, histVars, aborted>>

\* gw_mutex_unlock: back to the loop, or on to spawn_thread.
main_unlock ==
  /\ lock_init[mslot]
  /\ ev_lock' = [ev_lock EXCEPT ![mslot] = "free"]
  /\ \/ MainAt("unlock") /\ mpc' = "poll" /\ ReleaseHands
     \/ MainAt("unlock_offline") /\ mpc' = "spawn" /\ UNCHANGED handVars
  /\ UNCHANGED <<stateVars, slotVars, lock_init, cond_init, threadVars, histVars, aborted>>

\* spawn_thread: pthread_create succeeds or fails.
spawn_thread ==
  /\ MainAt("spawn")
  /\ mpc' = "poll" /\ ReleaseHands
  /\ \/ \E w \in Workers :
           /\ tpc[w] = "none"
           /\ tpc' = [tpc EXCEPT ![w] = "start"]
           /\ tslot' = [tslot EXCEPT ![w] = mslot]
           /\ UNCHANGED spawn_failed
     \/ spawn_failed' = TRUE /\ UNCHANGED <<tpc, tslot>>
  /\ UNCHANGED <<stateVars, slotVars, lockVars, counter, tev,
                 arrived, refused, runs, done, freed, raced, aborted>>

\* The loop ends on stop_el, or on an error of epoll_wait or of the acceptor;
\* destroy_state then sets stop_el.
run_event_loop_exit ==
  /\ MainAt("poll") \/ (MainAt("top") /\ stop_el)
  /\ mpc' = "exit"
  /\ stop_el' = TRUE
  /\ UNCHANGED <<thread_stk, sqes, online_thread, slotVars, lockVars, handVars,
                 threadVars, histVars, aborted>>

\* The handler of SIGHUP, SIGINT, SIGTERM and SIGQUIT.
handle_interrupt ==
  /\ ~aborted /\ ~stop_el
  /\ stop_el' = TRUE
  /\ UNCHANGED <<thread_stk, sqes, online_thread, slotVars, lockVars, mainVars,
                 threadVars, histVars, aborted>>

-------------------------------------------------------------------------------
(* A worker thread: handle_thread.  s is the slot it was spawned for.      *)

At(w, pc) == ~aborted /\ tpc[w] = pc
Goto(w, pc) == tpc' = [tpc EXCEPT ![w] = pc]

handle_thread_start(w) ==
  /\ At(w, "start") /\ Goto(w, "lock")
  /\ online_thread' = online_thread + 1
  /\ UNCHANGED <<stop_el, thread_stk, sqes, slotVars, lockVars, mainVars,
                 tslot, counter, tev, histVars, aborted>>

\* The handler is started on the event of slot s, with ev_lock held.
NullNode(s) == ev_from_sqe[s] /\ sqe_node[s] = NoEvent
BeginHandler(w, s) ==
  /\ ~NullNode(s)
  /\ Goto(w, "handle")
  /\ ev_lock' = [ev_lock EXCEPT ![s] = w]
  /\ tev' = [tev EXCEPT ![w] = SlotEvent(s)]
  /\ runs' = [e \in Events |-> IF e = SlotEvent(s) THEN runs[e] + 1 ELSE runs[e]]

\* The thread waits in gw_cond_timedwait_rel, which releases ev_lock.
EnterWait(w, s) ==
  /\ lock_init[s] /\ cond_init[s]
  /\ Goto(w, "wait")
  /\ UNCHANGED <<ev_lock, tev, runs>>

\* "again": take ev_lock, mark the slot online, and look for an event.
handle_thread_again(w) ==
  LET s == tslot[w] IN
  /\ At(w, "lock") /\ lock_init[s] /\ ev_lock[s] = "free"
  /\ is_online' = [is_online EXCEPT ![s] = TRUE]
  /\ counter' = [counter EXCEPT ![w] = 0]
  /\ \/ has_event[s] /\ BeginHandler(w, s)
     \/ ~has_event[s] /\ EnterWait(w, s)
  /\ UNCHANGED <<stateVars, has_event, ev_from_sqe, pkt, sqe_node, lock_init, cond_init,
                 mainVars, tslot, arrived, refused, done, freed, raced, spawn_failed, aborted>>

\* A waiting worker leaves for having been idle, or because the server stops.
ShouldLeave(w, timedout) == (timedout /\ counter[w] = IdleLimit) \/ stop_el

\* gw_cond_timedwait_rel returns with ev_lock taken again, after a signal (or
\* for no reason) or timed out.  The idle limit and stop_el are looked at
\* before has_event is.  (raced records an exit from a slot that the main
\* thread has claimed.)
handle_thread_wake(w, timedout) ==
  LET s == tslot[w] IN
  /\ At(w, "wait") /\ ev_lock[s] = "free"
  /\ counter' = [counter EXCEPT ![w] = IF timedout THEN @ + 1 ELSE @]
  /\ \/ /\ ShouldLeave(w, timedout)
        /\ Goto(w, "out")
        /\ ev_lock' = [ev_lock EXCEPT ![s] = w]
        /\ IF s \in Stacked THEN UNCHANGED raced ELSE raced' = TRUE
        /\ UNCHANGED <<tev, runs>>
     \/ /\ ~ShouldLeave(w, timedout)
        /\ \/ has_event[s] /\ BeginHandler(w, s)
           \/ ~has_event[s] /\ EnterWait(w, s)
        /\ UNCHANGED raced
  /\ UNCHANGED <<stateVars, slotVars, lock_init, cond_init, mainVars, tslot,
                 arrived, refused, done, freed, spawn_failed, aborted>>

\* Slip: the slot keeps its pointer to the freed node.
FreeNode_dangling(s) ==
  /\ freed' = IF ev_from_sqe[s] THEN (freed \cup {sqe_node[s]}) \ {NoEvent} ELSE freed
  /\ UNCHANGED sqe_node

\* que_node_destroy of the node an event was taken from.
FreeNode(s) ==
  \/ /\ ev_from_sqe[s]
     /\ freed' = (freed \cup {sqe_node[s]}) \ {NoEvent}
     /\ sqe_node' = [sqe_node EXCEPT ![s] = NoEvent]
  \/ ~ev_from_sqe[s] /\ UNCHANGED <<freed, sqe_node>>

\* gwbot_event_handler returns; a node of the queue is freed; then stop_el is
\* looked at, and only then is has_event cleared.
handle_thread_handled(w) ==
  LET s == tslot[w] IN
  /\ At(w, "handle")
  /\ done' = (done \cup {tev[w]}) \ {NoEvent}
  /\ tev' = [tev EXCEPT ![w] = NoEvent]
  /\ FreeNode(s)
  /\ \/ stop_el /\ Goto(w, "out") /\ UNCHANGED has_event
     \/ ~stop_el /\ Goto(w, "push") /\ has_event' = [has_event EXCEPT ![s] = FALSE]
  /\ UNCHANGED <<stateVars, is_online, ev_from_sqe, pkt, lockVars, mainVars, tslot, counter,
                 arrived, refused, runs, raced, spawn_failed, aborted>>

\* Slip: one entry of the stack is never used.
PushSlot_one_short(s) ==
  thread_stk' = IF Len(thread_stk) < ThreadC - 1 THEN <<s>> \o thread_stk ELSE thread_stk

\* tss_push; a full stack refuses the index.
PushSlot(s) ==
  thread_stk' = IF Len(thread_stk) < ThreadC THEN <<s>> \o thread_stk ELSE thread_stk

\* The slot is given back under thread_stk_lock; the result is not looked at.
handle_thread_push(w) ==
  /\ At(w, "push") /\ Goto(w, "unlock")
  /\ PushSlot(tslot[w])
  /\ UNCHANGED <<stop_el, sqes, online_thread, slotVars, lockVars, mainVars,
                 tslot, counter, tev, histVars, aborted>>

\* The unlock of ev_lock, before "again" or on the way out.
handle_thread_unlock(w) ==
  /\ lock_init[tslot[w]]
  /\ \/ At(w, "unlock") /\ Goto(w, "lock")
     \/ At(w, "out") /\ Goto(w, "destroy_lock")
  /\ ev_lock' = [ev_lock EXCEPT ![tslot[w]] = "free"]
  /\ UNCHANGED <<stateVars, slotVars, lock_init, cond_init, mainVars,
                 tslot, counter, tev, histVars, aborted>>

\* gw_mutex_destroy and gw_cond_destroy.  glibc refuses to destroy a mutex that
\* is held, need_destroy is cleared all the same.
handle_thread_destroy(w) ==
  /\ \/ /\ At(w, "destroy_lock") /\ Goto(w, "destroy_cond")
        /\ lock_init' = [lock_init EXCEPT ![tslot[w]] = FALSE]
        /\ UNCHANGED cond_init
     \/ /\ At(w, "destroy_cond") /\ Goto(w, "reset_online")
        /\ cond_init' = [cond_init EXCEPT ![tslot[w]] = FALSE]
        /\ UNCHANGED lock_init
  /\ UNCHANGED <<stateVars, slotVars, ev_lock, mainVars, tslot, counter, tev, histVars, aborted>>

\* Slip: need_destroy is not set again.
MakeLock_unmarked(s) == ev_lock' = [ev_lock EXCEPT ![s] = "free"] /\ UNCHANGED lock_init

\* gw_mutex_init.
MakeLock(s) ==
  /\ lock_init' = [lock_init EXCEPT ![s] = TRUE]
  /\ ev_lock' = [ev_lock EXCEPT ![s] = "free"]

\* reset_thread: the fields in the order of the code, then the new mutex and
\* the new condition variable.  A node still in sqe_node is forgotten.
reset_thread(w) ==
  LET s == tslot[w] IN
  /\ \/ /\ At(w, "reset_online") /\ Goto(w, "reset_event")
        /\ is_online' = [is_online EXCEPT ![s] = FALSE]
        /\ UNCHANGED <<has_event, ev_from_sqe, sqe_node, lockVars>>
     \/ /\ At(w, "reset_event") /\ Goto(w, "reset_sqe")
        /\ has_event' = [has_event EXCEPT ![s] = FALSE]
        /\ UNCHANGED <<is_online, ev_from_sqe, sqe_node, lockVars>>
     \/ /\ At(w, "reset_sqe") /\ Goto(w, "reset_node")
        /\ ev_from_sqe' = [ev_from_sqe EXCEPT ![s] = FALSE]
        /\ UNCHANGED <<is_online, has_event, sqe_node, lockVars>>
     \/ /\ At(w, "reset_node") /\ Goto(w, "init_lock")
        /\ sqe_node' = [sqe_node EXCEPT ![s] = NoEvent]
        /\ UNCHANGED <<is_online, has_event, ev_from_sqe, lockVars>>
     \/ /\ At(w, "init_lock") /\ Goto(w, "init_cond")
        /\ MakeLock(s)
        /\ UNCHANGED <<is_online, has_event, ev_from_sqe, sqe_node, cond_init>>
     \/ /\ At(w, "init_cond") /\ Goto(w, "dec")
        /\ cond_init' = [cond_init EXCEPT ![s] = TRUE]
        /\ UNCHANGED <<is_online, has_event, ev_from_sqe, sqe_node, ev_lock, lock_init>>
  /\ UNCHANGED <<stateVars, pkt, mainVars, tslot, counter, tev, histVars, aborted>>

handle_thread_return(w) ==
  /\ At(w, "dec") /\ Goto(w, "none")
  /\ online_thread' = online_thread - 1
  /\ tslot' = [tslot EXCEPT ![w] = 0]
  /\ counter' = [counter EXCEPT ![w] = 0]
  /\ UNCHANGED <<stop_el, thread_stk, sqes, slotVars, lockVars, mainVars, tev, histVars, aborted>>

-------------------------------------------------------------------------------
\* The assertions of gwthread.h, the panic() of dispatch_sqe, and a handler
\* started on a NULL node.
MainAssertFails ==
  \/ mpc \in {"lock", "unlock", "unlock_offline"} /\ ~lock_init[mslot]
  \/ mpc = "signal" /\ ~cond_init[mslot]
  \/ mpc = "fill" /\ msqe /\ sqes = <<>>

WorkerAssertFails(w) ==
  LET s == tslot[w] IN
  \/ tpc[w] \in {"lock", "unlock", "out"} /\ ~lock_init[s]
  \/ /\ tpc[w] = "lock" \/ (tpc[w] = "wait" /\ ~stop_el)
     /\ ev_lock[s] = "free"
     /\ IF has_event[s] THEN NullNode(s) ELSE ~(lock_init[s] /\ cond_init[s])

abort ==
  /\ ~aborted
  /\ MainAssertFails \/ \E w \in Workers : WorkerAssertFails(w)
  /\ aborted' = TRUE
  /\ UNCHANGED <<stateVars, slotVars, lockVars, mainVars, threadVars, histVars>>

MainStep ==
  \/ run_event_loop_top \/ dispatch_sqe \/ run_event_loop_next
  \/ main_lock \/ main_acquire \/ main_fill \/ main_mark \/ main_store
  \/ main_signal \/ main_unlock \/ spawn_thread

WorkerStep(w) ==
  \/ handle_thread_start(w) \/ handle_thread_again(w)
  \/ \E timedout \in BOOLEAN : handle_thread_wake(w, timedout)
  \/ handle_thread_handled(w) \/ handle_thread_push(w) \/ handle_thread_unlock(w)
  \/ handle_thread_destroy(w) \/ reset_thread(w) \/ handle_thread_return(w)

Step ==
  \/ MainStep
  \/ \E e \in Events : submit_event(e)
  \/ run_event_loop_exit
  \/ handle_interrupt
  \/ \E w \in Workers : WorkerStep(w)
  \/ abort

\* Nothing happens any more once the process is gone, or every thread is.
Ended == aborted \/ (mpc = "exit" /\ \A w \in Workers : tpc[w] = "none")
Terminated == Ended /\ UNCHANGED vars

Next == Step \/ Terminated

Spec == Init /\ [][Next]_vars

\* Every thread that can run does run; the handler returns, and a wait ends (the
\* worker's after a second, the main thread's after 20 or 500 milliseconds).
\* Neither clients nor signals are owed.
Fairness ==
  /\ WF_vars(MainStep)
  /\ WF_vars(mpc = "top" /\ run_event_loop_exit)
  /\ \A w \in Workers : WF_vars(WorkerStep(w))
  /\ WF_vars(abort)

-------------------------------------------------------------------------------
(* Properties.                                                             *)

\* Every variable stays within its C type, the counters within their bounds.
TypeOK ==
  /\ stop_el \in BOOLEAN /\ aborted \in BOOLEAN
  /\ raced \in BOOLEAN /\ spawn_failed \in BOOLEAN
  /\ thread_stk \in Seq(Slots) /\ sqes \in Seq(Events)
  /\ online_thread \in Int
  /\ is_online \in [Slots -> BOOLEAN] /\ has_event \in [Slots -> BOOLEAN]
  /\ ev_from_sqe \in [Slots -> BOOLEAN]
  /\ pkt \in [Slots -> MaybeEvent]
  /\ sqe_node \in [Slots -> MaybeEvent]
  /\ ev_lock \in [Slots -> Holder]
  /\ lock_init \in [Slots -> BOOLEAN] /\ cond_init \in [Slots -> BOOLEAN]
  /\ mpc \in MainPC /\ mslot \in Slots
  /\ mev \in MaybeEvent /\ msqe \in BOOLEAN
  /\ tpc \in [Workers -> ThreadPC] /\ tslot \in [Workers -> Slots]
  /\ counter \in [Workers -> Nat] /\ tev \in [Workers -> MaybeEvent]
  /\ arrived \subseteq Events /\ refused \subseteq Events
  /\ done \subseteq Events /\ freed \subseteq Events
  /\ runs \in [Events -> Nat]

\* A thread that has not given its slot up: reset_thread has not cleared
\* is_online yet.
Owner(w) == tpc[w] \notin {"none", "reset_event", "reset_sqe", "reset_node",
                             "init_lock", "init_cond", "dec"}

\* An owner that will look at has_event again before it leaves.
Serving(w) == Owner(w) /\ tpc[w] \notin Leaving

MainHas(s) == mpc \in MainClaiming /\ mslot = s

\* The assertions of gwthread.h and the panic() of dispatch_sqe can only fail
\* after the main thread and a leaving worker have met on a slot: without that
\* meeting no mutex is used while it is destroyed, whatever the interleaving.
AbortOnlyByRace == aborted => raced

\* A slot index on thread_stk is there once, belongs to nobody and holds no
\* event, so that submit_to_thread and dispatch_sqe never overwrite an event
\* that has not been handled.
FreeSlotsAreFree ==
  /\ Distinct(thread_stk)
  /\ \A s \in Stacked : ~has_event[s] /\ ~MainHas(s)

\* Two threads never own one slot, although spawn_thread only trusts is_online,
\* which reset_thread clears without a lock before the old thread is gone.
OneOwnerPerSlot ==
  \A v, w \in Workers : Owner(v) /\ Owner(w) /\ tslot[v] = tslot[w] => v = w

\* No event is handled twice, as long as no worker has left under the main
\* thread: neither the packet a slot keeps from an earlier event nor a node is
\* ever taken for a new event.
AtMostOnce == ~raced => \A e \in Events : runs[e] <= 1

\* que_node_destroy never frees a node that is still in the queue, or that
\* sqe_node of some slot points to: no node is used after it is freed, and none
\* is freed twice.
NoUseAfterFree ==
  /\ Queue \cap freed = {}
  /\ \A s \in Slots : sqe_node[s] \notin freed

\* Nothing has happened that makes the pool drop events: no shutdown, no
\* worker leaving a claimed slot, no failure of pthread_create.
Undisturbed == ~stop_el /\ ~raced /\ ~spawn_failed

\* The event of the slot will be looked at: a thread serves the slot, or the
\* main thread is about to create one.
Attended(s) ==
  \/ \E w \in Workers : Serving(w) /\ tslot[w] = s
  \/ mpc \in {"unlock_offline", "spawn"} /\ mslot = s

\* The event is somewhere: handled, in the queue, in the main thread's hands, or
\* in a slot that is attended to.  (main_mark sets has_event before main_store
\* puts the event there.)
Kept(e) ==
  \/ e \in done
  \/ e \in Queue
  \/ mpc \in Unfilled /\ mev = e
  \/ \E s \in Slots : /\ has_event[s] /\ ~(mpc = "store" /\ mslot = s)
                      /\ SlotEvent(s) = e /\ Attended(s)

\* While the pool is undisturbed no event that submit_event accepted is lost.
NothingLost == Undisturbed => \A e \in arrived \ refused : Kept(e)

\* The main thread has the slot, or a thread that serves it has an event to
\* handle or is about to push the slot back.
Busy(s) ==
  \/ MainHas(s)
  \/ \E w \in Workers : /\ Serving(w) /\ tslot[w] = s
                        /\ has_event[s] \/ tpc[w] = "push"

\* While the pool is undisturbed no slot is ever leaked: each one is on
\* thread_stk or busy.
SlotsConserved == Undisturbed => \A s \in Slots : s \in Stacked \/ Busy(s)

\* What each slot is handling, for the abstract specification.
Handlers(s) == {w \in Workers : tpc[w] = "handle" /\ tslot[w] = s}
running == [s \in Slots |-> IF Handlers(s) = {} THEN NoEvent
                            ELSE tev[CHOOSE w \in Handlers(s) : TRUE]]

D == INSTANCE Dispatcher WITH sound <- ~raced

\* The pool implements the abstract dispatcher, until a worker leaves under the
\* main thread: every step of the main thread and of the workers accepts,
\* refuses, starts or finishes one event in one slot, or changes nothing the
\* dispatcher knows of.
RefinesDispatcher == D!Spec

\* A new packet gets the name of an event that is over, so that the stream of
\* events never ends.  What is left of the old one in a slot loses its name.
packet_again(e) ==
  /\ Undisturbed /\ e \in done \cup refused
  /\ arrived' = arrived \ {e} /\ refused' = refused \ {e}
  /\ done' = done \ {e} /\ freed' = freed \ {e}
  /\ runs' = [runs EXCEPT ![e] = 0]
  /\ pkt' = [s \in Slots |-> IF pkt[s] = e THEN NoEvent ELSE pkt[s]]
  /\ UNCHANGED <<stateVars, is_online, has_event, ev_from_sqe, sqe_node, lockVars,
                 mainVars, threadVars, raced, spawn_failed, aborted>>

StreamSpec == Init /\ [][Next \/ \E e \in Events : packet_again(e)]_vars /\ Fairness

\* submit_event gives a newcomer a slot although events wait in sqes.
Overtakes == mpc = "poll" /\ mpc' = "lock" /\ sqes # <<>>

\* Every accepted event is handled, however long the stream of events is and
\* however the threads are scheduled, unless the server stops, a spawn fails or a
\* worker leaves under the main thread; or newcomers overtake the queue for ever,
\* each of them taking a slot that has become free since dispatch_sqe looked.
EventuallyHandled ==
  \/ []<><<Overtakes>>_vars
  \/ \A e \in Events : (e \in arrived \ refused) ~> (e \in done \/ ~Undisturbed)

\* Once stop_el is set the main thread leaves its loop and every worker ends,
\* unless an assertion ends them all.
StopsEventually == stop_el ~> Ended

\* gwthread.h asserts need_destroy in every lock, unlock, wait and signal.
NoAssertFailure == ~aborted

\* "We don't have event to be processed here." (handle_thread): a worker that
\* leaves for having been idle leaves no event behind in its slot.
IdleExitHasNoEvent ==
  \A w \in Workers : tpc[w] = "out" /\ ~stop_el => ~has_event[tslot[w]]

\* "All threads are busy, let's enqueue this to SQE." (submit_event), "We don't
\* have free thread, they're all still busy" (dispatch_sqe).
AllBusyWhenStackEmpty ==
  thread_stk = <<>> /\ ~stop_el /\ ~raced => \A s \in Slots : Busy(s)
===============================================================================
