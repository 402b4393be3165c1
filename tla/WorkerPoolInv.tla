----------------------------- MODULE WorkerPoolInv -----------------------------
(***************************************************************************)
(* The inductive invariant of WorkerPool, in layers: who may touch a slot  *)
(* (SlotInv), where a queue node can be (NodeInv); as long as no worker    *)
(* has left a slot the main thread has claimed, that the two never meet    *)
(* (RaceInv), where an event can be (EventInv), that no assertion fails    *)
(* (AbortOnlyByRace); and what holds as long as the pool is undisturbed    *)
(* (FlowInv).                                                              *)
(***************************************************************************)
EXTENDS WorkerPool

\* Positions of a thread that destroyed ev_lock and has not made it again.
Unmade == {"destroy_cond", "reset_online", "reset_event", "reset_sqe", "reset_node",
           "init_lock"}

\* And of one that destroyed ev_cond.
Condless == {"reset_online", "reset_event", "reset_sqe", "reset_node", "init_lock", "init_cond"}

\* A thread that still writes to its slot, or uses its ev_lock.
Tenant(w) == tpc[w] \notin {"none", "init_cond", "dec"}

On(w, s) == tslot[w] = s

\* A slot has one tenant.  This rests on the assertion in the unlock of
\* submit_to_thread: a thread is spawned only once the slot has a mutex again.
OneTenant == \A v, w \in Workers : Tenant(v) /\ Tenant(w) /\ tslot[v] = tslot[w] => v = w

\* The mutex of a slot is missing exactly while its tenant is at Unmade; the
\* condition variable only while a thread is on its way from one to the other.
MadeInv ==
  /\ \A w \in Workers : tpc[w] \in Unmade => ~lock_init[tslot[w]]
  /\ \A s \in Slots : ~lock_init[s] => \E w \in Workers : On(w, s) /\ tpc[w] \in Unmade
  /\ \A s \in Slots : ~cond_init[s] =>
       \E w \in Workers : On(w, s) /\ tpc[w] \in Condless

\* Positions of a thread that will not lock or unlock ev_lock again.
Past == Unmade \cup {"none", "init_cond", "dec"}

\* A worker in its critical section has the mutex; the main thread has it or,
\* if it locked a mutex that was being destroyed, nobody else will use it.
MutexInv ==
  /\ \A w \in Workers : tpc[w] \in Holding => ev_lock[tslot[w]] = w
  /\ mpc \in MainHolding =>
       \/ ev_lock[mslot] = "main"
       \/ \A w \in Workers : On(w, mslot) => tpc[w] \in Past

\* A thread before its first "again" is on a slot that is offline.
Fresh(w) == tpc[w] = "start" \/ (tpc[w] = "lock" /\ ~is_online[tslot[w]])

OnlineInv ==
  /\ \A w \in Workers : Owner(w) /\ tpc[w] \notin {"start", "lock"} => is_online[tslot[w]]
  /\ \A w \in Workers : tpc[w] = "start" => ~is_online[tslot[w]]
  /\ \A s \in Slots : is_online[s] => \E w \in Workers : On(w, s) /\ Owner(w)

\* A slot is claimed by one party: it is on the stack, or the main thread has
\* it, or a thread is about to handle or to push it.
ClaimInv ==
  /\ Distinct(thread_stk)
  /\ \A s \in Stacked : ~has_event[s] /\ ~MainHas(s)
  /\ \A w \in Workers : Fresh(w) \/ tpc[w] \in {"handle", "push"} =>
       ~MainHas(tslot[w]) /\ tslot[w] \notin Stacked
  /\ \A w \in Workers : tpc[w] = "push" => ~has_event[tslot[w]]
  /\ mpc \in Unfilled \ {"store"} => ~has_event[mslot]
  /\ mpc \in {"unlock_offline", "spawn"} => \A w \in Workers : On(w, mslot) => ~Owner(w)
  /\ mpc = "spawn" => lock_init[mslot]

SlotInv == OneTenant /\ MadeInv /\ MutexInv /\ OnlineInv /\ ClaimInv

InHands(e) == mpc \in Unfilled /\ mev = e

\* The queue holds each event once, and none that is in the main thread's hands.
\* dispatch_sqe has no event before it has dequeued one, and finds one to dequeue.
QueueInv ==
  /\ Distinct(sqes)
  /\ Queue \subseteq arrived
  /\ mpc \in Unfilled /\ mev # NoEvent => mev \in arrived /\ mev \notin Queue
  /\ mpc \in {"lock", "acquire", "fill"} => IF msqe THEN mev = NoEvent /\ sqes # <<>>
                                                     ELSE mev # NoEvent
  /\ mpc \in {"mark", "store"} => mev # NoEvent
  /\ mpc \in {"top", "poll"} => mev = NoEvent /\ ~msqe

\* A node is in at most one of the queue, the main thread's hands and the slots,
\* and in none of them once it is freed.  (A race may lose it altogether.)
NodeInv ==
  /\ \A s \in Slots : sqe_node[s] # NoEvent =>
       /\ sqe_node[s] \in arrived /\ sqe_node[s] \notin freed /\ sqe_node[s] \notin Queue
       /\ \A r \in Slots : sqe_node[r] = sqe_node[s] => r = s
       /\ ~InHands(sqe_node[s])
  /\ \A e \in freed : e \in arrived /\ e \notin Queue /\ ~InHands(e)

\* Before the first race the main thread and a leaving worker never share a
\* slot, nor do a leaving worker and any other.
NoMeeting ==
  /\ \A w \in Workers : tpc[w] \in Leaving => ~MainHas(tslot[w])
  /\ \A v, w \in Workers :
       tpc[v] \in Leaving /\ tpc[w] \notin {"none", "dec"} /\ tslot[v] = tslot[w] => v = w

RaceInv == ~raced => NoMeeting

\* Positions in which the event of the slot has been started, or is dropped.
Spent(w) == tpc[w] \in {"handle", "out", "destroy_lock", "destroy_cond", "reset_online", "reset_event"}

\* The slot holds an event that nobody has started.  (main_mark sets has_event
\* before main_store puts the event there.)
Pending(s) ==
  /\ has_event[s] /\ ~(mpc = "store" /\ mslot = s)
  /\ \A w \in Workers : On(w, s) => ~Spent(w)

Waiting(e) == e \in Events /\ e \in arrived /\ e \notin refused /\ runs[e] = 0

\* An event is started at most once, and only if it arrived and was accepted.
CountInv ==
  /\ \A e \in Events : runs[e] <= 1
  /\ \A e \in Events : e \notin arrived => runs[e] = 0
  /\ \A e \in done : runs[e] = 1
  /\ refused \subseteq arrived

\* The handler of a slot works on the event that is in the slot; a slot is empty
\* while the fields that say where its event is are being reset.
HandlerInv ==
  /\ \A w \in Workers : tpc[w] = "handle" =>
       /\ has_event[tslot[w]] /\ tev[w] = SlotEvent(tslot[w]) /\ tev[w] \in Events
       /\ runs[tev[w]] = 1 /\ tev[w] \notin done
  /\ \A v, w \in Workers : tpc[v] = "handle" /\ tpc[w] = "handle" /\ tev[v] = tev[w] => v = w
  /\ \A w \in Workers : tpc[w] \in {"reset_sqe", "reset_node"} => ~has_event[tslot[w]]

\* The queue and the hands of the main thread hold waiting events.  Between the
\* writes of main_fill and main_store ev_from_sqe says where the event will be.
HandsInv ==
  /\ \A e \in Queue : Waiting(e)
  /\ mpc \in Unfilled /\ mev # NoEvent => Waiting(mev)
  /\ mpc \in {"mark", "store"} => (ev_from_sqe[mslot] <=> msqe)

\* A slot holds a waiting event that is in no other place.
PendingInv ==
  \A s \in Slots : Pending(s) =>
    /\ Waiting(SlotEvent(s)) /\ ~InHands(SlotEvent(s)) /\ SlotEvent(s) \notin Queue
    /\ \A r \in Slots : Pending(r) /\ SlotEvent(r) = SlotEvent(s) => r = s

Tracked == CountInv /\ HandlerInv /\ HandsInv /\ PendingInv
EventInv == ~raced => Tracked

\* Positions in which the main thread has filled a slot and not let go of it.
Filled == {"store", "signal", "unlock", "unlock_offline", "spawn"}

Flow ==
  /\ mpc \in Filled => has_event[mslot]
  /\ mpc \in {"signal", "unlock"} => is_online[mslot]
  /\ \A e \in arrived \ refused : Kept(e)
  /\ \A s \in Slots : s \in Stacked \/ Busy(s)

FlowInv == Undisturbed => Flow

IInv ==
  /\ TypeOK /\ SlotInv /\ QueueInv /\ NodeInv
  /\ RaceInv /\ EventInv /\ AbortOnlyByRace
  /\ FlowInv
===============================================================================
