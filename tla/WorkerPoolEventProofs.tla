-------------------------- MODULE WorkerPoolEventProofs --------------------------
(***************************************************************************)
(* Where a node and an event can be.  QueueInv and NodeInv are inductive   *)
(* relative to TypeOK; RaceInv is, relative to TypeOK and SlotInv; and     *)
(* EventInv relative to all of these.                                      *)
(***************************************************************************)
EXTENDS WorkerPoolSlotProofs

USE DEF vars, stateVars, slotVars, lockVars, mainVars, handVars, threadVars, histVars,
        InitStack, TakeNode, AfterStore, ShouldLeave, FreeNode, PushSlot, MakeLock

\* The types the event layer needs.
EventTypes ==
  /\ SlotTypes /\ sqes \in Seq(Events)
  /\ ev_from_sqe \in [Slots -> BOOLEAN]
  /\ pkt \in [Slots -> MaybeEvent] /\ sqe_node \in [Slots -> MaybeEvent]
  /\ mev \in MaybeEvent /\ msqe \in BOOLEAN /\ tev \in [Workers -> MaybeEvent]
  /\ arrived \subseteq Events /\ refused \subseteq Events
  /\ done \subseteq Events /\ freed \subseteq Events
  /\ runs \in [Events -> Nat]

\* They are part of TypeOK.
LEMMA EventTypesHold == TypeOK => EventTypes
  BY Zenon, SlotTypesHold DEF TypeOK, EventTypes

\* que_dequeue takes the first node, which is nowhere else in the queue.
LEMMA QueuePop ==
  ASSUME sqes \in Seq(Events), sqes # <<>>, Distinct(sqes), sqes' = Tail(sqes)
  PROVE  /\ Head(sqes) \in Queue /\ Head(sqes) \notin Queue'
         /\ Queue' \subseteq Queue /\ Distinct(sqes')
  <1>1. /\ Len(sqes) \in Nat \ {0} /\ Head(sqes) = sqes[1]
        /\ Len(sqes') = Len(sqes) - 1
        /\ \A i \in 1 .. Len(sqes) - 1 : sqes'[i] = sqes[i + 1]
    BY Zenon, PopFacts
  <1>2. QED
    BY <1>1 DEF Queue, Distinct

\* que_enqueue adds a node that is not in the queue.
LEMMA QueuePush ==
  ASSUME sqes \in Seq(Events), Distinct(sqes), NEW e \in Events, e \notin Queue,
         sqes' = Append(sqes, e)
  PROVE  Queue' = Queue \cup {e} /\ Distinct(sqes') /\ sqes' # <<>>
  <1>1. /\ Len(sqes) \in Nat /\ Len(sqes') = Len(sqes) + 1 /\ sqes'[Len(sqes) + 1] = e
        /\ \A i \in 1 .. Len(sqes) : sqes'[i] = sqes[i]
    BY EnqueueFacts
  <1>2. \A i \in 1 .. Len(sqes') : i = Len(sqes) + 1 \/ (i \in 1 .. Len(sqes) /\ sqes'[i] = sqes[i])
    BY <1>1
  <1>3. QED
    BY <1>1, <1>2 DEF Queue, Distinct

\* The queue holds events.
LEMMA QueueTyped == sqes \in Seq(Events) => Queue \subseteq Events
  BY DEF Queue

-------------------------------------------------------------------------------
(* RaceInv: the main thread and a leaving worker do not meet.              *)

\* No thread leaves a slot before there are threads.
LEMMA InitRace == Init => RaceInv
  BY Zenon DEF Init, RaceInv, NoMeeting, Leaving

\* A worker about to leave shares its slot with nobody.
LEMMA LeaveKeepsNoMeeting ==
  ASSUME EventTypes, SlotInv, NoMeeting, NEW w \in Workers, tpc[w] \in {"wait", "handle"},
         tpc'[w] = "out", Only(w), tslot' = tslot, UNCHANGED <<mpc, mslot>>, ~MainHas(tslot[w])
  PROVE  NoMeeting'
  <1>1. \A v \in Workers : tslot[v] = tslot[w] /\ v # w => tpc[v] \in {"none", "dec"}
    BY Zenon DEF EventTypes, SlotTypes, ThreadPC, SlotInv, OneTenant, Tenant, NoMeeting, Leaving
  <1>2. QED
    BY Zenon, <1>1 DEF NoMeeting, MainHas, Leaving, Only

\* Every step that does not record a race keeps NoMeeting.
LEMMA StepKeepsNoMeeting ==
  ASSUME EventTypes, SlotInv, NoMeeting, ~raced', Next PROVE NoMeeting'
  <1>a. ASSUME UNCHANGED <<tpc, tslot>>, \A s \in Slots : MainHas(s)' => MainHas(s) PROVE NoMeeting'
    BY Zenon, <1>a DEF EventTypes, SlotTypes, NoMeeting, MainHas
  <1>b. ASSUME NEW w \in Workers, Only(w), tslot' = tslot \/ tpc'[w] = "none", UNCHANGED <<mpc, mslot>>,
               tpc'[w] \in Leaving => tpc[w] \in Leaving,
               tpc[w] \in {"none", "dec"} => tpc'[w] \in {"none", "dec"}
        PROVE  NoMeeting'
    BY <1>b DEF NoMeeting, MainHas, Leaving, Only
  <1>c. ASSUME NEW s \in Slots, ClaimSlot(s), UNCHANGED <<tpc, tslot>> PROVE NoMeeting'
    <2>1. \A w \in Workers : tslot[w] = s => tpc[w] \notin Leaving
      BY Zenon, <1>c DEF ClaimSlot
    <2>2. QED
      BY Zenon, <1>c, <2>1 DEF ClaimSlot, NoMeeting, MainHas
  <1>1. CASE MainStep
    <2> USE DEF MainAt, MainHas, MainClaiming, MainHolding
    <2>1. CASE run_event_loop_top \/ run_event_loop_next
      BY Zenon, <2>1, <1>a DEF run_event_loop_top, run_event_loop_next
    <2>2. CASE dispatch_sqe
      BY Zenon, <2>2, <1>a, <1>c DEF dispatch_sqe
    <2>3. CASE main_lock \/ main_acquire \/ main_fill \/ main_mark \/ main_store \/ main_signal
      BY Zenon, <2>3, <1>a DEF main_lock, main_acquire, main_fill, main_mark, main_store, main_signal
    <2>4. CASE main_unlock
      BY Zenon, <2>4, <1>a DEF main_unlock
    <2>5. CASE spawn_thread
      <3>1. CASE UNCHANGED <<tpc, tslot>>
        BY Zenon, <2>5, <3>1, <1>a DEF spawn_thread
      <3>2. ASSUME NEW w \in Workers, tpc[w] = "none",
                   tpc' = [tpc EXCEPT ![w] = "start"], tslot' = [tslot EXCEPT ![w] = mslot]
            PROVE  NoMeeting'
        <4>1. Only(w) /\ tpc'[w] = "start" /\ tslot'[w] = mslot /\ mpc = "spawn" /\ mpc' = "poll"
          BY Zenon, <2>5, <3>2 DEF EventTypes, SlotTypes, spawn_thread, Only
        <4>2. \A v \in Workers : tslot[v] = mslot => tpc[v] \notin Leaving
          BY Zenon, <4>1 DEF NoMeeting
        <4>3. QED
          BY <4>1, <4>2 DEF NoMeeting, Leaving, Only
      <3>3. QED
        BY Zenon, <2>5, <3>1, <3>2 DEF spawn_thread
    <2>6. QED
      BY Zenon, <1>1, <2>1, <2>2, <2>3, <2>4, <2>5 DEF MainStep
  <1>2. ASSUME NEW w \in Workers, WorkerStep(w) PROVE NoMeeting'
    <2> USE DEF At, Goto
    <2>0. tpc \in [Workers -> ThreadPC]
      BY Zenon DEF EventTypes, SlotTypes
    <2>1. CASE handle_thread_start(w)
      <3>1. Only(w) /\ tpc[w] = "start" /\ tpc'[w] = "lock" /\ tslot' = tslot
        BY Zenon, <2>0, <2>1 DEF handle_thread_start, Only
      <3>2. QED
        BY Zenon, <2>1, <3>1, <1>b DEF handle_thread_start, Leaving
    <2>2. CASE handle_thread_again(w)
      <3>1. Only(w) /\ tpc[w] = "lock" /\ tpc'[w] \in {"handle", "wait"} /\ tslot' = tslot
        BY Zenon, <2>0, <2>2 DEF handle_thread_again, BeginHandler, EnterWait, Only
      <3>2. QED
        BY Zenon, <2>2, <3>1, <1>b DEF handle_thread_again, Leaving
    <2>3. ASSUME NEW timedout \in BOOLEAN, handle_thread_wake(w, timedout) PROVE NoMeeting'
      <3>1. /\ Only(w) /\ tpc[w] = "wait" /\ tpc'[w] \in {"handle", "wait", "out"} /\ tslot' = tslot
            /\ UNCHANGED <<mpc, mslot>>
        BY Zenon, <2>0, <2>3 DEF handle_thread_wake, BeginHandler, EnterWait, Only
      <3>2. CASE tpc'[w] = "out"
        <4>1. tslot[w] \in Stacked
          BY Zenon, <2>0, <2>3, <3>2 DEF handle_thread_wake, BeginHandler, EnterWait
        <4>2. ~MainHas(tslot[w])
          BY Zenon, <4>1 DEF SlotInv, ClaimInv
        <4>3. QED
          BY Zenon, <3>1, <3>2, <4>2, LeaveKeepsNoMeeting
      <3>3. CASE tpc'[w] # "out"
        BY Zenon, <3>1, <3>3, <1>b DEF Leaving
      <3>4. QED
        BY Zenon, <3>2, <3>3
    <2>4. CASE handle_thread_handled(w)
      <3>1. /\ Only(w) /\ tpc[w] = "handle" /\ tpc'[w] \in {"push", "out"} /\ tslot' = tslot
            /\ UNCHANGED <<mpc, mslot>>
        BY Zenon, <2>0, <2>4 DEF handle_thread_handled, Only
      <3>2. ~MainHas(tslot[w])
        BY Zenon, <3>1 DEF SlotInv, ClaimInv
      <3>3. CASE tpc'[w] = "out"
        BY Zenon, <3>1, <3>2, <3>3, LeaveKeepsNoMeeting
      <3>4. CASE tpc'[w] = "push"
        BY Zenon, <3>1, <3>4, <1>b DEF Leaving
      <3>5. QED
        BY Zenon, <3>1, <3>3, <3>4
    <2>5. CASE handle_thread_push(w) \/ handle_thread_unlock(w)
      <3>1. /\ Only(w) /\ tslot' = tslot /\ UNCHANGED <<mpc, mslot>>
            /\ \/ tpc[w] \in {"push", "unlock"} /\ tpc'[w] \in {"unlock", "lock"}
               \/ tpc[w] = "out" /\ tpc'[w] = "destroy_lock"
        BY Zenon, <2>0, <2>5 DEF handle_thread_push, handle_thread_unlock, Only
      <3>2. QED
        BY Zenon, <3>1, <1>b DEF Leaving
    <2>6. CASE handle_thread_destroy(w) \/ reset_thread(w)
      <3>1. /\ Only(w) /\ tslot' = tslot /\ UNCHANGED <<mpc, mslot>>
            /\ tpc[w] \in Leaving /\ tpc'[w] # "none"
        BY Zenon, <2>0, <2>6 DEF handle_thread_destroy, reset_thread, Only, Leaving
      <3>2. QED
        BY Zenon, <3>1, <1>b DEF Leaving
    <2>7. CASE handle_thread_return(w)
      <3>1. Only(w) /\ tpc'[w] = "none" /\ tpc[w] = "dec" /\ UNCHANGED <<mpc, mslot>>
        BY Zenon, <2>0, <2>7 DEF handle_thread_return, EventTypes, SlotTypes, Only
      <3>2. QED
        BY Zenon, <3>1, <1>b DEF Leaving
    <2>8. QED
      BY Zenon, <1>2, <2>1, <2>2, <2>3, <2>4, <2>5, <2>6, <2>7 DEF WorkerStep
  <1>3. ASSUME NEW e \in Events, submit_event(e) PROVE NoMeeting'
    BY Zenon, <1>3, <1>a, <1>c DEF submit_event, MainHas
  <1>4. CASE run_event_loop_exit
    BY Zenon, <1>4, <1>a DEF run_event_loop_exit, MainAt, MainHas, MainClaiming, MainHolding
  <1>5. CASE handle_interrupt \/ abort \/ Terminated
    BY Zenon, <1>5, <1>a DEF handle_interrupt, abort, Terminated, MainHas
  <1>6. QED
    BY Zenon, <1>1, <1>2, <1>3, <1>4, <1>5 DEF Next, Step

\* raced and aborted are never taken back; only abort sets aborted.
LEMMA RaceFlags ==
  ASSUME Next PROVE (raced' = raced \/ raced' = TRUE) /\ (aborted' = aborted \/ abort)
  <1>1. ASSUME MainStep PROVE (raced' = raced \/ raced' = TRUE) /\ aborted' = aborted
    BY Zenon, <1>1 DEF MainStep, run_event_loop_top, dispatch_sqe, run_event_loop_next, main_lock, main_acquire,
                main_fill, main_mark, main_store, main_signal, main_unlock, spawn_thread, ClaimSlot
  <1>2. ASSUME NEW w \in Workers, WorkerStep(w) PROVE (raced' = raced \/ raced' = TRUE) /\ aborted' = aborted
    BY Zenon, <1>2 DEF WorkerStep, handle_thread_start, handle_thread_again, handle_thread_wake,
                handle_thread_handled, handle_thread_push, handle_thread_unlock,
                handle_thread_destroy, reset_thread, handle_thread_return
  <1>3. ASSUME NEW e \in Events, submit_event(e) PROVE (raced' = raced \/ raced' = TRUE) /\ aborted' = aborted
    BY Zenon, <1>3 DEF submit_event, ClaimSlot
  <1>4. CASE run_event_loop_exit \/ handle_interrupt \/ abort \/ Terminated
    BY Zenon, <1>4 DEF run_event_loop_exit, handle_interrupt, abort, Terminated
  <1>5. QED
    BY Zenon, <1>1, <1>2, <1>3, <1>4 DEF Next, Step

\* RaceInv is an invariant of the pool: the main thread shares no slot with a
\* leaving worker before a race is recorded.
THEOREM RaceSafety == Spec => []RaceInv
  <1>1. TypeOK /\ SlotInv /\ RaceInv /\ [Next]_vars => RaceInv'
    <2> SUFFICES ASSUME TypeOK, SlotInv, RaceInv, [Next]_vars PROVE RaceInv'
      OBVIOUS
    <2>1. CASE UNCHANGED vars
      BY Zenon, <2>1 DEF RaceInv, NoMeeting, MainHas
    <2>2. ASSUME Next, ~raced' PROVE NoMeeting'
      <3>1. ~raced
        BY Zenon, <2>2, RaceFlags DEF TypeOK
      <3>2. QED
        BY Zenon, <2>2, <3>1, EventTypesHold, StepKeepsNoMeeting DEF RaceInv
    <2>3. QED
      BY Zenon, <2>1, <2>2 DEF RaceInv
  <1>2. QED
    BY InitRace, TypeCorrect, SlotSafety, <1>1, PTL DEF Spec

-------------------------------------------------------------------------------
(* QueueInv and NodeInv: where a node of the queue can be.                 *)

\* The queue is empty at first, and no slot has a node.
LEMMA InitNode == Init => QueueInv /\ NodeInv
  <1> SUFFICES ASSUME Init PROVE QueueInv /\ NodeInv
    OBVIOUS
  <1>1. Queue = {} /\ Distinct(sqes)
    BY DEF Init, Queue, Distinct
  <1>2. QueueInv
    BY Zenon, <1>1 DEF Init, QueueInv, Unfilled
  <1>3. NodeInv
    BY Zenon DEF Init, NodeInv
  <1>4. QED
    BY Zenon, <1>2, <1>3

\* A step that moves no node.
NodesStay ==
  /\ UNCHANGED <<sqes, sqe_node, freed, arrived>>
  /\ \/ mpc' = mpc /\ UNCHANGED <<mev, msqe>>
     \/ mpc \in {"lock", "acquire"} /\ mpc' \in {"acquire", "fill"} /\ UNCHANGED <<mev, msqe>>
     \/ mpc = "mark" /\ mpc' = "store" /\ UNCHANGED <<mev, msqe>>
     \/ mpc' \notin Unfilled /\ (mpc' \in {"top", "poll"} => mev' = NoEvent /\ ~msqe')

\* Such a step keeps the queue and the nodes in order.
LEMMA StayKeepsNodes ==
  ASSUME QueueInv, NodeInv, NodesStay PROVE QueueInv' /\ NodeInv'
  <1>1. Queue' = Queue /\ UNCHANGED <<sqes, sqe_node, freed, arrived>>
    BY Zenon DEF NodesStay, Queue
  <1>2. \A e : InHands(e)' => InHands(e)
    BY Zenon DEF NodesStay, InHands, Unfilled
  <1>3. NodeInv'
    BY Zenon, <1>1, <1>2 DEF NodeInv
  <1>4. Distinct(sqes)' /\ (Queue \subseteq arrived)'
    BY Zenon, <1>1 DEF QueueInv, Distinct
  <1>5. mpc' \in Unfilled /\ mev' # NoEvent => mev' \in arrived' /\ mev' \notin Queue'
    BY Zenon, <1>1, <1>2 DEF QueueInv, InHands
  <1>6. QueueInv'
    BY <1>1, <1>4, <1>5 DEF QueueInv, NodesStay, Unfilled
  <1>7. QED
    BY Zenon, <1>3, <1>6

\* A new event is no node yet: submit_event takes it in hand, queues it as a new
\* node, or refuses it.
LEMMA SubmitKeepsNodes ==
  ASSUME EventTypes, QueueInv, NodeInv, NEW e \in Events, submit_event(e) PROVE QueueInv' /\ NodeInv'
  <1>1. /\ mpc = "poll" /\ mev = NoEvent /\ ~msqe /\ e \notin arrived /\ arrived' = arrived \cup {e}
        /\ UNCHANGED <<sqe_node, freed>> /\ msqe' = msqe
    BY Zenon DEF submit_event, MainAt, QueueInv
  <1>2. e \notin Queue /\ e # NoEvent /\ (\A s \in Slots : sqe_node[s] # e) /\ e \notin freed
    BY Zenon, <1>1, ValueFacts DEF QueueInv, NodeInv
  <1>3. \/ sqes' = sqes /\ mpc' = "lock" /\ mev' = e
        \/ sqes' = Append(sqes, e) /\ UNCHANGED <<mpc, mev>>
        \/ UNCHANGED <<sqes, mpc, mev>>
    BY Zenon DEF submit_event, ClaimSlot
  <1>4. Distinct(sqes') /\ (Queue' = Queue \/ (Queue' = Queue \cup {e} /\ mpc' = "poll"))
    <2>1. CASE sqes' = sqes
      BY Zenon, <2>1 DEF Queue, QueueInv
    <2>2. CASE sqes' = Append(sqes, e) /\ UNCHANGED <<mpc, mev>>
      BY Zenon, <1>1, <1>2, <2>2, QueuePush DEF EventTypes, QueueInv
    <2>3. QED
      BY Zenon, <1>3, <2>1, <2>2
  <1>5. \A x : InHands(x)' => x = e /\ Queue' = Queue
    BY Zenon, <1>1, <1>3, <1>4 DEF InHands, Unfilled
  <1>6. QueueInv'
    BY Zenon, <1>1, <1>2, <1>3, <1>4 DEF QueueInv, Unfilled
  <1>7. NodeInv'
    BY Zenon, <1>1, <1>2, <1>4, <1>5 DEF NodeInv
  <1>8. QED
    BY Zenon, <1>6, <1>7

\* dispatch_sqe takes the first node out of the queue and into its hands.
LEMMA FillKeepsNodes ==
  ASSUME EventTypes, QueueInv, NodeInv, main_fill PROVE QueueInv' /\ NodeInv'
  <1>1. /\ mpc = "fill" /\ mpc' = "mark" /\ UNCHANGED <<sqe_node, freed, arrived, msqe>>
        /\ \/ ~msqe /\ UNCHANGED <<sqes, mev>>
           \/ msqe /\ sqes # <<>> /\ mev' = Head(sqes) /\ sqes' = Tail(sqes)
    BY Zenon DEF main_fill, MainAt
  <1>2. CASE ~msqe /\ UNCHANGED <<sqes, mev>>
    <2>1. mev # NoEvent /\ Queue' = Queue
      BY Zenon, <1>1, <1>2 DEF QueueInv, Queue
    <2>2. \A x : InHands(x)' <=> InHands(x)
      BY Zenon, <1>1, <1>2 DEF InHands, Unfilled
    <2>3. QueueInv' /\ NodeInv'
      BY Zenon, <1>1, <1>2, <2>1, <2>2 DEF QueueInv, NodeInv, Unfilled, Distinct
    <2>4. QED
      BY Zenon, <2>3
  <1>3. CASE msqe /\ sqes # <<>> /\ mev' = Head(sqes) /\ sqes' = Tail(sqes)
    <2>1. /\ mev' \in Queue /\ mev' \notin Queue' /\ Queue' \subseteq Queue /\ Distinct(sqes')
      BY Zenon, <1>3, QueuePop DEF EventTypes, QueueInv
    <2>2. mev' # NoEvent /\ mev' \in arrived
      BY Zenon, <2>1, QueueTyped, ValueFacts DEF EventTypes, QueueInv
    <2>3. QueueInv'
      BY Zenon, <1>1, <2>1, <2>2 DEF QueueInv, Unfilled
    <2>4. \A x : InHands(x)' => x \in Queue
      BY Zenon, <2>1 DEF InHands
    <2>5. NodeInv'
      BY Zenon, <1>1, <2>1, <2>4 DEF NodeInv
    <2>6. QED
      BY Zenon, <2>3, <2>5
  <1>4. QED
    BY Zenon, <1>1, <1>2, <1>3

\* The node in the main thread's hands becomes the node of the slot.
LEMMA StoreKeepsNodes ==
  ASSUME EventTypes, QueueInv, NodeInv, main_store PROVE QueueInv' /\ NodeInv'
  <1>1. /\ mpc = "store" /\ mpc' \in {"signal", "unlock_offline"}
        /\ UNCHANGED <<sqes, freed, arrived, mev>>
        /\ sqe_node' = sqe_node \/ sqe_node' = [sqe_node EXCEPT ![mslot] = mev]
    BY Zenon DEF main_store, MainAt
  <1>2. Queue' = Queue /\ (\A x : ~InHands(x)') /\ InHands(mev)
    BY Zenon, <1>1 DEF Queue, InHands, Unfilled
  <1>3. mev # NoEvent /\ mev \in arrived /\ mev \notin Queue /\ mev \notin freed
    BY Zenon, <1>1, <1>2 DEF QueueInv, NodeInv, Unfilled
  <1>4. \A s \in Slots : sqe_node[s] # mev
    BY Zenon, <1>2, <1>3 DEF NodeInv
  <1>5. QueueInv'
    BY Zenon, <1>1, <1>2 DEF QueueInv, Unfilled
  <1>6. NodeInv'
    BY Zenon, <1>1, <1>2, <1>3, <1>4 DEF EventTypes, NodeInv
  <1>7. QED
    BY Zenon, <1>5, <1>6

\* Freeing the node of a slot, or forgetting it, takes it out of every place.
LEMMA DropKeepsNodes ==
  ASSUME EventTypes, QueueInv, NodeInv, NEW s \in Slots,
         UNCHANGED <<sqes, arrived, mpc, mev, msqe>>,
         sqe_node' = [sqe_node EXCEPT ![s] = NoEvent],
         freed' = freed \/ freed' = (freed \cup {sqe_node[s]}) \ {NoEvent}
  PROVE  QueueInv' /\ NodeInv'
  <1>1. Queue' = Queue /\ \A x : InHands(x)' <=> InHands(x)
    BY Zenon DEF Queue, InHands
  <1>2. \A x \in freed' : x \in freed \/ (x = sqe_node[s] /\ x # NoEvent)
    OBVIOUS
  <1>3. \A r \in Slots : sqe_node'[r] # NoEvent => r # s /\ sqe_node'[r] = sqe_node[r]
    BY Zenon DEF EventTypes
  <1>4. QueueInv'
    BY Zenon, <1>1 DEF QueueInv, Distinct
  <1>5. NodeInv'
    <2>1. \A x \in freed' : x \in arrived /\ x \notin Queue /\ ~InHands(x)
      BY Zenon, <1>2 DEF NodeInv
    <2>2. ASSUME NEW r \in Slots, sqe_node'[r] # NoEvent
          PROVE  /\ sqe_node'[r] \in arrived /\ sqe_node'[r] \notin freed' /\ sqe_node'[r] \notin Queue
                 /\ ~InHands(sqe_node'[r])
                 /\ \A q \in Slots : sqe_node'[q] = sqe_node'[r] => q = r
      <3>1. r # s /\ sqe_node'[r] = sqe_node[r]
        BY Zenon, <1>3, <2>2
      <3>2. sqe_node[r] # sqe_node[s]
        BY Zenon, <2>2, <3>1 DEF NodeInv
      <3>3. \A q \in Slots : sqe_node'[q] = sqe_node'[r] => q = r
        BY Zenon, <1>3, <2>2, <3>1 DEF NodeInv
      <3>4. QED
        BY Zenon, <1>2, <2>2, <3>1, <3>2, <3>3 DEF NodeInv
    <2>3. QED
      BY <1>1, <2>1, <2>2 DEF NodeInv, InHands
  <1>6. QED
    BY Zenon, <1>4, <1>5

\* Every step of the pool keeps the queue and the nodes in order.
LEMMA StepKeepsNodes ==
  ASSUME EventTypes, QueueInv, NodeInv, [Next]_vars PROVE QueueInv' /\ NodeInv'
  <1>a. NodesStay => QueueInv' /\ NodeInv'
    BY Zenon, StayKeepsNodes
  <1>b. mpc \in {"top", "poll"} => mev = NoEvent /\ ~msqe
    BY Zenon DEF QueueInv
  <1>1. CASE MainStep
    <2> USE DEF MainAt
    <2>1. CASE run_event_loop_top \/ run_event_loop_next
      <3>1. NodesStay
        BY <2>1, <1>b DEF NodesStay, run_event_loop_top, run_event_loop_next, Unfilled
      <3>2. QED
        BY Zenon, <3>1, <1>a
    <2>2. CASE dispatch_sqe
      <3>1. CASE mpc' = "poll"
        <4>1. NodesStay
          BY <2>2, <3>1, <1>b DEF NodesStay, dispatch_sqe, ClaimSlot, Unfilled
        <4>2. QED
          BY Zenon, <4>1, <1>a
      <3>2. CASE mpc' = "lock"
        <4>1. /\ UNCHANGED <<sqes, sqe_node, freed, arrived, mev>> /\ sqes # <<>> /\ mev = NoEvent
              /\ msqe' = TRUE
          BY Zenon, <2>2, <3>2, <1>b DEF dispatch_sqe
        <4>2. Queue' = Queue /\ \A x \in Events : ~InHands(x)'
          BY Zenon, <4>1, ValueFacts DEF Queue, InHands
        <4>3. QueueInv'
          BY Zenon, <3>2, <4>1, <4>2 DEF QueueInv, Distinct
        <4>4. NodeInv'
          BY Zenon, <4>1, <4>2, ValueFacts DEF EventTypes, NodeInv
        <4>5. QED
          BY Zenon, <4>3, <4>4
      <3>3. QED
        BY Zenon, <2>2, <3>1, <3>2 DEF dispatch_sqe, ClaimSlot
    <2>3. CASE main_lock \/ main_acquire \/ main_mark
      <3>1. NodesStay
        BY Zenon, <2>3 DEF NodesStay, main_lock, main_acquire, main_mark
      <3>2. QED
        BY Zenon, <3>1, <1>a
    <2>4. CASE main_signal \/ main_unlock \/ spawn_thread
      <3>1. NodesStay
        BY Zenon, <2>4 DEF NodesStay, main_signal, main_unlock, spawn_thread, ReleaseHands, Unfilled
      <3>2. QED
        BY Zenon, <3>1, <1>a
    <2>5. QED
      BY Zenon, <1>1, <2>1, <2>2, <2>3, <2>4, FillKeepsNodes, StoreKeepsNodes DEF MainStep
  <1>2. ASSUME NEW w \in Workers, WorkerStep(w) PROVE QueueInv' /\ NodeInv'
    <2>0. tslot[w] \in Slots
      BY Zenon DEF EventTypes, SlotTypes
    <2>1. CASE handle_thread_handled(w) \/ reset_thread(w)
      <3>1. /\ UNCHANGED <<sqes, arrived, mpc, mev, msqe>>
            /\ \/ UNCHANGED <<sqe_node, freed>>
               \/ /\ sqe_node' = [sqe_node EXCEPT ![tslot[w]] = NoEvent]
                  /\ freed' = freed \/ freed' = (freed \cup {sqe_node[tslot[w]]}) \ {NoEvent}
        BY Zenon, <2>1 DEF handle_thread_handled, reset_thread
      <3>2. QED
        BY Zenon, <2>0, <3>1, <1>a, DropKeepsNodes DEF NodesStay
    <2>2. CASE ~(handle_thread_handled(w) \/ reset_thread(w))
      <3>1. NodesStay
        BY Zenon, <1>2, <2>2 DEF NodesStay, WorkerStep, handle_thread_start, handle_thread_again, handle_thread_wake,
                          handle_thread_push, handle_thread_unlock, handle_thread_destroy,
                          handle_thread_return
      <3>2. QED
        BY Zenon, <3>1, <1>a
    <2>3. QED
      BY Zenon, <2>1, <2>2
  <1>3. CASE run_event_loop_exit \/ handle_interrupt \/ abort \/ UNCHANGED vars
    <2>1. NodesStay
      BY Zenon, <1>3 DEF NodesStay, run_event_loop_exit, handle_interrupt, abort, Unfilled
    <2>2. QED
      BY Zenon, <2>1, <1>a
  <1>4. QED
    BY Zenon, <1>1, <1>2, <1>3, SubmitKeepsNodes DEF Next, Step, Terminated

\* No node of the queue is in two places, and none is anywhere once it is freed,
\* in every state, races or not.
THEOREM NodeSafety == Spec => [](QueueInv /\ NodeInv)
  <1>1. TypeOK /\ QueueInv /\ NodeInv /\ [Next]_vars => QueueInv' /\ NodeInv'
    BY Zenon, EventTypesHold, StepKeepsNodes
  <1>2. QED
    BY InitNode, TypeCorrect, <1>1, PTL DEF Spec

\* No queue node is in the queue or in a slot once handle_thread has freed it.
THEOREM NodesAreLive == Spec => []NoUseAfterFree
  <1>1. TypeOK /\ NodeInv => NoUseAfterFree
    BY Zenon, ValueFacts DEF TypeOK, NodeInv, NoUseAfterFree
  <1>2. QED
    BY TypeCorrect, NodeSafety, <1>1, PTL

-------------------------------------------------------------------------------
(* EventInv: where an event can be, before the first race.                 *)

SlotContents == <<has_event, ev_from_sqe, pkt, sqe_node>>

\* No event has arrived yet.
LEMMA InitEvent == Init => Tracked
  <1> SUFFICES ASSUME Init PROVE Tracked
    OBVIOUS
  <1>1. CountInv /\ HandlerInv /\ PendingInv
    BY DEF Init, CountInv, HandlerInv, PendingInv, Pending
  <1>2. Queue = {}
    BY DEF Init, Queue
  <1>3. HandsInv
    BY Zenon, <1>2 DEF Init, HandsInv, Unfilled
  <1>4. QED
    BY Zenon, <1>1, <1>3 DEF Tracked

\* A step that moves no event from one place to another.
Quiet ==
  /\ UNCHANGED <<sqes, SlotContents, tev, arrived, refused, runs, done>>
  /\ \A v \in Workers : tpc'[v] \in {"handle", "reset_sqe", "reset_node"} =>
       tpc'[v] = tpc[v] /\ tslot'[v] = tslot[v]
  /\ \A s \in Slots : Pending(s)' => Pending(s)
  /\ \/ mpc' \notin Unfilled
     \/ /\ mpc \in Unfilled \ {"mark", "store"} /\ mpc' \in Unfilled \ {"mark", "store"}
        /\ UNCHANGED <<mslot, mev, msqe>>
     \/ UNCHANGED mainVars

\* Such a step keeps track of every event.
LEMMA QuietKeepsTracked ==
  ASSUME EventTypes, Tracked, Quiet PROVE Tracked'
  <1>1. /\ UNCHANGED <<sqes, SlotContents, tev, arrived, refused, runs, done>>
        /\ \A v \in Workers : tpc'[v] \in {"handle", "reset_sqe", "reset_node"} =>
             tpc'[v] = tpc[v] /\ tslot'[v] = tslot[v]
    BY Zenon DEF Quiet
  <1>2. Queue' = Queue /\ \A s : SlotEvent(s)' = SlotEvent(s)
    BY Zenon, <1>1 DEF Queue, SlotEvent, SlotContents
  <1>3. \A e : (Waiting(e)' <=> Waiting(e)) /\ (InHands(e)' => InHands(e))
    BY Zenon, <1>1 DEF Quiet, Waiting, InHands
  <1>4. CountInv'
    BY Zenon, <1>1 DEF Tracked, CountInv
  <1>5. HandlerInv'
    BY ZenonT(40), <1>1, <1>2 DEF Tracked, HandlerInv, SlotContents
  <1>6. HandsInv'
    <2>1. \A e \in Queue' : Waiting(e)'
      BY Zenon, <1>2, <1>3 DEF Tracked, HandsInv
    <2>2. mpc' \in Unfilled /\ mev' # NoEvent => mpc \in Unfilled /\ mev' = mev /\ Waiting(mev)'
      BY Zenon, <1>1 DEF Quiet, Tracked, HandsInv, Waiting
    <2>3. mpc' \in {"mark", "store"} => UNCHANGED <<mainVars, ev_from_sqe>>
      BY Zenon, <1>1 DEF Quiet, Unfilled, SlotContents
    <2>4. QED
      BY <1>1, <2>1, <2>2, <2>3 DEF Tracked, HandsInv, Waiting
  <1>7. PendingInv'
    BY Zenon, <1>1, <1>2, <1>3 DEF Tracked, PendingInv, Quiet, Waiting, InHands
  <1>8. QED
    BY Zenon, <1>4, <1>5, <1>6, <1>7 DEF Tracked

\* A new event is taken in hand, queued or refused: it was in no place before.
LEMMA SubmitKeepsTracked ==
  ASSUME EventTypes, QueueInv, NodeInv, Tracked, NEW e \in Events, submit_event(e) PROVE Tracked'
  <1>1. /\ mpc = "poll" /\ mev = NoEvent /\ e \notin arrived /\ arrived' = arrived \cup {e}
        /\ UNCHANGED <<SlotContents, tpc, tslot, tev, runs, done>>
    BY Zenon DEF submit_event, MainAt, SlotContents, QueueInv
  <1>2. runs[e] = 0 /\ e \notin Queue /\ e \notin refused
        /\ \A s \in Slots : Pending(s) => SlotEvent(s) # e
    BY Zenon, <1>1 DEF Tracked, CountInv, QueueInv, PendingInv, Waiting
  <1>3. \/ UNCHANGED <<sqes, refused>> /\ mpc' = "lock" /\ mev' = e
        \/ sqes' = Append(sqes, e) /\ UNCHANGED <<refused, mpc, mev>>
        \/ refused' = refused \cup {e} /\ UNCHANGED <<sqes, mpc, mev>>
    BY Zenon DEF submit_event, ClaimSlot
  <1>4. \A s \in Slots : (Pending(s)' <=> Pending(s)) /\ SlotEvent(s)' = SlotEvent(s)
    BY Zenon, <1>1, <1>3 DEF Pending, SlotEvent, SlotContents, On, Spent
  <1>5. \A x : Waiting(x) => x # e /\ Waiting(x)'
    BY Zenon, <1>1, <1>3 DEF Waiting
  <1>6. CountInv'
    BY Zenon, <1>1, <1>3 DEF EventTypes, Tracked, CountInv
  <1>7. HandlerInv'
    BY Zenon, <1>1 DEF Tracked, HandlerInv, SlotEvent, SlotContents
  <1>8. \A x \in Queue' : x \in Queue \/ (x = e /\ Waiting(e)')
    <2>1. CASE sqes' = sqes
      BY Zenon, <2>1 DEF Queue
    <2>2. CASE sqes' = Append(sqes, e) /\ UNCHANGED <<refused, mpc, mev>>
      <3>1. Queue' = Queue \cup {e}
        BY Zenon, <1>2, <2>2, QueuePush DEF EventTypes, QueueInv
      <3>2. QED
        BY Zenon, <1>1, <1>2, <2>2, <3>1 DEF Waiting
    <2>3. QED
      BY Zenon, <1>3, <2>1, <2>2
  <1>9. HandsInv'
    <2>1. mpc' \in Unfilled => mpc' = "lock" /\ mev' = e /\ Waiting(e)'
      BY Zenon, <1>1, <1>2, <1>3 DEF Unfilled, Waiting
    <2>2. mpc' \notin {"mark", "store"}
      BY Zenon, <1>1, <1>3
    <2>3. QED
      BY Zenon, <1>5, <1>8, <2>1, <2>2 DEF Tracked, HandsInv, Waiting
  <1>10. \A x : InHands(x)' => x = e
    BY Zenon, <1>1, <1>3 DEF InHands, Unfilled
  <1>11. PendingInv'
    BY <1>2, <1>4, <1>5, <1>8, <1>10 DEF Tracked, PendingInv, Waiting
  <1>12. QED
    BY Zenon, <1>6, <1>7, <1>9, <1>11 DEF Tracked

\* Taking the first node of the queue in hand moves a waiting event.
LEMMA FillKeepsTracked ==
  ASSUME EventTypes, SlotInv, QueueInv, Tracked, main_fill PROVE Tracked'
  <1>1. /\ mpc = "fill" /\ mpc' = "mark"
        /\ UNCHANGED <<has_event, pkt, sqe_node, mslot, msqe, tpc, tslot, tev, arrived, refused, runs, done>>
        /\ \/ ~msqe /\ UNCHANGED <<sqes, mev>> /\ ev_from_sqe' = [ev_from_sqe EXCEPT ![mslot] = FALSE]
           \/ /\ msqe /\ sqes # <<>> /\ mev' = Head(sqes) /\ sqes' = Tail(sqes)
              /\ ev_from_sqe' = [ev_from_sqe EXCEPT ![mslot] = TRUE]
    BY Zenon DEF main_fill, MainAt
  <1>2. /\ mslot \in Slots /\ ~has_event[mslot]
        /\ \A w \in Workers : tpc[w] = "handle" => tslot[w] # mslot
    BY Zenon, <1>1 DEF EventTypes, SlotTypes, SlotInv, ClaimInv, MainHas, MainClaiming, MainHolding, Unfilled
  <1>3. \A s \in Slots : s # mslot => SlotEvent(s)' = SlotEvent(s)
    BY Zenon, <1>1, <1>2 DEF EventTypes, SlotEvent
  <1>4. \A s \in Slots : Pending(s)' => Pending(s) /\ s # mslot
    BY Zenon, <1>1, <1>2 DEF Pending, On, Spent
  <1>5. \A x : Waiting(x)' <=> Waiting(x)
    BY Zenon, <1>1 DEF Waiting
  <1>6. /\ Queue' \subseteq Queue /\ Waiting(mev') /\ (InHands(mev') \/ mev' \in Queue)
    <2>1. CASE ~msqe /\ UNCHANGED <<sqes, mev>>
      <3>1. mev # NoEvent
        BY Zenon, <1>1, <2>1 DEF QueueInv
      <3>2. QED
        BY Zenon, <1>1, <2>1, <3>1 DEF Queue, Tracked, HandsInv, InHands, Unfilled
    <2>2. CASE msqe /\ sqes # <<>> /\ mev' = Head(sqes) /\ sqes' = Tail(sqes)
      BY Zenon, <2>2, QueuePop DEF EventTypes, QueueInv, Tracked, HandsInv
    <2>3. QED
      BY Zenon, <1>1, <2>1, <2>2
  <1>7. CountInv'
    BY Zenon, <1>1 DEF Tracked, CountInv
  <1>8. HandlerInv'
    BY <1>1, <1>2, <1>3 DEF EventTypes, SlotTypes, Tracked, HandlerInv
  <1>9. HandsInv'
    <2>1. ev_from_sqe'[mslot] <=> msqe
      BY Zenon, <1>1, <1>2 DEF EventTypes
    <2>2. QED
      BY Zenon, <1>1, <1>5, <1>6, <2>1 DEF Tracked, HandsInv, Waiting
  <1>10. \A x : InHands(x)' => x = mev'
    BY Zenon DEF InHands
  <1>11. PendingInv'
    <2>1. \A s \in Slots : Pending(s)' => SlotEvent(s) # mev'
      BY Zenon, <1>4, <1>6 DEF Tracked, PendingInv
    <2>2. \A s \in Slots : Pending(s)' => Waiting(SlotEvent(s))' /\ ~InHands(SlotEvent(s))' /\ SlotEvent(s)' \notin Queue'
      BY <1>1, <1>3, <1>4, <1>6, <2>1 DEF Tracked, PendingInv, Waiting, InHands
    <2>3. \A r, s \in Slots : Pending(r)' /\ Pending(s)' /\ SlotEvent(r)' = SlotEvent(s)' => r = s
      BY Zenon, <1>3, <1>4 DEF Tracked, PendingInv
    <2>4. QED
      BY Zenon, <2>2, <2>3 DEF PendingInv
  <1>12. QED
    BY Zenon, <1>7, <1>8, <1>9, <1>11 DEF Tracked

\* has_event is set before the event is in the slot: the slot is not pending yet.
LEMMA MarkKeepsTracked ==
  ASSUME EventTypes, SlotInv, NoMeeting, Tracked, main_mark PROVE Tracked'
  <1>1. /\ mpc = "mark" /\ mpc' = "store" /\ has_event' = [has_event EXCEPT ![mslot] = TRUE]
        /\ UNCHANGED <<sqes, ev_from_sqe, pkt, sqe_node, mslot, mev, msqe, tpc, tslot, tev,
                       arrived, refused, runs, done>>
    BY Zenon DEF main_mark, MainAt
  <1>2. mslot \in Slots /\ MainHas(mslot)
    BY Zenon, <1>1 DEF EventTypes, SlotTypes, MainHas, MainClaiming, MainHolding
  <1>3. \A w \in Workers : tpc[w] \in {"handle", "reset_sqe", "reset_node"} => tslot[w] # mslot
    BY Zenon, <1>2 DEF SlotInv, ClaimInv, NoMeeting, Leaving
  <1>4. \A s \in Slots : SlotEvent(s)' = SlotEvent(s) /\ (s # mslot => has_event'[s] = has_event[s])
    BY Zenon, <1>1, <1>2 DEF EventTypes, SlotTypes, SlotEvent
  <1>5. \A s \in Slots : Pending(s)' => Pending(s) /\ s # mslot
    BY Zenon, <1>1, <1>2, <1>4 DEF Pending, On, Spent
  <1>6. Queue' = Queue /\ (\A x : InHands(x)' <=> InHands(x)) /\ (\A x : Waiting(x)' <=> Waiting(x))
    BY Zenon, <1>1 DEF Queue, InHands, Waiting, Unfilled
  <1>7. CountInv'
    BY Zenon, <1>1 DEF Tracked, CountInv
  <1>8. HandlerInv'
    <2>1. \A w \in Workers : tpc[w] \in {"handle", "reset_sqe", "reset_node"} =>
             tslot[w] \in Slots /\ has_event'[tslot[w]] = has_event[tslot[w]]
      BY Zenon, <1>3, <1>4 DEF EventTypes, SlotTypes
    <2>2. \A w \in Workers : SlotEvent(tslot[w])' = SlotEvent(tslot[w])
      BY Zenon, <1>1, <1>4 DEF EventTypes, SlotTypes
    <2>3. QED
      BY Zenon, <1>1, <2>1, <2>2 DEF Tracked, HandlerInv
  <1>9. HandsInv'
    BY Zenon, <1>1, <1>6 DEF Tracked, HandsInv, Unfilled, Waiting
  <1>10. PendingInv'
    BY ZenonT(40), <1>1, <1>4, <1>5, <1>6 DEF Tracked, PendingInv, Waiting, InHands, Unfilled
  <1>11. QED
    BY Zenon, <1>7, <1>8, <1>9, <1>10 DEF Tracked

\* Storing the event moves it from the main thread's hands into the slot.
LEMMA StoreKeepsTracked ==
  ASSUME EventTypes, SlotInv, QueueInv, Tracked, main_store PROVE Tracked'
  <1>1. /\ mpc = "store" /\ mpc' \in {"signal", "unlock_offline"}
        /\ UNCHANGED <<sqes, has_event, ev_from_sqe, mslot, mev, msqe, tpc, tslot, tev,
                       arrived, refused, runs, done>>
        /\ \/ ~msqe /\ pkt' = [pkt EXCEPT ![mslot] = mev] /\ UNCHANGED sqe_node
           \/ msqe /\ sqe_node' = [sqe_node EXCEPT ![mslot] = mev] /\ UNCHANGED pkt
    BY Zenon DEF main_store, MainAt
  <1>2. /\ mslot \in Slots /\ (ev_from_sqe[mslot] <=> msqe) /\ Waiting(mev)
        /\ InHands(mev) /\ mev \notin Queue
    BY Zenon, <1>1 DEF EventTypes, SlotTypes, QueueInv, Tracked, HandsInv, InHands, Unfilled
  <1>3. SlotEvent(mslot)' = mev /\ \A s \in Slots : s # mslot => SlotEvent(s)' = SlotEvent(s)
    BY Zenon, <1>1, <1>2 DEF EventTypes, SlotEvent
  <1>4. \A w \in Workers : tpc[w] = "handle" => tslot[w] # mslot
    BY Zenon, <1>1 DEF SlotInv, ClaimInv, MainHas, MainClaiming, MainHolding
  <1>5. \A s \in Slots : Pending(s)' => s = mslot \/ Pending(s)
    BY Zenon, <1>1 DEF Pending, On, Spent
  <1>6. Queue' = Queue /\ (\A x : ~InHands(x)') /\ (\A x : Waiting(x)' <=> Waiting(x))
    BY Zenon, <1>1 DEF Queue, InHands, Waiting, Unfilled
  <1>7. CountInv'
    BY Zenon, <1>1 DEF Tracked, CountInv
  <1>8. HandlerInv'
    BY <1>1, <1>3, <1>4 DEF EventTypes, SlotTypes, Tracked, HandlerInv
  <1>9. HandsInv'
    BY Zenon, <1>1, <1>6 DEF Tracked, HandsInv, Unfilled
  <1>10. PendingInv'
    <2>1. \A s \in Slots : s # mslot /\ Pending(s) => SlotEvent(s) # mev
      BY Zenon, <1>2 DEF Tracked, PendingInv
    <2>2. ASSUME NEW s \in Slots, Pending(s)'
          PROVE  SlotEvent(s)' \notin Queue' /\ Waiting(SlotEvent(s))'
      <3>1. CASE s = mslot
        BY Zenon, <1>1, <1>2, <1>3, <1>6, <3>1 DEF Waiting
      <3>2. CASE s # mslot
        BY <1>1, <1>3, <1>5, <1>6, <2>2, <3>2 DEF Tracked, PendingInv, Waiting
      <3>3. QED
        BY Zenon, <3>1, <3>2
    <2>3. \A r, s \in Slots : Pending(r)' /\ Pending(s)' /\ SlotEvent(r)' = SlotEvent(s)' => r = s
      <3> SUFFICES ASSUME NEW r \in Slots, NEW s \in Slots, Pending(r)', Pending(s)',
                          SlotEvent(r)' = SlotEvent(s)', r # s
                   PROVE  FALSE
        OBVIOUS
      <3>1. CASE r # mslot /\ s # mslot
        BY Zenon, <1>3, <1>5, <3>1 DEF Tracked, PendingInv
      <3>2. CASE r = mslot
        <4>1. Pending(s) /\ SlotEvent(s) = mev
          BY Zenon, <1>1, <1>3, <1>5, <3>2
        <4>2. QED
          BY Zenon, <2>1, <3>2, <4>1
      <3>3. CASE s = mslot
        <4>1. Pending(r) /\ SlotEvent(r) = mev
          BY Zenon, <1>1, <1>3, <1>5, <3>3
        <4>2. QED
          BY Zenon, <2>1, <3>3, <4>1
      <3>4. QED
        BY Zenon, <3>1, <3>2, <3>3
    <2>4. QED
      BY Zenon, <1>6, <2>2, <2>3 DEF PendingInv, InHands
  <1>11. QED
    BY Zenon, <1>7, <1>8, <1>9, <1>10 DEF Tracked

\* A handler is started on a waiting event, which then waits nowhere.
LEMMA BeginKeepsTracked ==
  ASSUME EventTypes, SlotInv, Tracked, NEW w \in Workers, tpc[w] \in {"lock", "wait"},
         ev_lock[tslot[w]] = "free", has_event[tslot[w]], BeginHandler(w, tslot[w]),
         UNCHANGED <<sqes, SlotContents, mainVars, tslot, arrived, refused, done>>
  PROVE  Tracked'
  <1> DEFINE s == tslot[w]
             e == SlotEvent(s)
  <1>1. s \in Slots /\ Only(w) /\ tpc'[w] = "handle" /\ tev'[w] = e
        /\ \A v \in Workers : v # w => tev'[v] = tev[v]
    BY Zenon DEF EventTypes, SlotTypes, BeginHandler, Goto, Only
  <1>2. Pending(s)
    <2>1. ~MainHas(s)
      BY Zenon, FoundIsUnclaimed DEF EventTypes
    <2>2. QED
      BY Zenon, <2>1 DEF SlotInv, OneTenant, Pending, Spent, Tenant, On, MainHas, MainClaiming, MainHolding
  <1>3. e \in Events /\ Waiting(e) /\ ~InHands(e) /\ e \notin Queue
    BY Zenon, <1>1, <1>2 DEF Tracked, PendingInv, Waiting
  <1>4. runs[e] = 0 /\ runs'[e] = 1 /\ \A x \in Events : x # e => runs'[x] = runs[x]
    BY <1>3 DEF EventTypes, BeginHandler, Waiting
  <1>5. Queue' = Queue /\ (\A r : SlotEvent(r)' = SlotEvent(r)) /\ (\A x : InHands(x)' <=> InHands(x))
    BY Zenon DEF Queue, SlotEvent, InHands, SlotContents
  <1>6. \A r \in Slots : Pending(r)' => Pending(r) /\ r # s
    BY Zenon, <1>1 DEF Pending, On, Spent, SlotContents, Only
  <1>7. \A x : Waiting(x) /\ x # e => Waiting(x)'
    BY Zenon, <1>4 DEF Waiting
  <1>8. CountInv'
    BY SMTT(20), <1>3, <1>4 DEF EventTypes, Tracked, CountInv, Waiting
  <1>9. HandlerInv'
    <2>1. \A v \in Workers : tpc[v] = "handle" => tev[v] # e /\ tev[v] \in Events
      BY <1>4 DEF Tracked, HandlerInv
    <2>2. e \notin done
      BY <1>4 DEF Tracked, CountInv
    <2>3. QED
      BY <1>1, <1>3, <1>4, <1>5, <2>1, <2>2 DEF Tracked, HandlerInv, Only, SlotContents
  <1>10. HandsInv'
    BY Zenon, <1>3, <1>5, <1>7 DEF Tracked, HandsInv, InHands, SlotContents
  <1>11. PendingInv'
    <2>1. \A r \in Slots : Pending(r)' => SlotEvent(r) # e
      BY Zenon, <1>1, <1>2, <1>6 DEF Tracked, PendingInv
    <2>2. \A r \in Slots : Pending(r)' => Waiting(SlotEvent(r))'
      BY Zenon, <1>4, <1>5, <1>6, <2>1 DEF Tracked, PendingInv, Waiting
    <2>3. QED
      BY Zenon, <1>5, <1>6, <2>2 DEF Tracked, PendingInv, InHands
  <1>12. QED
    BY Zenon, <1>8, <1>9, <1>10, <1>11 DEF Tracked

\* The handler returns: its event is done, its slot not pending.
LEMMA HandledKeepsTracked ==
  ASSUME EventTypes, SlotInv, Tracked, NEW w \in Workers, handle_thread_handled(w)
  PROVE  Tracked'
  <1> DEFINE s == tslot[w]
             e == tev[w]
  <1>1. /\ tpc[w] = "handle" /\ Only(w) /\ s \in Slots
        /\ UNCHANGED <<sqes, ev_from_sqe, pkt, mpc, mslot, mev, msqe, tslot, arrived, refused, runs>>
        /\ \A v \in Workers : v # w => tev'[v] = tev[v]
    BY Zenon DEF EventTypes, SlotTypes, handle_thread_handled, At, Goto, Only
  <1>2. \/ tpc'[w] = "out" /\ has_event' = has_event
        \/ tpc'[w] = "push" /\ has_event' = [has_event EXCEPT ![s] = FALSE]
    BY Zenon DEF EventTypes, SlotTypes, handle_thread_handled, Goto
  <1>3. runs[e] = 1 /\ e \in Events /\ done' = done \cup {e}
    <2>1. runs[e] = 1 /\ e \in Events
      BY Zenon, <1>1 DEF Tracked, HandlerInv
    <2>2. done' = (done \cup {e}) \ {NoEvent}
      BY Zenon DEF handle_thread_handled
    <2>3. QED
      BY Zenon, <2>1, <2>2, ValueFacts DEF EventTypes
  <1>4. sqe_node' = sqe_node \/ sqe_node' = [sqe_node EXCEPT ![s] = NoEvent]
    BY Zenon DEF handle_thread_handled
  <1>5. \A r \in Slots : r # s => SlotEvent(r)' = SlotEvent(r) /\ has_event'[r] = has_event[r]
    BY Zenon, <1>1, <1>2, <1>4 DEF EventTypes, SlotTypes, SlotEvent
  <1>6. \A r \in Slots : Pending(r)' => Pending(r) /\ r # s
    <2>1. \A r \in Slots : r # s /\ Pending(r)' => Pending(r)
      BY Zenon, <1>1, <1>5 DEF Pending, On, Spent, Only
    <2>2. CASE tpc'[w] = "out"
      <3>1. On(w, s)' /\ Spent(w)'
        BY Zenon, <1>1, <2>2 DEF On, Spent
      <3>2. \A r \in Slots : r = s => ~Pending(r)'
        BY Zenon, <1>1, <3>1 DEF Pending, On
      <3>3. QED
        BY Zenon, <2>1, <3>2
    <2>3. CASE has_event' = [has_event EXCEPT ![s] = FALSE]
      <3>1. \A r \in Slots : r = s => ~Pending(r)'
        BY Zenon, <1>1, <2>3 DEF EventTypes, SlotTypes, Pending
      <3>2. QED
        BY Zenon, <2>1, <3>1
    <2>4. QED
      BY Zenon, <1>2, <2>2, <2>3
  <1>7. \A v \in Workers : tpc'[v] \in {"handle", "reset_sqe", "reset_node"} =>
          tpc'[v] = tpc[v] /\ v # w /\ tslot[v] # s /\ tev'[v] = tev[v]
    BY Zenon, <1>1, <1>2 DEF SlotInv, OneTenant, Tenant, Only
  <1>8. Queue' = Queue /\ (\A x : InHands(x)' <=> InHands(x)) /\ (\A x : Waiting(x)' <=> Waiting(x))
    BY Zenon, <1>1 DEF Queue, InHands, Waiting
  <1>9. CountInv'
    BY Zenon, <1>1, <1>3 DEF Tracked, CountInv
  <1>10. HandlerInv'
    <2>1. \A v \in Workers : tpc'[v] \in {"handle", "reset_sqe", "reset_node"} =>
             /\ tslot[v] \in Slots /\ has_event'[tslot[v]] = has_event[tslot[v]]
             /\ SlotEvent(tslot[v])' = SlotEvent(tslot[v])
      BY Zenon, <1>1, <1>5, <1>7 DEF EventTypes, SlotTypes
    <2>2. \A v \in Workers : tpc'[v] = "handle" => tev[v] # e
      BY ZenonT(40), <1>1, <1>7 DEF Tracked, HandlerInv
    <2>3. QED
      BY <1>1, <1>3, <1>7, <2>1, <2>2 DEF Tracked, HandlerInv
  <1>11. HandsInv'
    BY Zenon, <1>1, <1>8 DEF Tracked, HandsInv, Waiting
  <1>12. PendingInv'
    <2>1. \A r \in Slots : Pending(r)' => Waiting(SlotEvent(r))' /\ ~InHands(SlotEvent(r))' /\ SlotEvent(r)' \notin Queue'
      BY <1>1, <1>5, <1>6, <1>8 DEF Tracked, PendingInv, Waiting, InHands
    <2>2. \A q, r \in Slots : Pending(q)' /\ Pending(r)' /\ SlotEvent(q)' = SlotEvent(r)' => q = r
      BY Zenon, <1>5, <1>6 DEF Tracked, PendingInv
    <2>3. QED
      BY Zenon, <2>1, <2>2 DEF PendingInv
  <1>13. QED
    BY Zenon, <1>9, <1>10, <1>11, <1>12 DEF Tracked

\* reset_thread empties a slot that nobody else uses.
LEMMA ClearKeepsTracked ==
  ASSUME EventTypes, SlotInv, NoMeeting, Tracked, NEW w \in Workers,
         tpc[w] \in {"reset_event", "reset_sqe", "reset_node"},
         tpc'[w] \in {"reset_sqe", "reset_node", "init_lock"}, Only(w),
         UNCHANGED <<sqes, pkt, mainVars, tslot, tev, arrived, refused, runs, done>>,
         \/ tpc[w] = "reset_event" /\ has_event' = [has_event EXCEPT ![tslot[w]] = FALSE]
         \/ tpc[w] # "reset_event" /\ has_event' = has_event,
         ev_from_sqe' = ev_from_sqe \/ ev_from_sqe' = [ev_from_sqe EXCEPT ![tslot[w]] = FALSE],
         sqe_node' = sqe_node \/ sqe_node' = [sqe_node EXCEPT ![tslot[w]] = NoEvent]
  PROVE  Tracked'
  <1> DEFINE s == tslot[w]
  <1>1. s \in Slots /\ ~has_event'[s]
    BY DEF EventTypes, SlotTypes, Tracked, HandlerInv
  <1>2. \A r \in Slots : r # s => /\ SlotEvent(r)' = SlotEvent(r) /\ has_event'[r] = has_event[r]
                                 /\ ev_from_sqe'[r] = ev_from_sqe[r]
    BY Zenon, <1>1 DEF EventTypes, SlotTypes, SlotEvent
  <1>3. \A r \in Slots : Pending(r)' => Pending(r) /\ r # s
    BY Zenon, <1>1, <1>2 DEF Pending, On, Spent, Only
  <1>4. \A v \in Workers : v # w /\ tpc'[v] \in {"handle", "reset_sqe", "reset_node"} =>
          tpc[v] = tpc'[v] /\ tslot[v] # s
    BY Zenon DEF SlotInv, OneTenant, Tenant, Only
  <1>5. Queue' = Queue /\ (\A x : InHands(x)' <=> InHands(x)) /\ (\A x : Waiting(x)' <=> Waiting(x))
    BY Zenon DEF Queue, InHands, Waiting
  <1>6. CountInv'
    BY Zenon DEF Tracked, CountInv
  <1>7. HandlerInv'
    <2>1. \A v \in Workers : v # w /\ tpc'[v] \in {"handle", "reset_sqe", "reset_node"} =>
             /\ tslot[v] \in Slots /\ has_event'[tslot[v]] = has_event[tslot[v]]
             /\ SlotEvent(tslot[v])' = SlotEvent(tslot[v])
      BY Zenon, <1>2, <1>4 DEF EventTypes, SlotTypes
    <2>2. QED
      BY <1>1, <1>4, <2>1 DEF Tracked, HandlerInv
  <1>8. HandsInv'
    <2>1. mpc \in {"mark", "store"} => mslot # s /\ mslot \in Slots
      BY Zenon DEF EventTypes, SlotTypes, NoMeeting, Leaving, MainHas, MainClaiming, MainHolding
    <2>2. QED
      BY Zenon, <1>2, <1>5, <2>1 DEF Tracked, HandsInv, Waiting
  <1>9. PendingInv'
    <2>1. \A r \in Slots : Pending(r)' => Waiting(SlotEvent(r))' /\ ~InHands(SlotEvent(r))' /\ SlotEvent(r)' \notin Queue'
      BY ZenonT(40), <1>2, <1>3, <1>5 DEF Tracked, PendingInv, Waiting, InHands
    <2>2. \A q, r \in Slots : Pending(q)' /\ Pending(r)' /\ SlotEvent(q)' = SlotEvent(r)' => q = r
      BY <1>2, <1>3 DEF Tracked, PendingInv
    <2>3. QED
      BY Zenon, <2>1, <2>2 DEF PendingInv
  <1>10. QED
    BY Zenon, <1>6, <1>7, <1>8, <1>9 DEF Tracked


\* Before the first race every step keeps track of every event.
LEMMA StepKeepsTracked ==
  ASSUME EventTypes, SlotInv, QueueInv, NodeInv, NoMeeting, Tracked, [Next]_vars PROVE Tracked'
  <1>a. ASSUME UNCHANGED <<sqes, SlotContents, tpc, tslot, tev, arrived, refused, runs, done>>,
               \A s \in Slots : Pending(s)' => Pending(s),
               \/ mpc' \notin Unfilled
               \/ /\ mpc \in Unfilled \ {"mark", "store"} /\ mpc' \in Unfilled \ {"mark", "store"}
                  /\ UNCHANGED <<mslot, mev, msqe>>
               \/ UNCHANGED mainVars
        PROVE  Tracked'
    <2>1. Quiet
      BY Zenon, <1>a DEF Quiet
    <2>2. QED
      BY Zenon, <2>1, QuietKeepsTracked
  <1>b. ASSUME NEW w \in Workers, Only(w), tpc'[w] \notin {"handle", "reset_sqe", "reset_node"},
               UNCHANGED <<sqes, SlotContents, tev, arrived, refused, runs, done>>,
               tslot'[w] = tslot[w] \/ ~Spent(w), Spent(w) => Spent(w)',
               UNCHANGED mainVars \/ (mpc \notin Unfilled /\ mpc' \notin Unfilled)
        PROVE  Tracked'
    <2>1. \A s \in Slots : Pending(s)' => Pending(s)
      BY Zenon, <1>b DEF Pending, On, Spent, SlotContents, Only, Unfilled
    <2>2. Quiet
      BY Zenon, <1>b, <2>1 DEF Quiet, SlotContents, Only
    <2>3. QED
      BY Zenon, <2>2, QuietKeepsTracked
  <1>c. ASSUME UNCHANGED <<SlotContents, tpc, tslot>>, mpc \notin {"store"} \/ UNCHANGED <<mpc, mslot>>
        PROVE  \A s \in Slots : Pending(s)' => Pending(s)
    BY Zenon, <1>c DEF Pending, On, Spent, SlotContents
  <1>1. CASE MainStep
    <2> USE DEF MainAt, SlotContents, Unfilled
    <2>1. CASE run_event_loop_top \/ run_event_loop_next
      BY Zenon, <2>1, <1>a, <1>c DEF run_event_loop_top, run_event_loop_next
    <2>2. CASE dispatch_sqe
      <3>1. CASE mpc' = "poll"
        BY Zenon, <2>2, <3>1, <1>a, <1>c DEF dispatch_sqe, ClaimSlot
      <3>2. CASE mpc' = "lock"
        <4>1. /\ UNCHANGED <<sqes, SlotContents, tpc, tslot, tev, arrived, refused, runs, done, mev>>
              /\ sqes # <<>> /\ mev = NoEvent /\ mpc = "top"
          BY Zenon, <2>2 DEF dispatch_sqe, QueueInv
        <4>2. Queue' = Queue /\ (\A s : SlotEvent(s)' = SlotEvent(s)) /\ (\A s \in Slots : Pending(s)' => Pending(s))
          BY Zenon, <4>1, <1>c DEF Queue, SlotEvent
        <4>3. (\A x \in Events : ~InHands(x)') /\ (\A x : Waiting(x)' <=> Waiting(x))
          BY Zenon, <4>1, ValueFacts DEF InHands, Waiting
        <4>4. CountInv' /\ HandlerInv'
          BY Zenon, <4>1, <4>2 DEF Tracked, CountInv, HandlerInv
        <4>5. HandsInv'
          BY Zenon, <3>2, <4>1, <4>2, <4>3 DEF Tracked, HandsInv
        <4>6. PendingInv'
          <5>1. \A s \in Slots : Pending(s)' => Waiting(SlotEvent(s))' /\ ~InHands(SlotEvent(s))'
            BY Zenon, <4>1, <4>2, <4>3 DEF Tracked, PendingInv, Waiting, InHands
          <5>2. QED
            BY Zenon, <4>2, <5>1 DEF Tracked, PendingInv
        <4>7. QED
          BY Zenon, <4>4, <4>5, <4>6 DEF Tracked
      <3>3. QED
        BY Zenon, <2>2, <3>1, <3>2 DEF dispatch_sqe, ClaimSlot
    <2>3. CASE main_lock \/ main_acquire
      BY Zenon, <2>3, <1>a, <1>c DEF main_lock, main_acquire, handVars
    <2>4. CASE main_signal \/ main_unlock
      BY Zenon, <2>4, <1>a, <1>c DEF main_signal, main_unlock, ReleaseHands
    <2>5. CASE spawn_thread
      <3>1. CASE UNCHANGED <<tpc, tslot>>
        BY Zenon, <2>5, <3>1, <1>a, <1>c DEF spawn_thread, ReleaseHands
      <3>2. ASSUME NEW w \in Workers, tpc[w] = "none",
                   tpc' = [tpc EXCEPT ![w] = "start"], tslot' = [tslot EXCEPT ![w] = mslot]
            PROVE  Tracked'
        <4>1. Only(w) /\ tpc'[w] = "start" /\ ~Spent(w)
          BY Zenon, <3>2 DEF EventTypes, SlotTypes, Only, Spent
        <4>2. QED
          BY Zenon, <2>5, <4>1, <1>b DEF spawn_thread, ReleaseHands
      <3>3. QED
        BY Zenon, <2>5, <3>1, <3>2 DEF spawn_thread
    <2>6. QED
      BY Zenon, <1>1, <2>1, <2>2, <2>3, <2>4, <2>5, FillKeepsTracked, MarkKeepsTracked, StoreKeepsTracked DEF MainStep
  <1>2. ASSUME NEW w \in Workers, WorkerStep(w) PROVE Tracked'
    <2> USE DEF At, Goto, SlotContents
    <2>1. CASE handle_thread_start(w)
      <3>1. Only(w) /\ tpc'[w] = "lock" /\ ~Spent(w)
        BY Zenon, <2>1 DEF EventTypes, SlotTypes, handle_thread_start, Only, Spent
      <3>2. QED
        BY Zenon, <2>1, <3>1, <1>b DEF handle_thread_start
    <2>2. CASE handle_thread_again(w)
      <3>1. CASE has_event[tslot[w]]
        BY Zenon, <2>2, <3>1, BeginKeepsTracked DEF handle_thread_again
      <3>2. CASE ~has_event[tslot[w]]
        <4>1. Only(w) /\ tpc'[w] = "wait" /\ ~Spent(w)
          BY Zenon, <2>2, <3>2 DEF EventTypes, SlotTypes, handle_thread_again, EnterWait, Only, Spent
        <4>2. QED
          BY Zenon, <2>2, <3>2, <4>1, <1>b DEF handle_thread_again, EnterWait
      <3>3. QED
        BY Zenon, <3>1, <3>2
    <2>3. ASSUME NEW timedout \in BOOLEAN, handle_thread_wake(w, timedout) PROVE Tracked'
      <3>1. CASE BeginHandler(w, tslot[w])
        <4>1. /\ tpc[w] = "wait" /\ ev_lock[tslot[w]] = "free" /\ tpc'[w] = "handle"
              /\ UNCHANGED <<sqes, SlotContents, mainVars, tslot, arrived, refused, done>>
          BY Zenon, <2>3, <3>1 DEF handle_thread_wake, BeginHandler, EventTypes, SlotTypes
        <4>2. has_event[tslot[w]]
          BY Zenon, <2>3, <4>1 DEF handle_thread_wake, EnterWait, EventTypes, SlotTypes
        <4>3. QED
          BY Zenon, <3>1, <4>1, <4>2, BeginKeepsTracked
      <3>2. CASE ~BeginHandler(w, tslot[w])
        <4>1. Only(w) /\ tpc'[w] \in {"wait", "out"} /\ ~Spent(w)
          BY Zenon, <2>3, <3>2 DEF EventTypes, SlotTypes, handle_thread_wake, EnterWait, Only, Spent
        <4>2. QED
          BY Zenon, <2>3, <3>2, <4>1, <1>b DEF handle_thread_wake, EnterWait
      <3>3. QED
        BY Zenon, <3>1, <3>2
    <2>4. CASE handle_thread_handled(w)
      BY Zenon, <2>4, HandledKeepsTracked
    <2>5. CASE handle_thread_push(w)
      <3>1. Only(w) /\ tpc'[w] = "unlock" /\ ~Spent(w)
        BY Zenon, <2>5 DEF EventTypes, SlotTypes, handle_thread_push, Only, Spent
      <3>2. QED
        BY Zenon, <2>5, <3>1, <1>b DEF handle_thread_push
    <2>6. CASE handle_thread_unlock(w)
      <3>1. Only(w) /\ tpc'[w] \in {"lock", "destroy_lock"} /\ (Spent(w) => Spent(w)')
        BY Zenon, <2>6 DEF EventTypes, SlotTypes, handle_thread_unlock, Only, Spent
      <3>2. QED
        BY Zenon, <2>6, <3>1, <1>b DEF handle_thread_unlock
    <2>7. CASE handle_thread_destroy(w)
      <3>1. Only(w) /\ tpc'[w] \in {"destroy_cond", "reset_online"} /\ Spent(w)'
        BY Zenon, <2>7 DEF EventTypes, SlotTypes, handle_thread_destroy, Only, Spent
      <3>2. QED
        BY Zenon, <2>7, <3>1, <1>b DEF handle_thread_destroy
    <2>8. CASE reset_thread(w)
      <3>0. Only(w) /\ UNCHANGED <<sqes, pkt, mainVars, tslot, tev, arrived, refused, runs, done>>
        BY Zenon, <2>8 DEF EventTypes, SlotTypes, reset_thread, Only
      <3>1. CASE tpc[w] \in {"reset_event", "reset_sqe", "reset_node"}
        <4>1. /\ tpc'[w] \in {"reset_sqe", "reset_node", "init_lock"}
              /\ \/ tpc[w] = "reset_event" /\ has_event' = [has_event EXCEPT ![tslot[w]] = FALSE]
                 \/ tpc[w] # "reset_event" /\ has_event' = has_event
              /\ ev_from_sqe' = ev_from_sqe \/ ev_from_sqe' = [ev_from_sqe EXCEPT ![tslot[w]] = FALSE]
              /\ sqe_node' = sqe_node \/ sqe_node' = [sqe_node EXCEPT ![tslot[w]] = NoEvent]
          BY Zenon, <2>8, <3>1 DEF EventTypes, SlotTypes, reset_thread
        <4>2. QED
          BY Zenon, <3>0, <3>1, <4>1, ClearKeepsTracked
      <3>2. CASE tpc[w] \notin {"reset_event", "reset_sqe", "reset_node"}
        <4>1. tpc'[w] \in {"reset_event", "init_cond", "dec"} /\ (Spent(w) => Spent(w)')
          BY Zenon, <2>8, <3>2 DEF EventTypes, SlotTypes, reset_thread, Spent
        <4>2. QED
          BY Zenon, <2>8, <3>0, <3>2, <4>1, <1>b DEF reset_thread
      <3>3. QED
        BY Zenon, <3>1, <3>2
    <2>9. CASE handle_thread_return(w)
      <3>1. Only(w) /\ tpc'[w] = "none" /\ ~Spent(w)
        BY Zenon, <2>9 DEF EventTypes, SlotTypes, handle_thread_return, Only, Spent
      <3>2. QED
        BY Zenon, <2>9, <3>1, <1>b DEF handle_thread_return
    <2>10. QED
      BY Zenon, <1>2, <2>1, <2>2, <2>3, <2>4, <2>5, <2>6, <2>7, <2>8, <2>9 DEF WorkerStep
  <1>3. CASE run_event_loop_exit
    BY Zenon, <1>3, <1>a, <1>c DEF run_event_loop_exit, SlotContents, Unfilled, MainAt
  <1>4. CASE handle_interrupt \/ abort \/ UNCHANGED vars
    BY Zenon, <1>4, <1>a, <1>c DEF handle_interrupt, abort, SlotContents
  <1>5. QED
    BY Zenon, <1>1, <1>2, <1>3, <1>4, SubmitKeepsTracked DEF Next, Step, Terminated

\* EventInv is an invariant of the pool: until the first race no event is in two
\* places, and its handler was started at most once, whatever the main
\* thread and the workers do.
THEOREM EventSafety == Spec => []EventInv
  <1>1. TypeOK /\ SlotInv /\ QueueInv /\ NodeInv /\ RaceInv /\ EventInv /\ [Next]_vars => EventInv'
    <2> SUFFICES ASSUME TypeOK, SlotInv, QueueInv, NodeInv, RaceInv, EventInv, [Next]_vars, ~raced'
                 PROVE  Tracked'
      BY Zenon DEF EventInv
    <2>1. ~raced
      BY Zenon, RaceFlags
    <2>2. QED
      BY Zenon, <2>1, EventTypesHold, StepKeepsTracked DEF RaceInv, EventInv
  <1>2. Init => EventInv
    BY Zenon, InitEvent DEF EventInv
  <1>3. QED
    BY TypeCorrect, SlotSafety, NodeSafety, RaceSafety, <1>1, <1>2, PTL DEF Spec

\* No event is handled twice, however workers leave and are replaced, until one
\* leaves under the main thread.
THEOREM HandledAtMostOnce == Spec => []AtMostOnce
  <1>1. EventInv => AtMostOnce
    BY Zenon DEF EventInv, Tracked, CountInv, AtMostOnce
  <1>2. QED
    BY EventSafety, <1>1, PTL

===============================================================================
