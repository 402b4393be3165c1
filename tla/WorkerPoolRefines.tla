---------------------------- MODULE WorkerPoolRefines ----------------------------
(***************************************************************************)
(* The worker pool implements the abstract dispatcher: until a worker      *)
(* leaves under the main thread every step is a step of Dispatcher, or     *)
(* leaves what the dispatcher knows unchanged.                             *)
(***************************************************************************)
EXTENDS WorkerPoolEventProofs

USE DEF vars, stateVars, slotVars, lockVars, mainVars, handVars, threadVars, histVars,
        InitStack, TakeNode, AfterStore, ShouldLeave, FreeNode, PushSlot, MakeLock

\* Each slot is running an event, or none.
LEMMA RunningTyped ==
  ASSUME tev \in [Workers -> MaybeEvent] PROVE running \in [Slots -> MaybeEvent]
  <1>1. \A s \in Slots : Handlers(s) # {} => (CHOOSE w \in Handlers(s) : TRUE) \in Workers
    BY Zenon DEF Handlers
  <1>2. QED
    BY Zenon, <1>1, ValueFacts DEF running

\* What a slot is running is what its only handler works on.
LEMMA RunningOf ==
  ASSUME EventTypes, SlotInv, NEW s \in Slots
  PROVE  /\ \A w \in Workers : tpc[w] = "handle" /\ tslot[w] = s => running[s] = tev[w]
         /\ (\A w \in Workers : tslot[w] = s => tpc[w] # "handle") => running[s] = NoEvent
  <1>1. ASSUME NEW w \in Workers, tpc[w] = "handle", tslot[w] = s PROVE running[s] = tev[w]
    <2>1. Handlers(s) = {w}
      BY Zenon, <1>1 DEF Handlers, SlotInv, OneTenant, Tenant
    <2>2. (CHOOSE x \in Handlers(s) : TRUE) = w
      BY Zenon, <2>1
    <2>3. QED
      BY Zenon, <2>1, <2>2 DEF running
  <1>2. ASSUME \A w \in Workers : tslot[w] = s => tpc[w] # "handle" PROVE running[s] = NoEvent
    BY Zenon, <1>2 DEF Handlers, running
  <1>3. QED
    BY Zenon, <1>1, <1>2

\* A step that starts and ends no handler changes nothing that is running.
LEMMA RunningStays ==
  ASSUME tev \in [Workers -> MaybeEvent], UNCHANGED tev,
         \A v \in Workers : /\ tpc'[v] = "handle" <=> tpc[v] = "handle"
                            /\ tpc[v] = "handle" => tslot'[v] = tslot[v]
  PROVE  running' = running
  <1>1. \A s \in Slots : Handlers(s)' = Handlers(s)
    BY Zenon DEF Handlers
  <1>2. \A s \in Slots : running'[s] = running[s]
    <2> SUFFICES ASSUME NEW s \in Slots PROVE running'[s] = running[s]
      OBVIOUS
    <2>1. (CHOOSE w \in Handlers(s)' : TRUE) = (CHOOSE w \in Handlers(s) : TRUE)
      BY Zenon, <1>1
    <2>2. QED
      BY Zenon, <1>1, <2>1 DEF running
  <1>3. running \in [Slots -> MaybeEvent]
    BY Zenon, RunningTyped
  <1>4. \A s \in Slots : running'[s] \in MaybeEvent
    BY Zenon, <1>2, <1>3
  <1>5. running' \in [Slots -> MaybeEvent]
    BY Zenon, <1>4 DEF running
  <1>6. QED
    BY <1>2, <1>3, <1>5

\* Starting a handler is Start of the dispatcher.
LEMMA BeginStarts ==
  ASSUME EventTypes, EventTypes', SlotInv, SlotInv', Tracked,
         NEW w \in Workers, tpc[w] \in {"lock", "wait"},
         ev_lock[tslot[w]] = "free", has_event[tslot[w]], BeginHandler(w, tslot[w]),
         UNCHANGED <<tslot, arrived, refused, done>>
  PROVE  D!Next
  <1> DEFINE s == tslot[w]
             e == SlotEvent(s)
  <1>1. /\ s \in Slots /\ Only(w) /\ tpc'[w] = "handle" /\ tev'[w] = e
        /\ \A v \in Workers : v # w => tev'[v] = tev[v]
    BY Zenon DEF EventTypes, SlotTypes, BeginHandler, Goto, Only
  <1>2. Pending(s) /\ \A v \in Workers : tslot[v] = s => tpc[v] # "handle"
    <2>1. ~MainHas(s)
      BY Zenon, FoundIsUnclaimed DEF EventTypes
    <2>2. QED
      BY Zenon, <2>1 DEF SlotInv, OneTenant, Pending, Spent, Tenant, On, MainHas, MainClaiming, MainHolding
  <1>3. e \in Events /\ e \in arrived /\ e \notin refused /\ runs[e] = 0
    BY Zenon, <1>1, <1>2 DEF Tracked, PendingInv, Waiting
  <1>4. e \notin done /\ \A v \in Workers : tpc[v] = "handle" => tev[v] # e
    BY <1>3 DEF Tracked, CountInv, HandlerInv
  <1>5. running[s] = NoEvent
    BY Zenon, <1>1, <1>2, RunningOf
  <1>6. \A r \in Slots : running[r] # e
    <2> SUFFICES ASSUME NEW r \in Slots PROVE running[r] # e
      OBVIOUS
    <2>1. CASE \E v \in Workers : tpc[v] = "handle" /\ tslot[v] = r
      BY Zenon, <1>4, <2>1, RunningOf
    <2>2. CASE \A v \in Workers : tslot[v] = r => tpc[v] # "handle"
      BY ZenonT(40), <1>3, <2>2, RunningOf, ValueFacts
    <2>3. QED
      BY Zenon, <2>1, <2>2
  <1>7. running' = [running EXCEPT ![s] = e]
    <2>1. \A r \in Slots : running'[r] = IF r = s THEN e ELSE running[r]
      <3> SUFFICES ASSUME NEW r \in Slots PROVE running'[r] = IF r = s THEN e ELSE running[r]
        OBVIOUS
      <3>1. CASE r = s
        <4>1. Handlers(r)' = {w}
          BY Zenon, <1>1, <1>2, <3>1 DEF Handlers, Only
        <4>2. (CHOOSE x \in Handlers(r)' : TRUE) = w
          BY Zenon, <4>1
        <4>3. QED
          BY Zenon, <1>1, <3>1, <4>1, <4>2 DEF running
      <3>2. CASE r # s
        <4>1. Handlers(r)' = Handlers(r) /\ w \notin Handlers(r)
          BY Zenon, <1>1, <3>2 DEF Handlers, Only
        <4>2. Handlers(r) # {} => (CHOOSE x \in Handlers(r) : TRUE) \in Workers \ {w}
          BY Zenon, <4>1 DEF Handlers
        <4>3. QED
          BY ZenonT(40), <1>1, <3>2, <4>1, <4>2 DEF running
      <3>3. QED
        BY Zenon, <3>1, <3>2
    <2>2. running \in [Slots -> MaybeEvent]
      BY Zenon, RunningTyped DEF EventTypes
    <2>3. \A r \in Slots : running'[r] \in MaybeEvent
      BY Zenon, <1>1, <1>3, <2>1, <2>2, ValueFacts
    <2>4. running' \in [Slots -> MaybeEvent]
      BY Zenon, <2>3 DEF running
    <2>5. QED
      BY Zenon, <1>1, <2>1, <2>2, <2>4
  <1>8. D!Start(s, e)
    BY Zenon, <1>3, <1>4, <1>5, <1>6, <1>7 DEF D!Start
  <1>9. QED
    BY Zenon, <1>1, <1>3, <1>8 DEF D!Next

\* The return of a handler is Finish of the dispatcher.
LEMMA HandledFinishes ==
  ASSUME EventTypes, SlotInv, Tracked, NEW w \in Workers, handle_thread_handled(w)
  PROVE  D!Next
  <1> DEFINE s == tslot[w]
  <1>1. /\ s \in Slots /\ Only(w) /\ tpc[w] = "handle" /\ tpc'[w] # "handle"
        /\ UNCHANGED <<tslot, arrived, refused>> /\ done' = (done \cup {tev[w]}) \ {NoEvent}
        /\ \A v \in Workers : v # w => tev'[v] = tev[v]
    BY Zenon DEF EventTypes, SlotTypes, handle_thread_handled, At, Goto, Only
  <1>2. running[s] = tev[w] /\ tev[w] # NoEvent /\ done' = done \cup {tev[w]}
    <2>1. tev[w] \in Events
      BY Zenon, <1>1 DEF Tracked, HandlerInv
    <2>2. QED
      BY <1>1, <2>1, RunningOf, ValueFacts DEF EventTypes
  <1>3. \A v \in Workers : tslot[v] = s /\ v # w => tpc[v] # "handle"
    BY Zenon, <1>1 DEF SlotInv, OneTenant, Tenant
  <1>4. running' = [running EXCEPT ![s] = NoEvent]
    <2>1. \A r \in Slots : running'[r] = IF r = s THEN NoEvent ELSE running[r]
      <3> SUFFICES ASSUME NEW r \in Slots PROVE running'[r] = IF r = s THEN NoEvent ELSE running[r]
        OBVIOUS
      <3>1. CASE r = s
        <4>1. Handlers(r)' = {}
          BY Zenon, <1>1, <1>3, <3>1 DEF Handlers, Only
        <4>2. QED
          BY Zenon, <3>1, <4>1 DEF running
      <3>2. CASE r # s
        <4>1. Handlers(r)' = Handlers(r) /\ w \notin Handlers(r)
          BY Zenon, <1>1, <3>2 DEF Handlers, Only
        <4>2. Handlers(r) # {} => (CHOOSE x \in Handlers(r) : TRUE) \in Workers \ {w}
          BY Zenon, <4>1 DEF Handlers
        <4>3. QED
          BY Zenon, <1>1, <3>2, <4>1, <4>2 DEF running
      <3>3. QED
        BY Zenon, <3>1, <3>2
    <2>2. running \in [Slots -> MaybeEvent]
      BY Zenon, RunningTyped DEF EventTypes
    <2>3. \A r \in Slots : running'[r] \in MaybeEvent
      BY Zenon, <1>1, <2>1, <2>2, ValueFacts
    <2>4. running' \in [Slots -> MaybeEvent]
      BY Zenon, <2>3 DEF running
    <2>5. QED
      BY Zenon, <1>1, <2>1, <2>2, <2>4
  <1>5. D!Finish(s)
    BY Zenon, <1>1, <1>2, <1>4 DEF D!Finish
  <1>6. QED
    BY Zenon, <1>1, <1>5 DEF D!Next

\* Before the first race every step of the pool is a step of the dispatcher, or
\* leaves the events alone.
LEMMA StepRefines ==
  ASSUME EventTypes, EventTypes', SlotInv, SlotInv', Tracked, [Next]_vars
  PROVE  D!Next \/ UNCHANGED <<arrived, refused, running, done>>
  <1>a. ASSUME UNCHANGED <<tev, arrived, refused, done>>,
               \A v \in Workers : /\ tpc'[v] = "handle" <=> tpc[v] = "handle"
                                  /\ tpc[v] = "handle" => tslot'[v] = tslot[v]
        PROVE  UNCHANGED <<arrived, refused, running, done>>
    BY Zenon, <1>a, RunningStays DEF EventTypes
  <1>b. ASSUME NEW w \in Workers, Only(w), UNCHANGED <<tev, arrived, refused, done>>,
               tpc[w] # "handle", tpc'[w] # "handle"
        PROVE  UNCHANGED <<arrived, refused, running, done>>
    BY Zenon, <1>a, <1>b DEF Only
  <1>c. tpc \in [Workers -> ThreadPC]
    BY Zenon DEF EventTypes, SlotTypes
  <1>1. ASSUME MainStep PROVE UNCHANGED <<arrived, refused, running, done>>
    <2>1. CASE spawn_thread
      <3>1. CASE UNCHANGED <<tpc, tslot>>
        BY Zenon, <2>1, <3>1, <1>a DEF spawn_thread
      <3>2. ASSUME NEW w \in Workers, tpc[w] = "none",
                   tpc' = [tpc EXCEPT ![w] = "start"], tslot' = [tslot EXCEPT ![w] = mslot]
            PROVE  UNCHANGED <<arrived, refused, running, done>>
        <4>1. Only(w) /\ tpc'[w] = "start"
          BY Zenon, <1>c, <3>2 DEF EventTypes, SlotTypes, Only
        <4>2. QED
          BY Zenon, <2>1, <3>2, <4>1, <1>b DEF spawn_thread
      <3>3. QED
        BY Zenon, <2>1, <3>1, <3>2 DEF spawn_thread
    <2>2. CASE ~spawn_thread
      <3>1. UNCHANGED <<tpc, tslot, tev, arrived, refused, done>>
        BY Zenon, <1>1, <2>2 DEF MainStep, run_event_loop_top, dispatch_sqe, run_event_loop_next, main_lock,
                          main_acquire, main_fill, main_mark, main_store, main_signal, main_unlock
      <3>2. QED
        BY Zenon, <3>1, <1>a
    <2>3. QED
      BY Zenon, <2>1, <2>2
  <1>2. ASSUME NEW w \in Workers, WorkerStep(w) PROVE D!Next \/ UNCHANGED <<arrived, refused, running, done>>
    <2> USE DEF At, Goto
    <2>1. CASE handle_thread_again(w)
      <3>1. CASE has_event[tslot[w]]
        BY Zenon, <2>1, <3>1, BeginStarts DEF handle_thread_again
      <3>2. CASE ~has_event[tslot[w]]
        <4>1. Only(w) /\ tpc[w] # "handle" /\ tpc'[w] # "handle" /\ UNCHANGED <<tev, arrived, refused, done>>
          BY Zenon, <1>c, <2>1, <3>2 DEF handle_thread_again, EnterWait, Only
        <4>2. QED
          BY Zenon, <4>1, <1>b
      <3>3. QED
        BY Zenon, <3>1, <3>2
    <2>2. ASSUME NEW timedout \in BOOLEAN, handle_thread_wake(w, timedout)
          PROVE  D!Next \/ UNCHANGED <<arrived, refused, running, done>>
      <3>1. CASE tpc'[w] = "handle"
        <4>1. has_event[tslot[w]] /\ BeginHandler(w, tslot[w])
          BY Zenon, <1>c, <2>2, <3>1 DEF handle_thread_wake, EnterWait
        <4>2. QED
          BY Zenon, <2>2, <4>1, BeginStarts DEF handle_thread_wake
      <3>2. CASE tpc'[w] # "handle"
        <4>1. Only(w) /\ tpc[w] # "handle" /\ UNCHANGED <<tev, arrived, refused, done>>
          BY Zenon, <1>c, <2>2, <3>2 DEF handle_thread_wake, BeginHandler, EnterWait, Only
        <4>2. QED
          BY Zenon, <3>2, <4>1, <1>b
      <3>3. QED
        BY Zenon, <3>1, <3>2
    <2>3. CASE handle_thread_handled(w)
      BY Zenon, <2>3, HandledFinishes
    <2>4. CASE \/ handle_thread_start(w) \/ handle_thread_push(w) \/ handle_thread_unlock(w)
               \/ handle_thread_destroy(w) \/ reset_thread(w)
      <3>1. Only(w) /\ tpc[w] # "handle" /\ tpc'[w] # "handle" /\ UNCHANGED <<tev, arrived, refused, done>>
        BY Zenon, <1>c, <2>4 DEF handle_thread_start, handle_thread_push, handle_thread_unlock,
                          handle_thread_destroy, reset_thread, Only
      <3>2. QED
        BY Zenon, <3>1, <1>b
    <2>5. CASE handle_thread_return(w)
      <3>1. Only(w) /\ tpc[w] # "handle" /\ tpc'[w] # "handle" /\ UNCHANGED <<tev, arrived, refused, done>>
        BY Zenon, <1>c, <2>5 DEF handle_thread_return, EventTypes, SlotTypes, Only
      <3>2. QED
        BY Zenon, <3>1, <1>b
    <2>6. QED
      BY Zenon, <1>2, <2>1, <2>2, <2>3, <2>4, <2>5 DEF WorkerStep
  <1>3. ASSUME NEW e \in Events, submit_event(e) PROVE D!Next
    <2>1. running' = running
      BY Zenon, <1>3, RunningStays DEF submit_event, EventTypes
    <2>2. D!Accept(e) \/ D!Refuse(e)
      BY Zenon, <1>3, <2>1 DEF submit_event, D!Accept, D!Refuse
    <2>3. QED
      BY Zenon, <2>2 DEF D!Next
  <1>4. CASE run_event_loop_exit \/ handle_interrupt \/ abort \/ UNCHANGED vars
    BY Zenon, <1>4, <1>a DEF run_event_loop_exit, handle_interrupt, abort
  <1>5. QED
    BY Zenon, <1>1, <1>2, <1>3, <1>4 DEF Next, Step, Terminated

\* The pool, with its threads, locks, stack and queue, implements the dispatcher
\* that accepts, refuses, starts and finishes each event at most once.
THEOREM PoolRefinesDispatcher == Spec => RefinesDispatcher
  <1>1. Init => D!Init
    BY DEF Init, D!Init, running, Handlers
  <1>2. /\ TypeOK /\ SlotInv /\ RaceInv /\ EventInv /\ [Next]_vars
        /\ TypeOK' /\ SlotInv'
        => [(~raced)' => ~raced /\ D!Next]_(D!vars)
    <2> SUFFICES ASSUME TypeOK, SlotInv, RaceInv, EventInv, [Next]_vars, TypeOK', SlotInv', ~raced'
                 PROVE  (~raced /\ D!Next) \/ UNCHANGED D!vars
      OBVIOUS
    <2>1. EventTypes /\ EventTypes'
      <3>1. TypeOK' => EventTypes'
        BY EventTypesHold, PTL
      <3>2. QED
        BY Zenon, <3>1, EventTypesHold
    <2>2. ~raced /\ Tracked
      <3>1. ~raced
        BY RaceFlags
      <3>2. QED
        BY Zenon, <3>1 DEF EventInv
    <2>3. D!Next \/ UNCHANGED <<arrived, refused, running, done>>
      BY Zenon, <2>1, <2>2, StepRefines
    <2>4. UNCHANGED <<arrived, refused, running, done>> => UNCHANGED D!vars
      <3>1. raced = FALSE /\ raced' = FALSE
        BY Zenon, <2>2 DEF TypeOK
      <3>2. (~raced)' = ~raced
        BY Zenon, <3>1
      <3>3. QED
        BY Zenon, <3>2 DEF D!vars
    <2>5. QED
      BY Zenon, <2>2, <2>3, <2>4
  <1>3. QED
    BY <1>1, <1>2, TypeCorrect, SlotSafety, RaceSafety, EventSafety, PTL DEF Spec, RefinesDispatcher, D!Spec

===============================================================================
