-------------------------- MODULE WorkerPoolFlowProofs --------------------------
(***************************************************************************)
(* That no assertion fails before a worker has left a slot the main thread *)
(* has claimed (AbortOnlyByRace), and what holds as long as the pool is    *)
(* undisturbed (FlowInv).                                                  *)
(***************************************************************************)
EXTENDS WorkerPoolEventProofs, FiniteSetTheorems

USE DEF vars, stateVars, slotVars, lockVars, mainVars, handVars, threadVars, histVars,
        InitStack, TakeNode, AfterStore, ShouldLeave, FreeNode, PushSlot, MakeLock

-------------------------------------------------------------------------------
(* AbortOnlyByRace.                                                        *)

\* Without a meeting no assertion fails, in the main thread or in a worker.
LEMMA NoAbort ==
  ASSUME EventTypes, SlotInv, QueueInv, Tracked, NoMeeting, abort PROVE FALSE
  <1>1. ~MainAssertFails
    <2>1. mpc \in {"lock", "unlock", "unlock_offline"} => lock_init[mslot]
      BY Zenon DEF EventTypes, SlotTypes, SlotInv, MadeInv, NoMeeting, MainHas, MainClaiming, MainHolding, On, Unmade, Leaving
    <2>2. mpc = "signal" => cond_init[mslot]
      BY Zenon DEF EventTypes, SlotTypes, SlotInv, MadeInv, NoMeeting, MainHas, MainClaiming, MainHolding, On, Condless, Leaving
    <2>3. mpc = "fill" /\ msqe => sqes # <<>>
      BY Zenon DEF QueueInv
    <2>4. QED
      BY Zenon, <2>1, <2>2, <2>3 DEF MainAssertFails
  <1>2. ASSUME NEW w \in Workers PROVE ~WorkerAssertFails(w)
    <2>1. tslot[w] \in Slots
      BY Zenon DEF EventTypes, SlotTypes
    <2>2. tpc[w] \in {"lock", "unlock", "out", "wait"} => lock_init[tslot[w]]
      BY <2>1 DEF SlotInv, MadeInv, NoMeeting, On, Unmade, Leaving
    <2>3. tpc[w] \in {"lock", "wait"} => cond_init[tslot[w]]
      BY <2>1 DEF SlotInv, MadeInv, NoMeeting, On, Condless, Leaving
    <2>4. ASSUME tpc[w] \in {"lock", "wait"}, ev_lock[tslot[w]] = "free", has_event[tslot[w]]
          PROVE  ~NullNode(tslot[w])
      <3>1. ~MainHas(tslot[w])
        BY Zenon, <2>4, FoundIsUnclaimed DEF EventTypes
      <3>2. Pending(tslot[w])
        BY Zenon, <2>4, <3>1 DEF SlotInv, OneTenant, Pending, Spent, Tenant, On, MainHas, MainClaiming, MainHolding
      <3>3. SlotEvent(tslot[w]) \in Events
        BY Zenon, <2>1, <3>2 DEF Tracked, PendingInv, Waiting
      <3>4. QED
        BY Zenon, <3>3, ValueFacts DEF NullNode, SlotEvent
    <2>5. QED
      BY Zenon, <2>2, <2>3, <2>4 DEF WorkerAssertFails
  <1>3. QED
    BY Zenon, <1>1, <1>2 DEF abort

\* The assertions of gwthread.h and the panic of dispatch_sqe fail only after
\* the main thread and a leaving worker have met on a slot.
THEOREM AbortsByRace == Spec => []AbortOnlyByRace
  <1>1. /\ TypeOK /\ SlotInv /\ QueueInv /\ RaceInv /\ EventInv /\ AbortOnlyByRace
        /\ [Next]_vars
        => AbortOnlyByRace'
    <2> SUFFICES ASSUME TypeOK, SlotInv, QueueInv, RaceInv, EventInv, AbortOnlyByRace, Next, ~raced'
                 PROVE  ~aborted'
      BY Zenon DEF AbortOnlyByRace
    <2>1. ~raced
      BY Zenon, RaceFlags
    <2>2. ~abort
      BY Zenon, <2>1, NoAbort, EventTypesHold DEF RaceInv, EventInv
    <2>3. QED
      BY Zenon, <2>1, <2>2, RaceFlags DEF AbortOnlyByRace
  <1>2. Init => AbortOnlyByRace
    BY Zenon DEF Init, AbortOnlyByRace
  <1>3. QED
    BY TypeCorrect, SlotSafety, NodeSafety, RaceSafety, EventSafety, <1>1, <1>2, PTL DEF Spec

-------------------------------------------------------------------------------
(* FlowInv.                                                                *)

\* The stack has room for every slot that is not on it, so that the tss_push of
\* handle_thread, whose result is not checked, never fails.
LEMMA StackNotFull ==
  ASSUME thread_stk \in Seq(Slots), Distinct(thread_stk), NEW s \in Slots, s \notin Stacked
  PROVE  Len(thread_stk) < ThreadC
  <1> DEFINE n == Len(thread_stk)
             Rest == Slots \ {s}
  <1>1. n \in Nat /\ ThreadC \in Nat \ {0}
    BY PoolAssumption
  <1>2. IsFiniteSet(Slots) /\ Cardinality(Slots) = ThreadC
    BY <1>1, FS_Interval DEF Slots
  <1>3. IsFiniteSet(Rest) /\ Cardinality(Rest) = ThreadC - 1
    BY Zenon, <1>2, FS_RemoveElement
  <1>4. IsFiniteSet(1 .. n) /\ Cardinality(1 .. n) = n
    BY <1>1, FS_Interval
  <1>5. thread_stk \in [1 .. n -> Rest]
    BY DEF Stacked
  <1>6. ~(Cardinality(Rest) < Cardinality(1 .. n))
    BY <1>3, <1>4, <1>5, FS_PigeonHole DEF Distinct
  <1>7. QED
    BY <1>1, <1>3, <1>4, <1>6

\* Every slot is on the stack, and no event has arrived.
LEMMA InitFlow == Init => Flow
  <1> SUFFICES ASSUME Init PROVE Flow
    OBVIOUS
  <1>1. \A s \in Slots : s \in Stacked
    <2>1. Len(thread_stk) = ThreadC
      BY PoolAssumption DEF Init
    <2> SUFFICES ASSUME NEW s \in Slots PROVE s \in Stacked
      OBVIOUS
    <2>2. s + 1 \in 1 .. ThreadC /\ thread_stk[s + 1] = s
      BY PoolAssumption DEF Init, Slots
    <2>3. QED
      BY Zenon, <2>1, <2>2 DEF Stacked
  <1>2. QED
    BY Zenon, <1>1 DEF Init, Flow, Filled

\* A slot the main thread holds, or whose event is attended to, has no leaving
\* worker; a slot that is online and in the main thread's hands is served.
LEMMA OnlineIsServed ==
  ASSUME EventTypes, SlotInv, NoMeeting, mpc \in MainClaiming, is_online[mslot]
  PROVE  \E w \in Workers : Serving(w) /\ tslot[w] = mslot
  BY Zenon DEF EventTypes, SlotTypes, SlotInv, OnlineInv, NoMeeting, MainHas, Serving, On

\* A step of the main thread that touches no slot and no event keeps Flow.
LEMMA MainQuietKeepsFlow ==
  ASSUME EventTypes, Flow,
         UNCHANGED <<thread_stk, sqes, slotVars, tpc, tslot, arrived, refused, done>>,
         \/ mpc \in {"top", "poll"} /\ mpc' \in {"top", "poll"}
         \/ mpc' = mpc /\ mslot' = mslot /\ mev' = mev
         \/ mpc \in {"lock", "acquire"} /\ mpc' \in {"acquire", "fill"} /\ mslot' = mslot /\ mev' = mev
         \/ mpc \in {"signal", "unlock"} /\ mpc' \in {"signal", "unlock"} /\ mslot' = mslot
         \/ mpc \in {"unlock_offline", "spawn"} /\ mpc' \in {"unlock_offline", "spawn"} /\ mslot' = mslot
  PROVE  Flow'
  <1>1. Stacked' = Stacked /\ Queue' = Queue
    BY Zenon DEF Stacked, Queue
  <1>2. \A s : SlotEvent(s)' = SlotEvent(s)
    BY Zenon DEF SlotEvent
  <1>3. \A s \in Slots : (Attended(s) => Attended(s)') /\ (Busy(s) => Busy(s)')
    BY Zenon DEF Attended, Busy, MainHas, MainClaiming, MainHolding, Unfilled, Serving, Owner
  <1>4. \A e \in arrived \ refused : Kept(e)'
    <2> SUFFICES ASSUME NEW e \in arrived \ refused PROVE Kept(e)'
      OBVIOUS
    <2>1. Kept(e)
      BY Zenon DEF Flow
    <2>2. QED
      BY Zenon, <1>1, <1>2, <1>3, <2>1 DEF Kept, Unfilled
  <1>5. (mpc' \in Filled => has_event'[mslot']) /\ (mpc' \in {"signal", "unlock"} => is_online'[mslot'])
    BY Zenon DEF Flow, Filled, Unfilled
  <1>6. QED
    BY Zenon, <1>1, <1>3, <1>4, <1>5 DEF Flow

\* A step of a worker that moves no event and gives no slot up keeps Flow.
LEMMA WorkerQuietKeepsFlow ==
  ASSUME EventTypes, Flow, NEW w \in Workers, Only(w),
         UNCHANGED <<thread_stk, sqes, SlotContents, mainVars, arrived, refused, done>>,
         Serving(w) => Serving(w)' /\ tpc[w] # "push" /\ tslot'[w] = tslot[w],
         mpc \in {"signal", "unlock"} /\ is_online[mslot] => is_online'[mslot]
  PROVE  Flow'
  <1>1. Stacked' = Stacked /\ Queue' = Queue
    BY Zenon DEF Stacked, Queue
  <1>2. \A s : SlotEvent(s)' = SlotEvent(s)
    BY Zenon DEF SlotEvent, SlotContents
  <1>3. \A v \in Workers : Serving(v) => Serving(v)' /\ tslot'[v] = tslot[v]
    BY Zenon DEF Serving, Owner, Only
  <1>4. \A s \in Slots : (Attended(s) => Attended(s)') /\ (Busy(s) => Busy(s)')
    BY Zenon, <1>3 DEF Attended, Busy, MainHas, SlotContents, Only
  <1>5. \A e \in arrived \ refused : Kept(e)'
    <2> SUFFICES ASSUME NEW e \in arrived \ refused PROVE Kept(e)'
      OBVIOUS
    <2>1. Kept(e)
      BY Zenon DEF Flow
    <2>2. QED
      BY Zenon, <1>1, <1>2, <1>4, <2>1 DEF Kept, SlotContents
  <1>6. (mpc' \in Filled => has_event'[mslot']) /\ (mpc' \in {"signal", "unlock"} => is_online'[mslot'])
    BY Zenon DEF Flow, SlotContents
  <1>7. QED
    BY Zenon, <1>1, <1>4, <1>5, <1>6 DEF Flow

\* Claiming a slot moves it from the stack to the main thread's hands.
LEMMA ClaimKeepsFlow ==
  ASSUME EventTypes, SlotInv, Flow, mpc \in {"top", "poll"}, NEW s \in Slots, ClaimSlot(s),
         UNCHANGED <<sqes, slotVars, tpc, tslot, refused, done>>,
         \A e \in arrived' \ refused : e \in arrived \/ mev' = e
  PROVE  Flow'
  <1>1. mslot' = s /\ mpc' = "lock" /\ Queue' = Queue /\ \A r : SlotEvent(r)' = SlotEvent(r)
    BY Zenon DEF ClaimSlot, Queue, SlotEvent
  <1>2. \A r \in Stacked : r = s \/ r \in Stacked'
    <2>1. /\ Len(thread_stk) \in Nat \ {0} /\ thread_stk[1] = s /\ Len(thread_stk') = Len(thread_stk) - 1
          /\ \A i \in 1 .. Len(thread_stk) - 1 : thread_stk'[i] = thread_stk[i + 1]
      BY Zenon, PopFacts DEF ClaimSlot, EventTypes, SlotTypes
    <2> SUFFICES ASSUME NEW i \in 1 .. Len(thread_stk), i # 1 PROVE thread_stk[i] \in Stacked'
      BY Zenon, <2>1 DEF Stacked
    <2>2. i - 1 \in 1 .. Len(thread_stk') /\ thread_stk'[i - 1] = thread_stk[i]
      BY <2>1
    <2>3. QED
      BY Zenon, <2>2 DEF Stacked
  <1>3. \A r \in Slots : (Attended(r) => Attended(r)') /\ (Busy(r) => Busy(r)') /\ Busy(s)'
    BY Zenon, <1>1 DEF Attended, Busy, MainHas, MainClaiming, MainHolding, Serving, Owner
  <1>4. \A e \in arrived' \ refused' : Kept(e)'
    <2> SUFFICES ASSUME NEW e \in arrived' \ refused' PROVE Kept(e)'
      OBVIOUS
    <2>1. CASE mev' = e
      BY Zenon, <1>1, <2>1 DEF Kept, Unfilled
    <2>2. CASE e \in arrived
      <3>1. Kept(e)
        BY Zenon, <2>2 DEF Flow
      <3>2. QED
        BY Zenon, <1>1, <1>3, <3>1 DEF Kept, Unfilled
    <2>3. QED
      BY Zenon, <2>1, <2>2
  <1>5. QED
    BY Zenon, <1>1, <1>2, <1>3, <1>4 DEF Flow, Filled

\* submit_event keeps Flow: the event is in hand, in the queue or refused.
LEMMA SubmitKeepsFlow ==
  ASSUME EventTypes, SlotInv, QueueInv, Flow, NEW e \in Events, submit_event(e) PROVE Flow'
  <1>1. CASE thread_stk # <<>>
    BY Zenon, <1>1, ClaimKeepsFlow DEF submit_event, MainAt
  <1>2. CASE thread_stk = <<>>
    <2>1. /\ mpc = "poll" /\ UNCHANGED <<thread_stk, slotVars, mainVars, tpc, tslot, done>>
          /\ arrived' = arrived \cup {e}
          /\ \/ sqes' = Append(sqes, e) /\ refused' = refused
             \/ sqes' = sqes /\ refused' = refused \cup {e}
      BY Zenon, <1>2 DEF submit_event, MainAt, ClaimSlot
    <2>2. Stacked' = Stacked /\ \A r : SlotEvent(r)' = SlotEvent(r)
      BY Zenon, <2>1 DEF Stacked, SlotEvent
    <2>3. Queue \subseteq Queue' /\ (refused' = refused => e \in Queue' \/ e \in refused)
      <3>1. CASE sqes' = Append(sqes, e) /\ refused' = refused
        <4>1. e \notin Queue
          BY Zenon DEF QueueInv, submit_event
        <4>2. QED
          BY Zenon, <3>1, <4>1, QueuePush DEF EventTypes, QueueInv
      <3>2. CASE sqes' = sqes /\ refused' = refused \cup {e}
        BY Zenon, <3>2 DEF Queue
      <3>3. QED
        BY Zenon, <2>1, <3>1, <3>2
    <2>4. \A r \in Slots : (Attended(r) => Attended(r)') /\ (Busy(r) => Busy(r)')
      BY Zenon, <2>1 DEF Attended, Busy, MainHas, Serving, Owner
    <2>5. \A x \in arrived' \ refused' : Kept(x)'
      <3> SUFFICES ASSUME NEW x \in arrived' \ refused' PROVE Kept(x)'
        OBVIOUS
      <3>1. CASE x = e
        BY Zenon, <2>1, <2>3, <3>1 DEF Kept
      <3>2. CASE x \in arrived \ refused
        <4>1. Kept(x)
          BY Zenon, <3>2 DEF Flow
        <4>2. QED
          BY Zenon, <2>1, <2>2, <2>3, <2>4, <4>1 DEF Kept
      <3>3. QED
        BY Zenon, <2>1, <3>1, <3>2
    <2>6. QED
      BY Zenon, <2>1, <2>2, <2>4, <2>5 DEF Flow
  <1>3. QED
    BY Zenon, <1>1, <1>2

\* main_fill takes the event from the queue into the main thread's hands, or has
\* it there already.
LEMMA FillKeepsFlow ==
  ASSUME EventTypes, SlotInv, QueueInv, Flow, main_fill PROVE Flow'
  <1>1. /\ mpc = "fill" /\ mpc' = "mark" /\ mslot \in Slots
        /\ UNCHANGED <<thread_stk, is_online, has_event, pkt, sqe_node, mslot, tpc, tslot, arrived, refused, done>>
        /\ \A r \in Slots : r # mslot => ev_from_sqe'[r] = ev_from_sqe[r]
        /\ \/ ~msqe /\ UNCHANGED <<sqes, mev>>
           \/ msqe /\ sqes # <<>> /\ mev' = Head(sqes) /\ sqes' = Tail(sqes)
    BY Zenon DEF main_fill, MainAt, EventTypes, SlotTypes
  <1>2. ~has_event[mslot]
    BY Zenon, <1>1 DEF SlotInv, ClaimInv, Unfilled
  <1>3. Stacked' = Stacked /\ \A r \in Slots : r # mslot => SlotEvent(r)' = SlotEvent(r)
    BY Zenon, <1>1 DEF Stacked, SlotEvent
  <1>4. \A r \in Slots : (Attended(r) => Attended(r)') /\ (Busy(r) => Busy(r)')
    BY Zenon, <1>1 DEF Attended, Busy, MainHas, MainClaiming, MainHolding, Serving, Owner
  <1>5. /\ mev # NoEvent => mev' = mev
        /\ \A e \in Queue : e \in Queue' \/ mev' = e
    <2>1. CASE ~msqe /\ UNCHANGED <<sqes, mev>>
      BY Zenon, <2>1 DEF Queue
    <2>2. CASE msqe /\ sqes # <<>> /\ mev' = Head(sqes) /\ sqes' = Tail(sqes)
      <3>1. mev = NoEvent
        BY Zenon, <1>1, <2>2 DEF QueueInv
      <3>2. /\ Len(sqes) \in Nat \ {0} /\ sqes[1] = Head(sqes) /\ Len(sqes') = Len(sqes) - 1
            /\ \A i \in 1 .. Len(sqes) - 1 : sqes'[i] = sqes[i + 1]
        BY Zenon, <2>2, PopFacts DEF EventTypes
      <3>3. ASSUME NEW i \in 1 .. Len(sqes), i # 1 PROVE sqes[i] \in Queue'
        <4>1. i - 1 \in 1 .. Len(sqes') /\ sqes'[i - 1] = sqes[i]
          BY <3>2, <3>3
        <4>2. QED
          BY Zenon, <4>1 DEF Queue
      <3>4. QED
        BY Zenon, <2>2, <3>1, <3>2, <3>3 DEF Queue
    <2>3. QED
      BY Zenon, <1>1, <2>1, <2>2
  <1>6. \A e \in arrived \ refused : Kept(e)'
    <2> SUFFICES ASSUME NEW e \in arrived \ refused PROVE Kept(e)'
      OBVIOUS
    <2>1. Kept(e) /\ e # NoEvent
      BY Zenon, ValueFacts DEF Flow, EventTypes
    <2>2. QED
      BY Zenon, <1>1, <1>2, <1>3, <1>4, <1>5, <2>1 DEF Kept, Unfilled
  <1>7. QED
    BY Zenon, <1>1, <1>3, <1>4, <1>6 DEF Flow, Filled

\* main_mark says that there is an event in a slot that was empty.
LEMMA MarkKeepsFlow ==
  ASSUME EventTypes, SlotInv, Flow, main_mark PROVE Flow'
  <1>1. /\ mpc = "mark" /\ mpc' = "store" /\ mslot \in Slots
        /\ UNCHANGED <<thread_stk, sqes, is_online, ev_from_sqe, pkt, sqe_node, mslot, mev, tpc, tslot,
                       arrived, refused, done>>
        /\ has_event'[mslot] /\ \A r \in Slots : r # mslot => has_event'[r] = has_event[r]
    BY Zenon DEF main_mark, MainAt, EventTypes, SlotTypes
  <1>2. ~has_event[mslot]
    BY Zenon, <1>1 DEF SlotInv, ClaimInv, Unfilled
  <1>3. Stacked' = Stacked /\ Queue' = Queue /\ \A r : SlotEvent(r)' = SlotEvent(r)
    BY Zenon, <1>1 DEF Stacked, Queue, SlotEvent
  <1>4. \A r \in Slots : (Attended(r) => Attended(r)') /\ (Busy(r) => Busy(r)')
    BY Zenon, <1>1 DEF Attended, Busy, MainHas, MainClaiming, MainHolding, Serving, Owner
  <1>5. \A e \in arrived \ refused : Kept(e)'
    <2> SUFFICES ASSUME NEW e \in arrived \ refused PROVE Kept(e)'
      OBVIOUS
    <2>1. Kept(e)
      BY Zenon DEF Flow
    <2>2. QED
      BY Zenon, <1>1, <1>2, <1>3, <1>4, <2>1 DEF Kept, Unfilled
  <1>6. QED
    BY Zenon, <1>1, <1>3, <1>4, <1>5 DEF Flow, Filled

\* main_store puts the event where a worker or the spawn will find it.
LEMMA StoreKeepsFlow ==
  ASSUME EventTypes, SlotInv, Tracked, NoMeeting, Flow, main_store PROVE Flow'
  <1>1. /\ mpc = "store" /\ mpc' = (IF is_online[mslot] THEN "signal" ELSE "unlock_offline")
        /\ UNCHANGED <<thread_stk, sqes, is_online, has_event, ev_from_sqe, mslot, mev, tpc, tslot,
                       arrived, refused, done>>
        /\ mslot \in Slots
        /\ \/ ~msqe /\ pkt' = [pkt EXCEPT ![mslot] = mev] /\ UNCHANGED sqe_node
           \/ msqe /\ sqe_node' = [sqe_node EXCEPT ![mslot] = mev] /\ UNCHANGED pkt
    BY Zenon DEF main_store, MainAt, EventTypes, SlotTypes
  <1>2. has_event[mslot] /\ (ev_from_sqe[mslot] <=> msqe)
    BY Zenon, <1>1 DEF Flow, Filled, Tracked, HandsInv
  <1>3. Stacked' = Stacked /\ Queue' = Queue
    BY Zenon, <1>1 DEF Stacked, Queue
  <1>4. /\ SlotEvent(mslot)' = mev
        /\ \A r \in Slots : r # mslot => SlotEvent(r)' = SlotEvent(r)
    BY Zenon, <1>1, <1>2 DEF EventTypes, SlotEvent
  <1>5. Attended(mslot)'
    <2>1. CASE is_online[mslot]
      <3>1. PICK w \in Workers : Serving(w) /\ tslot[w] = mslot
        BY Zenon, <1>1, <2>1, OnlineIsServed DEF MainClaiming, MainHolding
      <3>2. QED
        BY Zenon, <1>1, <3>1 DEF Attended, Serving, Owner
    <2>2. CASE ~is_online[mslot]
      BY Zenon, <1>1, <2>2 DEF Attended
    <2>3. QED
      BY Zenon, <2>1, <2>2
  <1>6. \A r \in Slots : (Attended(r) => Attended(r)') /\ (Busy(r) => Busy(r)')
    BY Zenon, <1>1 DEF Attended, Busy, MainHas, MainClaiming, MainHolding, Serving, Owner
  <1>7. \A e \in arrived \ refused : Kept(e)'
    <2> SUFFICES ASSUME NEW e \in arrived \ refused PROVE Kept(e)'
      OBVIOUS
    <2>1. Kept(e)
      BY Zenon DEF Flow
    <2>2. mev = e => Kept(e)'
      BY Zenon, <1>1, <1>2, <1>4, <1>5 DEF Kept
    <2>3. QED
      BY Zenon, <1>1, <1>3, <1>4, <1>6, <2>1, <2>2 DEF Kept
  <1>8. QED
    BY Zenon, <1>1, <1>2, <1>3, <1>6, <1>7 DEF Flow

\* The main thread lets go of a slot only when a worker serves it.
LEMMA ReleaseKeepsFlow ==
  ASSUME EventTypes, SlotInv, Flow, mpc \in {"unlock", "spawn"}, mpc' = "poll",
         UNCHANGED <<thread_stk, sqes, slotVars, arrived, refused, done>>,
         \A v \in Workers : Serving(v) => Serving(v)' /\ tslot'[v] = tslot[v] /\ tpc'[v] = tpc[v],
         \E w \in Workers : Serving(w)' /\ tslot'[w] = mslot
  PROVE  Flow'
  <1>1. Stacked' = Stacked /\ Queue' = Queue /\ \A r : SlotEvent(r)' = SlotEvent(r)
    BY Zenon DEF Stacked, Queue, SlotEvent
  <1>2. has_event[mslot] /\ mpc \notin Unfilled
    BY Zenon DEF Flow, Filled, Unfilled
  <1>3. \A r \in Slots : (Attended(r) => Attended(r)') /\ (Busy(r) => Busy(r)')
    <2> SUFFICES ASSUME NEW r \in Slots PROVE (Attended(r) => Attended(r)') /\ (Busy(r) => Busy(r)')
      OBVIOUS
    <2>1. CASE r = mslot
      BY Zenon, <1>2, <2>1 DEF Attended, Busy
    <2>2. CASE r # mslot
      BY Zenon, <2>2 DEF Attended, Busy, MainHas
    <2>3. QED
      BY Zenon, <2>1, <2>2
  <1>4. \A e \in arrived \ refused : Kept(e)'
    <2> SUFFICES ASSUME NEW e \in arrived \ refused PROVE Kept(e)'
      OBVIOUS
    <2>1. Kept(e)
      BY Zenon DEF Flow
    <2>2. QED
      BY Zenon, <1>1, <1>2, <1>3, <2>1 DEF Kept, Unfilled
  <1>5. QED
    BY Zenon, <1>1, <1>3, <1>4 DEF Flow, Filled

\* The steps of the main thread keep Flow, unless pthread_create fails.
LEMMA MainKeepsFlow ==
  ASSUME EventTypes, SlotInv, QueueInv, Tracked, NoMeeting, Flow, MainStep, spawn_failed' = FALSE
  PROVE  Flow'
  <1> USE DEF MainAt
  <1>1. CASE run_event_loop_top \/ run_event_loop_next
    BY Zenon, <1>1, MainQuietKeepsFlow DEF run_event_loop_top, run_event_loop_next
  <1>2. CASE dispatch_sqe
    <2>1. CASE thread_stk = <<>>
      BY Zenon, <1>2, <2>1, MainQuietKeepsFlow DEF dispatch_sqe, ClaimSlot
    <2>2. CASE thread_stk # <<>>
      BY Zenon, <1>2, <2>2, ClaimKeepsFlow DEF dispatch_sqe
    <2>3. QED
      BY Zenon, <2>1, <2>2
  <1>3. CASE main_lock \/ main_acquire
    BY Zenon, <1>3, MainQuietKeepsFlow DEF main_lock, main_acquire, Unfilled
  <1>4. CASE main_fill \/ main_mark \/ main_store
    BY Zenon, <1>4, FillKeepsFlow, MarkKeepsFlow, StoreKeepsFlow
  <1>5. CASE main_signal
    BY Zenon, <1>5, MainQuietKeepsFlow DEF main_signal
  <1>6. CASE main_unlock
    <2>1. CASE mpc = "unlock_offline"
      BY Zenon, <1>6, <2>1, MainQuietKeepsFlow DEF main_unlock
    <2>2. CASE mpc = "unlock"
      <3>1. mpc' = "poll" /\ UNCHANGED <<thread_stk, sqes, slotVars, tpc, tslot, arrived, refused, done>>
        BY Zenon, <1>6, <2>2 DEF main_unlock
      <3>2. \E w \in Workers : Serving(w) /\ tslot[w] = mslot
        BY Zenon, <2>2, OnlineIsServed DEF Flow, MainClaiming, MainHolding
      <3>3. QED
        BY Zenon, <2>2, <3>1, <3>2, ReleaseKeepsFlow DEF Filled, Serving, Owner
    <2>3. QED
      BY Zenon, <1>6, <2>1, <2>2 DEF main_unlock
  <1>7. CASE spawn_thread
    <2>1. PICK w \in Workers : /\ tpc[w] = "none" /\ tpc' = [tpc EXCEPT ![w] = "start"]
                               /\ tslot' = [tslot EXCEPT ![w] = mslot]
      BY Zenon, <1>7 DEF spawn_thread
    <2>2. Only(w) /\ tpc'[w] = "start" /\ tslot'[w] = mslot
      BY Zenon, <2>1 DEF EventTypes, SlotTypes, Only
    <2>3. Serving(w)' /\ \A v \in Workers : Serving(v) => Serving(v)' /\ tslot'[v] = tslot[v] /\ tpc'[v] = tpc[v]
      BY Zenon, <2>1, <2>2 DEF Serving, Owner, Leaving, Only
    <2>4. mpc = "spawn" /\ mpc' = "poll" /\ UNCHANGED <<thread_stk, sqes, slotVars, arrived, refused, done>>
      BY Zenon, <1>7 DEF spawn_thread
    <2>5. QED
      BY Zenon, <2>2, <2>3, <2>4, ReleaseKeepsFlow DEF Filled
  <1>8. QED
    BY Zenon, <1>1, <1>2, <1>3, <1>4, <1>5, <1>6, <1>7 DEF MainStep

\* A worker that leaves for being idle leaves an empty slot on the stack.
LEMMA IdleKeepsFlow ==
  ASSUME EventTypes, SlotInv, Flow, NEW w \in Workers, Only(w), tslot' = tslot,
         tslot[w] \in Stacked, tpc[w] # "push",
         UNCHANGED <<thread_stk, sqes, slotVars, mainVars, arrived, refused, done>>
  PROVE  Flow'
  <1>1. Stacked' = Stacked /\ Queue' = Queue /\ \A r : SlotEvent(r)' = SlotEvent(r)
    BY Zenon DEF Stacked, Queue, SlotEvent
  <1>2. ~has_event[tslot[w]]
    BY Zenon DEF SlotInv, ClaimInv
  <1>3. \A r \in Slots : r # tslot[w] => (Attended(r) => Attended(r)') /\ (Busy(r) => Busy(r)')
    BY Zenon DEF Attended, Busy, MainHas, Serving, Owner, Only
  <1>4. \A e \in arrived \ refused : Kept(e)'
    <2> SUFFICES ASSUME NEW e \in arrived \ refused PROVE Kept(e)'
      OBVIOUS
    <2>1. Kept(e)
      BY Zenon DEF Flow
    <2>2. QED
      BY Zenon, <1>1, <1>2, <1>3, <2>1 DEF Kept
  <1>5. \A r \in Slots : r \in Stacked' \/ Busy(r)'
    BY Zenon, <1>1, <1>3 DEF Flow
  <1>6. QED
    BY Zenon, <1>4, <1>5 DEF Flow

\* The handler returns: its event is done and its slot is about to be pushed.
LEMMA HandledKeepsFlow ==
  ASSUME EventTypes, SlotInv, Tracked, Flow, NEW w \in Workers, handle_thread_handled(w), ~stop_el
  PROVE  Flow'
  <1> DEFINE s == tslot[w]
  <1>1. /\ tpc[w] = "handle" /\ tpc'[w] = "push" /\ Only(w) /\ s \in Slots
        /\ UNCHANGED <<thread_stk, sqes, is_online, ev_from_sqe, pkt, mainVars, tslot, arrived, refused>>
        /\ has_event' = [has_event EXCEPT ![s] = FALSE]
    BY Zenon DEF EventTypes, SlotTypes, handle_thread_handled, At, Goto, Only
  <1>2. tev[w] = SlotEvent(s) /\ ~MainHas(s) /\ done' = done \cup {tev[w]}
    <2>1. tev[w] = SlotEvent(s) /\ ~MainHas(s) /\ tev[w] \in Events
      BY Zenon, <1>1 DEF Tracked, HandlerInv, SlotInv, ClaimInv
    <2>2. done' = (done \cup {tev[w]}) \ {NoEvent}
      BY Zenon DEF handle_thread_handled
    <2>3. QED
      BY Zenon, <2>1, <2>2, ValueFacts DEF EventTypes
  <1>3. \A r \in Slots : r # s => SlotEvent(r)' = SlotEvent(r) /\ has_event'[r] = has_event[r]
    <2>1. \A r \in Slots : r # s => sqe_node'[r] = sqe_node[r]
      BY Zenon, <1>1 DEF EventTypes, handle_thread_handled
    <2>2. QED
      BY Zenon, <1>1, <2>1 DEF EventTypes, SlotTypes, SlotEvent
  <1>4. Stacked' = Stacked /\ Queue' = Queue
    BY Zenon, <1>1 DEF Stacked, Queue
  <1>5. \A r \in Slots : r # s => (Attended(r) => Attended(r)') /\ (Busy(r) => Busy(r)')
    BY Zenon, <1>1, <1>3 DEF Attended, Busy, MainHas, Serving, Owner, Only
  <1>6. Serving(w)'
    BY Zenon, <1>1 DEF Serving, Owner, Leaving
  <1>7. \A r \in Slots : r = s => Busy(r)'
    BY Zenon, <1>1, <1>6 DEF Busy
  <1>8. \A e \in arrived \ refused : Kept(e)'
    <2> SUFFICES ASSUME NEW e \in arrived \ refused PROVE Kept(e)'
      OBVIOUS
    <2>1. Kept(e)
      BY Zenon DEF Flow
    <2>2. QED
      BY Zenon, <1>1, <1>2, <1>3, <1>4, <1>5, <2>1 DEF Kept
  <1>9. (mpc' \in Filled => has_event'[mslot']) /\ (mpc' \in {"signal", "unlock"} => is_online'[mslot'])
    BY Zenon, <1>1, <1>2, <1>3 DEF Flow, MainHas, MainClaiming, MainHolding, Filled, EventTypes, SlotTypes
  <1>10. \A r \in Slots : r \in Stacked' \/ Busy(r)'
    BY Zenon, <1>4, <1>5, <1>7 DEF Flow
  <1>11. QED
    BY Zenon, <1>1, <1>8, <1>9, <1>10 DEF Flow

\* Pushing the slot back: tss_push does not fail.
LEMMA PushKeepsFlow ==
  ASSUME EventTypes, SlotInv, Flow, NEW w \in Workers, handle_thread_push(w)
  PROVE  Flow'
  <1> DEFINE s == tslot[w]
  <1>1. /\ tpc[w] = "push" /\ tpc'[w] = "unlock" /\ Only(w) /\ s \in Slots /\ tslot' = tslot
        /\ UNCHANGED <<sqes, slotVars, mainVars, arrived, refused, done>>
    BY Zenon DEF EventTypes, SlotTypes, handle_thread_push, At, Goto, Only
  <1>2. s \notin Stacked
    BY Zenon, <1>1 DEF SlotInv, ClaimInv
  <1>3. Len(thread_stk) < ThreadC
    BY Zenon, <1>1, <1>2, StackNotFull DEF EventTypes, SlotTypes, SlotInv, ClaimInv
  <1>4. Stacked' = Stacked \cup {s}
    BY Zenon, <1>1, <1>2, <1>3, StackPush DEF handle_thread_push, EventTypes, SlotTypes, SlotInv, ClaimInv
  <1>5. Queue' = Queue /\ \A r : SlotEvent(r)' = SlotEvent(r)
    BY Zenon, <1>1 DEF Queue, SlotEvent
  <1>6. \A r \in Slots : (Attended(r) => Attended(r)') /\ (r # s => (Busy(r) => Busy(r)'))
    BY Zenon, <1>1 DEF Attended, Busy, MainHas, Serving, Owner, Leaving, Only
  <1>7. \A e \in arrived \ refused : Kept(e)'
    <2> SUFFICES ASSUME NEW e \in arrived \ refused PROVE Kept(e)'
      OBVIOUS
    <2>1. Kept(e)
      BY Zenon DEF Flow
    <2>2. QED
      BY Zenon, <1>1, <1>5, <1>6, <2>1 DEF Kept
  <1>8. QED
    BY Zenon, <1>1, <1>4, <1>6, <1>7 DEF Flow

\* reset_thread empties a slot that has no attended event and that nobody else
\* has, because worker and main thread have not met.
LEMMA ClearKeepsFlow ==
  ASSUME EventTypes, SlotInv, NoMeeting, Flow, NEW w \in Workers,
         tpc[w] \in {"reset_event", "reset_sqe", "reset_node"}, Only(w), tslot' = tslot,
         has_event' = has_event \/ has_event' = [has_event EXCEPT ![tslot[w]] = FALSE],
         ev_from_sqe' = ev_from_sqe \/ ev_from_sqe' = [ev_from_sqe EXCEPT ![tslot[w]] = FALSE],
         sqe_node' = sqe_node \/ sqe_node' = [sqe_node EXCEPT ![tslot[w]] = NoEvent],
         UNCHANGED <<thread_stk, sqes, is_online, pkt, mainVars, arrived, refused, done>>
  PROVE  Flow'
  <1> DEFINE s == tslot[w]
  <1>1. s \in Slots /\ \A r \in Slots : r # s => SlotEvent(r)' = SlotEvent(r) /\ has_event'[r] = has_event[r]
    BY Zenon DEF EventTypes, SlotTypes, SlotEvent
  <1>2. ~MainHas(s) /\ \A v \in Workers : tslot[v] = s => ~Serving(v)
    BY Zenon DEF NoMeeting, Serving, Owner, Leaving
  <1>3. Stacked' = Stacked /\ Queue' = Queue
    BY Zenon DEF Stacked, Queue
  <1>4. ~Attended(s) /\ ~Busy(s)
    BY Zenon, <1>2 DEF Attended, Busy, MainHas, MainClaiming, MainHolding
  <1>5. \A r \in Slots : r # s => (Attended(r) => Attended(r)') /\ (Busy(r) => Busy(r)')
    BY Zenon, <1>1 DEF Attended, Busy, MainHas, Serving, Owner, Only
  <1>6. \A e \in arrived \ refused : Kept(e)'
    <2> SUFFICES ASSUME NEW e \in arrived \ refused PROVE Kept(e)'
      BY Zenon
    <2>1. Kept(e)
      BY Zenon DEF Flow
    <2>2. QED
      BY Zenon, <1>1, <1>3, <1>4, <1>5, <2>1 DEF Kept
  <1>7. (mpc' \in Filled => has_event'[mslot']) /\ (mpc' \in {"signal", "unlock"} => is_online'[mslot'])
    BY Zenon, <1>1, <1>2 DEF Flow, MainHas, MainClaiming, MainHolding, Filled, EventTypes, SlotTypes
  <1>8. QED
    BY Zenon, <1>3, <1>4, <1>5, <1>6, <1>7 DEF Flow

\* The steps of a worker keep Flow while the server is not stopped.
LEMMA WorkerKeepsFlow ==
  ASSUME EventTypes, SlotInv, Tracked, NoMeeting, Flow, ~stop_el, ~raced',
         NEW w \in Workers, WorkerStep(w)
  PROVE  Flow'
  <1> USE DEF At, Goto, SlotContents
  <1>0. tpc \in [Workers -> ThreadPC] /\ is_online \in [Slots -> BOOLEAN] /\ mslot \in Slots /\ tslot[w] \in Slots
    BY Zenon DEF EventTypes, SlotTypes
  <1>1. CASE handle_thread_start(w)
    <2>1. Only(w) /\ tslot' = tslot /\ Serving(w)' /\ tpc[w] = "start"
      BY Zenon, <1>0, <1>1 DEF handle_thread_start, Only, Serving, Owner, Leaving
    <2>2. QED
      BY Zenon, <1>1, <2>1, WorkerQuietKeepsFlow DEF handle_thread_start
  <1>2. CASE handle_thread_again(w)
    <2>1. Only(w) /\ tslot' = tslot /\ Serving(w)' /\ tpc[w] = "lock"
      BY Zenon, <1>0, <1>2 DEF handle_thread_again, BeginHandler, EnterWait, Only, Serving, Owner, Leaving
    <2>2. is_online[mslot] => is_online'[mslot]
      BY Zenon, <1>0, <1>2 DEF handle_thread_again
    <2>3. QED
      BY Zenon, <1>2, <2>1, <2>2, WorkerQuietKeepsFlow DEF handle_thread_again
  <1>3. ASSUME NEW timedout \in BOOLEAN, handle_thread_wake(w, timedout) PROVE Flow'
    <2>1. /\ Only(w) /\ tslot' = tslot /\ tpc[w] = "wait" /\ tpc'[w] \in {"wait", "handle", "out"}
          /\ UNCHANGED <<thread_stk, sqes, slotVars, mainVars, arrived, refused, done>>
      BY Zenon, <1>0, <1>3 DEF handle_thread_wake, BeginHandler, EnterWait, Only
    <2>2. CASE tpc'[w] = "out"
      <3>1. tslot[w] \in Stacked
        BY Zenon, <1>0, <1>3, <2>2 DEF handle_thread_wake, BeginHandler, EnterWait
      <3>2. QED
        BY Zenon, <2>1, <3>1, IdleKeepsFlow
    <2>3. CASE tpc'[w] # "out"
      <3>1. Serving(w)'
        BY Zenon, <2>1, <2>3 DEF Serving, Owner, Leaving
      <3>2. QED
        BY Zenon, <2>1, <3>1, WorkerQuietKeepsFlow
    <2>4. QED
      BY Zenon, <2>2, <2>3
  <1>4. CASE handle_thread_handled(w)
    BY Zenon, <1>4, HandledKeepsFlow
  <1>5. CASE handle_thread_push(w)
    BY Zenon, <1>5, PushKeepsFlow
  <1>6. CASE handle_thread_unlock(w)
    <2>1. /\ Only(w) /\ tslot' = tslot /\ tpc[w] # "push" /\ (Serving(w) => Serving(w)')
          /\ UNCHANGED <<thread_stk, sqes, slotVars, mainVars, arrived, refused, done>>
      BY Zenon, <1>0, <1>6 DEF handle_thread_unlock, Only, Serving, Owner, Leaving
    <2>2. QED
      BY Zenon, <2>1, WorkerQuietKeepsFlow
  <1>7. CASE handle_thread_destroy(w)
    <2>1. /\ Only(w) /\ tslot' = tslot /\ ~Serving(w)
          /\ UNCHANGED <<thread_stk, sqes, slotVars, mainVars, arrived, refused, done>>
      BY Zenon, <1>0, <1>7 DEF handle_thread_destroy, Only, Serving, Owner, Leaving
    <2>2. QED
      BY Zenon, <2>1, WorkerQuietKeepsFlow
  <1>8. CASE reset_thread(w)
    <2>1. /\ Only(w) /\ tslot' = tslot /\ tpc[w] \in Leaving /\ ~Serving(w)
          /\ UNCHANGED <<thread_stk, sqes, pkt, mainVars, arrived, refused, done>>
      BY Zenon, <1>0, <1>8 DEF reset_thread, Only, Serving, Owner, Leaving
    <2>2. CASE tpc[w] \in {"reset_event", "reset_sqe", "reset_node"}
      BY Zenon, <1>8, <2>1, <2>2, ClearKeepsFlow DEF reset_thread
    <2>3. CASE tpc[w] \notin {"reset_event", "reset_sqe", "reset_node"}
      <3>1. mpc \in {"signal", "unlock"} => mslot # tslot[w]
        BY Zenon, <2>1 DEF NoMeeting, MainHas, MainClaiming, MainHolding
      <3>2. UNCHANGED <<has_event, ev_from_sqe, sqe_node>>
        BY Zenon, <1>8, <2>3 DEF reset_thread
      <3>3. mpc \in {"signal", "unlock"} /\ is_online[mslot] => is_online'[mslot]
        BY Zenon, <1>0, <1>8, <3>1 DEF reset_thread
      <3>4. QED
        BY Zenon, <2>1, <3>2, <3>3, WorkerQuietKeepsFlow
    <2>4. QED
      BY Zenon, <2>2, <2>3
  <1>9. CASE handle_thread_return(w)
    <2>1. /\ Only(w) /\ ~Serving(w)
          /\ UNCHANGED <<thread_stk, sqes, slotVars, mainVars, arrived, refused, done>>
      BY Zenon, <1>0, <1>9 DEF handle_thread_return, EventTypes, SlotTypes, Only, Serving, Owner
    <2>2. QED
      BY Zenon, <2>1, WorkerQuietKeepsFlow
  <1>10. QED
    BY Zenon, <1>1, <1>2, <1>3, <1>4, <1>5, <1>6, <1>7, <1>8, <1>9 DEF WorkerStep

\* stop_el and spawn_failed are never taken back.
LEMMA DisturbanceStays ==
  ASSUME Next
  PROVE  (stop_el' = stop_el \/ stop_el' = TRUE) /\ (spawn_failed' = spawn_failed \/ spawn_failed' = TRUE)
  <1>1. ASSUME MainStep
        PROVE  stop_el' = stop_el /\ (spawn_failed' = spawn_failed \/ spawn_failed' = TRUE)
    BY Zenon, <1>1 DEF MainStep, run_event_loop_top, dispatch_sqe, run_event_loop_next, main_lock, main_acquire,
                main_fill, main_mark, main_store, main_signal, main_unlock, spawn_thread
  <1>2. ASSUME NEW w \in Workers, WorkerStep(w) PROVE stop_el' = stop_el /\ spawn_failed' = spawn_failed
    BY Zenon, <1>2 DEF WorkerStep, handle_thread_start, handle_thread_again, handle_thread_wake,
                handle_thread_handled, handle_thread_push, handle_thread_unlock,
                handle_thread_destroy, reset_thread, handle_thread_return
  <1>3. ASSUME NEW e \in Events, submit_event(e) PROVE stop_el' = stop_el /\ spawn_failed' = spawn_failed
    BY Zenon, <1>3 DEF submit_event
  <1>4. CASE run_event_loop_exit \/ handle_interrupt \/ abort \/ Terminated
    BY Zenon, <1>4 DEF run_event_loop_exit, handle_interrupt, abort, Terminated
  <1>5. QED
    BY Zenon, <1>1, <1>2, <1>3, <1>4 DEF Next, Step

\* FlowInv is an invariant of the pool.
THEOREM FlowSafety == Spec => []FlowInv
  <1>1. TypeOK /\ SlotInv /\ QueueInv /\ RaceInv /\ EventInv /\ FlowInv /\ [Next]_vars => FlowInv'
    <2> SUFFICES ASSUME TypeOK, SlotInv, QueueInv, RaceInv, EventInv, FlowInv, [Next]_vars, Undisturbed'
                 PROVE  Flow'
      BY Zenon DEF FlowInv
    <2>0. EventTypes
      BY Zenon, EventTypesHold
    <2>1. CASE UNCHANGED vars
      <3>1. Flow
        BY Zenon, <2>1 DEF FlowInv, Undisturbed
      <3>2. QED
        BY Zenon, <2>0, <2>1, <3>1, MainQuietKeepsFlow
    <2>2. CASE Next
      <3>1. ~stop_el /\ ~spawn_failed /\ ~raced
        BY Zenon, <2>2, DisturbanceStays, RaceFlags DEF TypeOK, Undisturbed
      <3>2. Flow /\ NoMeeting /\ Tracked
        BY Zenon, <3>1 DEF FlowInv, Undisturbed, RaceInv, EventInv
      <3>3. spawn_failed' = FALSE /\ stop_el' = FALSE /\ ~raced'
        BY Zenon, <2>2, <3>1, DisturbanceStays DEF TypeOK, Undisturbed
      <3>4. CASE MainStep
        BY Zenon, <2>0, <3>2, <3>3, <3>4, MainKeepsFlow
      <3>5. ASSUME NEW w \in Workers, WorkerStep(w) PROVE Flow'
        BY Zenon, <2>0, <3>1, <3>2, <3>3, <3>5, WorkerKeepsFlow
      <3>6. ASSUME NEW e \in Events, submit_event(e) PROVE Flow'
        BY Zenon, <2>0, <3>2, <3>6, SubmitKeepsFlow
      <3>7. CASE run_event_loop_exit \/ handle_interrupt
        BY Zenon, <3>3, <3>7 DEF run_event_loop_exit, handle_interrupt
      <3>8. CASE abort \/ Terminated
        BY Zenon, <2>0, <3>2, <3>8, MainQuietKeepsFlow DEF abort, Terminated
      <3>9. QED
        BY Zenon, <2>2, <3>4, <3>5, <3>6, <3>7, <3>8 DEF Next, Step
    <2>3. QED
      BY Zenon, <2>1, <2>2
  <1>2. Init => FlowInv
    BY Zenon, InitFlow DEF FlowInv
  <1>3. QED
    BY TypeCorrect, SlotSafety, NodeSafety, RaceSafety, EventSafety, <1>1, <1>2, PTL DEF Spec

\* While the pool is undisturbed, an event submit_event accepted is never lost
\* on its way through the queue, the main thread's hands and the slots.
THEOREM EventsAreKept == Spec => []NothingLost
  <1>1. FlowInv => NothingLost
    BY Zenon DEF FlowInv, Flow, NothingLost
  <1>2. QED
    BY FlowSafety, <1>1, PTL

\* While the pool is undisturbed, every slot is on thread_stk or busy: none is
\* ever leaked by submit_to_thread, dispatch_sqe or handle_thread.
THEOREM SlotsAreConserved == Spec => []SlotsConserved
  <1>1. FlowInv => SlotsConserved
    BY Zenon DEF FlowInv, Flow, SlotsConserved
  <1>2. QED
    BY FlowSafety, <1>1, PTL

===============================================================================
