---------------------------- MODULE WorkerPoolProofs ----------------------------
(***************************************************************************)
(* Proofs about WorkerPool, for every number of slots, threads and events. *)
(***************************************************************************)
EXTENDS WorkerPoolInv, SequenceTheorems, TLAPS

\* What the stack of slots looks like after tss_pop.
LEMMA PopFacts ==
  ASSUME NEW S, NEW q \in Seq(S), q # <<>>
  PROVE  /\ Len(q) \in Nat \ {0} /\ Head(q) = q[1] /\ Head(q) \in S
         /\ Tail(q) \in Seq(S) /\ Len(Tail(q)) = Len(q) - 1
         /\ \A i \in 1 .. Len(q) - 1 : Tail(q)[i] = q[i + 1]
  BY EmptySeq, HeadTailProperties

\* What the stack of slots looks like after tss_push.
LEMMA PushFacts ==
  ASSUME NEW S, NEW q \in Seq(S), NEW x \in S
  PROVE  /\ <<x>> \o q \in Seq(S) /\ Len(<<x>> \o q) = Len(q) + 1
         /\ (<<x>> \o q)[1] = x
         /\ \A i \in 1 .. Len(q) : (<<x>> \o q)[i + 1] = q[i]
  OBVIOUS

\* The queue after que_enqueue.
LEMMA EnqueueFacts ==
  ASSUME NEW S, NEW q \in Seq(S), NEW x \in S
  PROVE  /\ Append(q, x) \in Seq(S) /\ Len(Append(q, x)) = Len(q) + 1
         /\ Append(q, x)[Len(q) + 1] = x
         /\ \A i \in 1 .. Len(q) : Append(q, x)[i] = q[i]
  BY AppendProperties

\* Slot 0 exists: validate_cfg refuses a configuration without workers.
LEMMA ZeroSlot == 0 \in Slots
  BY PoolAssumption DEF Slots

\* The values a slot, a mutex and the hands of the main thread can have.
LEMMA ValueFacts ==
  /\ NoEvent \in MaybeEvent /\ NoEvent \notin Events
  /\ \A e : e \in MaybeEvent <=> e \in Events \/ e = NoEvent
  /\ Workers \subseteq Holder /\ "main" \in Holder /\ "free" \in Holder
  /\ "main" \notin Workers /\ "free" \notin Workers
  BY Zenon, PoolAssumption DEF MaybeEvent, Holder

\* The slots, locks and queues init_state sets up are well typed.
LEMMA InitType == Init => TypeOK
  <1> SUFFICES ASSUME Init PROVE TypeOK
    OBVIOUS
  <1> USE PoolAssumption
  <1>1. thread_stk \in Seq(Slots)
    <2>1. \A i \in 1 .. ThreadC : i - 1 \in Slots
      BY DEF Slots
    <2>2. thread_stk = [i \in 1 .. ThreadC |-> i - 1]
      BY Zenon DEF Init, InitStack
    <2>3. thread_stk \in [1 .. ThreadC -> Slots]
      BY <2>1, <2>2
    <2>4. QED
      BY <2>3
  <1>2. /\ is_online \in [Slots -> BOOLEAN] /\ has_event \in [Slots -> BOOLEAN]
        /\ ev_from_sqe \in [Slots -> BOOLEAN]
        /\ lock_init \in [Slots -> BOOLEAN] /\ cond_init \in [Slots -> BOOLEAN]
    BY Zenon DEF Init
  <1>3. sqes \in Seq(Events) /\ runs \in [Events -> Nat] /\ counter \in [Workers -> Nat]
    BY DEF Init
  <1>4. /\ pkt \in [Slots -> MaybeEvent]
        /\ sqe_node \in [Slots -> MaybeEvent]
        /\ ev_lock \in [Slots -> Holder]
        /\ tpc \in [Workers -> ThreadPC]
        /\ tslot \in [Workers -> Slots] /\ tev \in [Workers -> MaybeEvent]
    BY Zenon, ZeroSlot, ValueFacts DEF Init, ThreadPC
  <1>6. /\ stop_el \in BOOLEAN /\ aborted \in BOOLEAN
        /\ raced \in BOOLEAN /\ spawn_failed \in BOOLEAN /\ msqe \in BOOLEAN
    BY Zenon DEF Init
  <1>7. /\ online_thread \in Int /\ mpc \in MainPC /\ mslot \in Slots /\ mev \in MaybeEvent
        /\ arrived \subseteq Events /\ refused \subseteq Events
        /\ done \subseteq Events /\ freed \subseteq Events
    BY ZeroSlot, ValueFacts DEF Init, MainPC
  <1>8. QED
    BY Zenon, <1>1, <1>2, <1>3, <1>4, <1>6, <1>7 DEF TypeOK

USE DEF vars, stateVars, slotVars, lockVars, mainVars, handVars, threadVars, histVars,
        InitStack, TakeNode, AfterStore, ShouldLeave, FreeNode, PushSlot, MakeLock

\* A step of run_event_loop, dispatch_sqe or submit_to_thread keeps every type.
LEMMA MainType ==
  ASSUME TypeOK, MainStep PROVE TypeOK'
  <1> USE DEF MainAt
  <1>1. CASE run_event_loop_top
    BY Zenon, <1>1 DEF TypeOK, run_event_loop_top, MainPC
  <1>2. CASE dispatch_sqe
    <2>1. thread_stk' \in Seq(Slots) /\ mslot' \in Slots
      <3>1. thread_stk \in Seq(Slots) /\ mslot \in Slots
        BY Zenon DEF TypeOK
      <3>2. QED
        BY Zenon, <1>2, <3>1, PopFacts DEF dispatch_sqe, ClaimSlot
    <2>2. raced' \in BOOLEAN /\ mpc' \in MainPC /\ msqe' \in BOOLEAN
      BY Zenon, <1>2 DEF TypeOK, dispatch_sqe, ClaimSlot, MainPC
    <2>3. QED
      BY Zenon, <1>2, <2>1, <2>2 DEF TypeOK, dispatch_sqe
  <1>3. CASE run_event_loop_next
    BY Zenon, <1>3 DEF TypeOK, run_event_loop_next, MainPC
  <1>4. CASE main_lock
    BY Zenon, <1>4 DEF TypeOK, main_lock, MainPC
  <1>5. CASE main_acquire
    <2>1. ev_lock' \in [Slots -> Holder]
      BY ZenonT(40), <1>5, ValueFacts DEF TypeOK, main_acquire
    <2>2. QED
      BY Zenon, <1>5, <2>1 DEF TypeOK, main_acquire, MainPC
  <1>6. CASE main_fill
    <2>1. ev_from_sqe' \in [Slots -> BOOLEAN]
      BY Zenon, <1>6 DEF TypeOK, main_fill
    <2>2. sqes' \in Seq(Events) /\ mev' \in MaybeEvent
      <3>1. sqes \in Seq(Events) /\ mev \in MaybeEvent
        BY Zenon DEF TypeOK
      <3>2. \/ UNCHANGED <<sqes, mev>>
            \/ sqes # <<>> /\ mev' = Head(sqes) /\ sqes' = Tail(sqes)
        BY Zenon, <1>6 DEF main_fill
      <3>3. QED
        BY Zenon, <3>1, <3>2, PopFacts, ValueFacts
    <2>3. QED
      BY Zenon, <1>6, <2>1, <2>2 DEF TypeOK, main_fill, MainPC
  <1>11. CASE main_mark
    BY Zenon, <1>11 DEF TypeOK, main_mark, MainPC
  <1>12. CASE main_store
    <2>1. sqe_node' \in [Slots -> MaybeEvent] /\ pkt' \in [Slots -> MaybeEvent]
      <3>1. /\ mslot \in Slots /\ mev \in MaybeEvent
            /\ sqe_node \in [Slots -> MaybeEvent] /\ pkt \in [Slots -> MaybeEvent]
        BY Zenon DEF TypeOK
      <3>2. /\ pkt' = pkt \/ pkt' = [pkt EXCEPT ![mslot] = mev]
            /\ sqe_node' = sqe_node \/ sqe_node' = [sqe_node EXCEPT ![mslot] = mev]
        BY Zenon, <1>12 DEF main_store
      <3>3. QED
        BY Zenon, <3>1, <3>2
    <2>2. mpc' \in MainPC
      BY Zenon, <1>12 DEF main_store, MainPC
    <2>3. QED
      BY Zenon, <1>12, <2>1, <2>2 DEF TypeOK, main_store
  <1>7. CASE main_signal
    BY Zenon, <1>7 DEF TypeOK, main_signal, MainPC
  <1>8. CASE main_unlock
    <2>1. ev_lock' \in [Slots -> Holder]
      BY Zenon, <1>8, ValueFacts DEF TypeOK, main_unlock
    <2>2. mpc' \in MainPC /\ mslot' \in Slots /\ mev' \in MaybeEvent /\ msqe' \in BOOLEAN
      BY Zenon, <1>8, ZeroSlot, ValueFacts DEF TypeOK, main_unlock, ReleaseHands, MainPC
    <2>3. QED
      BY Zenon, <1>8, <2>1, <2>2 DEF TypeOK, main_unlock
  <1>9. CASE spawn_thread
    <2>1. mpc' \in MainPC /\ mslot' \in Slots /\ mev' \in MaybeEvent /\ msqe' \in BOOLEAN
      BY Zenon, <1>9, ZeroSlot, ValueFacts DEF TypeOK, spawn_thread, ReleaseHands, MainPC
    <2>2. tpc' \in [Workers -> ThreadPC] /\ tslot' \in [Workers -> Slots]
      BY ZenonT(40), <1>9 DEF TypeOK, spawn_thread, ThreadPC
    <2>4. spawn_failed' \in BOOLEAN
      BY Zenon, <1>9 DEF TypeOK, spawn_thread
    <2>5. QED
      BY Zenon, <1>9, <2>1, <2>2, <2>4 DEF TypeOK, spawn_thread
  <1>10. QED
    BY Zenon, <1>1, <1>2, <1>3, <1>4, <1>5, <1>6, <1>7, <1>8, <1>9, <1>11, <1>12
    DEF MainStep

\* A step of handle_thread keeps every type.
LEMMA WorkerType ==
  ASSUME TypeOK, NEW w \in Workers, WorkerStep(w) PROVE TypeOK'
  <1> USE DEF At, Goto
  <1> DEFINE TypedBegin == /\ tpc' \in [Workers -> ThreadPC] /\ ev_lock' \in [Slots -> Holder]
                           /\ tev' \in [Workers -> MaybeEvent] /\ runs' \in [Events -> Nat]
  <1>a. ASSUME BeginHandler(w, tslot[w]) PROVE TypedBegin
    <2>1. SlotEvent(tslot[w]) \in MaybeEvent
      BY Zenon, <1>a DEF TypeOK, SlotEvent
    <2>2. tpc' \in [Workers -> ThreadPC] /\ runs' \in [Events -> Nat]
      BY <1>a, <2>1 DEF TypeOK, BeginHandler, ThreadPC
    <2>3. ev_lock' \in [Slots -> Holder] /\ tev' \in [Workers -> MaybeEvent]
      BY Zenon, <1>a, <2>1, ValueFacts DEF TypeOK, BeginHandler
    <2>5. QED
      BY Zenon, <2>2, <2>3
  <1>b. ASSUME EnterWait(w, tslot[w]) PROVE TypedBegin
    BY Zenon, <1>b DEF TypeOK, EnterWait, ThreadPC
  <1>1. CASE handle_thread_start(w)
    BY <1>1 DEF TypeOK, handle_thread_start, ThreadPC
  <1>2. CASE handle_thread_again(w)
    <2>1. TypedBegin
      BY Zenon, <1>2, <1>a, <1>b DEF TypeOK, handle_thread_again
    <2>2. is_online' \in [Slots -> BOOLEAN] /\ counter' \in [Workers -> Nat]
      BY Zenon, <1>2 DEF TypeOK, handle_thread_again
    <2>3. QED
      BY Zenon, <1>2, <2>1, <2>2 DEF TypeOK, handle_thread_again
  <1>3. ASSUME NEW timedout \in BOOLEAN, handle_thread_wake(w, timedout) PROVE TypeOK'
    <2>3. ASSUME Goto(w, "out"), UNCHANGED <<tev, runs>>,
                 ev_lock' = [ev_lock EXCEPT ![tslot[w]] = w]
          PROVE  TypedBegin
      BY Zenon, <2>3, ValueFacts DEF TypeOK, ThreadPC
    <2>6. TypedBegin
      BY Zenon, <1>3, <1>a, <1>b, <2>3 DEF handle_thread_wake
    <2>7. raced' \in BOOLEAN
      BY Zenon, <1>3 DEF TypeOK, handle_thread_wake
    <2>4. counter' \in [Workers -> Nat]
      BY <1>3 DEF TypeOK, handle_thread_wake
    <2>5. QED
      BY Zenon, <1>3, <2>4, <2>6, <2>7 DEF TypeOK, handle_thread_wake
  <1>4. CASE handle_thread_handled(w)
    <2>1. done' \subseteq Events
      BY <1>4, ValueFacts DEF TypeOK, handle_thread_handled
    <2>2. freed' \subseteq Events /\ sqe_node' \in [Slots -> MaybeEvent] /\ tev' \in [Workers -> MaybeEvent]
      BY Zenon, <1>4, ValueFacts DEF TypeOK, handle_thread_handled
    <2>3. tpc' \in [Workers -> ThreadPC] /\ has_event' \in [Slots -> BOOLEAN]
      BY Zenon, <1>4 DEF TypeOK, handle_thread_handled, ThreadPC
    <2>5. QED
      BY Zenon, <1>4, <2>1, <2>2, <2>3 DEF TypeOK, handle_thread_handled
  <1>5. CASE handle_thread_push(w)
    <2>1. thread_stk' \in Seq(Slots)
      BY Zenon, <1>5, PushFacts DEF TypeOK, handle_thread_push
    <2>2. QED
      BY Zenon, <1>5, <2>1 DEF TypeOK, handle_thread_push, ThreadPC
  <1>6. CASE handle_thread_unlock(w)
    <2>1. ev_lock' \in [Slots -> Holder]
      BY Zenon, <1>6, ValueFacts DEF TypeOK, handle_thread_unlock
    <2>2. QED
      BY Zenon, <1>6, <2>1 DEF TypeOK, handle_thread_unlock, ThreadPC
  <1>7. CASE handle_thread_destroy(w)
    BY Zenon, <1>7 DEF TypeOK, handle_thread_destroy, ThreadPC
  <1>8. CASE reset_thread(w)
    <2>1. sqe_node' \in [Slots -> MaybeEvent] /\ ev_lock' \in [Slots -> Holder]
      <3>1. tslot[w] \in Slots /\ sqe_node \in [Slots -> MaybeEvent] /\ ev_lock \in [Slots -> Holder]
        BY Zenon DEF TypeOK
      <3>2. sqe_node' = sqe_node \/ sqe_node' = [sqe_node EXCEPT ![tslot[w]] = NoEvent]
        BY Zenon, <1>8 DEF reset_thread
      <3>3. ev_lock' = ev_lock \/ ev_lock' = [ev_lock EXCEPT ![tslot[w]] = "free"]
        BY Zenon, <1>8 DEF reset_thread
      <3>4. QED
        BY Zenon, <3>1, <3>2, <3>3, ValueFacts
    <2>2. QED
      BY Zenon, <1>8, <2>1 DEF TypeOK, reset_thread, ThreadPC
  <1>9. CASE handle_thread_return(w)
    BY <1>9, ZeroSlot DEF TypeOK, handle_thread_return, ThreadPC
  <1>10. QED
    BY Zenon, <1>1, <1>2, <1>3, <1>4, <1>5, <1>6, <1>7, <1>8, <1>9 DEF WorkerStep

\* So do submit_event, the end of the loop, the signal handler and an abort.
LEMMA OtherType ==
  ASSUME TypeOK,
         \/ \E e \in Events : submit_event(e)
         \/ run_event_loop_exit \/ handle_interrupt \/ abort \/ UNCHANGED vars
  PROVE  TypeOK'
  <1> USE DEF MainAt
  <1>1. ASSUME NEW e \in Events, submit_event(e) PROVE TypeOK'
    <2>1. thread_stk' \in Seq(Slots) /\ mslot' \in Slots
      <3>1. thread_stk \in Seq(Slots) /\ mslot \in Slots
        BY Zenon DEF TypeOK
      <3>2. QED
        BY Zenon, <1>1, <3>1, PopFacts DEF submit_event, ClaimSlot
    <2>2. raced' \in BOOLEAN /\ mpc' \in MainPC
      BY Zenon, <1>1 DEF TypeOK, submit_event, ClaimSlot, MainPC
    <2>3. mev' \in MaybeEvent /\ arrived' \subseteq Events /\ refused' \subseteq Events
      BY Zenon, <1>1, ValueFacts DEF TypeOK, submit_event
    <2>4. sqes' \in Seq(Events)
      <3>1. sqes \in Seq(Events)
        BY Zenon DEF TypeOK
      <3>2. sqes' = sqes \/ sqes' = Append(sqes, e)
        BY Zenon, <1>1 DEF submit_event
      <3>3. QED
        BY Zenon, <3>1, <3>2, EnqueueFacts
    <2>5. QED
      BY Zenon, <1>1, <2>1, <2>2, <2>3, <2>4 DEF TypeOK, submit_event
  <1>2. CASE run_event_loop_exit
    BY Zenon, <1>2 DEF TypeOK, run_event_loop_exit, MainPC
  <1>3. CASE handle_interrupt
    BY Zenon, <1>3 DEF TypeOK, handle_interrupt
  <1>4. CASE abort
    BY Zenon, <1>4 DEF TypeOK, abort
  <1>5. CASE UNCHANGED vars
    BY Zenon, <1>5 DEF TypeOK
  <1>6. QED
    BY Zenon, <1>1, <1>2, <1>3, <1>4, <1>5

\* Every step keeps every variable within its type.
THEOREM TypeCorrect == Spec => []TypeOK
  <1>1. TypeOK /\ [Next]_vars => TypeOK'
    BY Zenon, MainType, WorkerType, OtherType DEF Next, Step, Terminated
  <1>2. QED
    BY InitType, <1>1, PTL DEF Spec

-------------------------------------------------------------------------------
(* Who may touch a slot.                                                   *)

\* tss_pop takes the top slot, which is nowhere else in the stack.
LEMMA StackPop ==
  ASSUME thread_stk \in Seq(Slots), thread_stk # <<>>, Distinct(thread_stk),
         thread_stk' = Tail(thread_stk)
  PROVE  /\ Head(thread_stk) \in Stacked /\ Head(thread_stk) \notin Stacked'
         /\ Stacked' \subseteq Stacked /\ Distinct(thread_stk)'
  <1>1. /\ Len(thread_stk) \in Nat \ {0} /\ Head(thread_stk) = thread_stk[1]
        /\ Len(thread_stk') = Len(thread_stk) - 1
        /\ \A i \in 1 .. Len(thread_stk) - 1 : thread_stk'[i] = thread_stk[i + 1]
    BY Zenon, PopFacts
  <1> HIDE DEF Slots
  <1>2. QED
    BY <1>1 DEF Stacked, Distinct

\* tss_push adds the slot to the stack.
LEMMA StackPush ==
  ASSUME thread_stk \in Seq(Slots), Distinct(thread_stk), NEW s \in Slots, s \notin Stacked,
         thread_stk' = <<s>> \o thread_stk
  PROVE  Stacked' = Stacked \cup {s} /\ Distinct(thread_stk)'
  <1>1. /\ Len(thread_stk) \in Nat /\ Len(thread_stk') = Len(thread_stk) + 1
        /\ thread_stk'[1] = s
        /\ \A i \in 1 .. Len(thread_stk) : thread_stk'[i + 1] = thread_stk[i]
    BY PushFacts
  <1>2. \A i \in 1 .. Len(thread_stk') : i = 1 \/ (i - 1 \in 1 .. Len(thread_stk) /\ thread_stk'[i] = thread_stk[i - 1])
    BY <1>1
  <1>3. Stacked' = Stacked \cup {s}
    <2>1. \A x \in Stacked' : x \in Stacked \cup {s}
      BY <1>1, <1>2 DEF Stacked
    <2>2. \A i \in 1 .. Len(thread_stk) : i + 1 \in 1 .. Len(thread_stk')
      BY <1>1
    <2>3. \A x \in Stacked : x \in Stacked'
      BY <1>1, <2>2 DEF Stacked
    <2>4. s \in Stacked'
      BY <1>1 DEF Stacked
    <2>5. QED
      BY Zenon, <2>1, <2>3, <2>4
  <1>4. Distinct(thread_stk)'
    <2>1. \A i \in 1 .. Len(thread_stk) : thread_stk[i] # s
      BY Zenon DEF Stacked
    <2>2. QED
      BY <1>1, <1>2, <2>1 DEF Distinct
  <1>5. QED
    BY Zenon, <1>3, <1>4

===============================================================================
