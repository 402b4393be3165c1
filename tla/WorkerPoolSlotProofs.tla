-------------------------- MODULE WorkerPoolSlotProofs --------------------------
(***************************************************************************)
(* Who may touch a slot: SlotInv is inductive relative to TypeOK.          *)
(***************************************************************************)
EXTENDS WorkerPoolProofs

USE DEF vars, stateVars, slotVars, lockVars, mainVars, handVars, threadVars, histVars,
        InitStack, TakeNode, AfterStore, ShouldLeave, FreeNode, PushSlot, MakeLock

\* The types the slot layer needs.
SlotTypes ==
  /\ thread_stk \in Seq(Slots)
  /\ is_online \in [Slots -> BOOLEAN] /\ has_event \in [Slots -> BOOLEAN]
  /\ lock_init \in [Slots -> BOOLEAN] /\ cond_init \in [Slots -> BOOLEAN]
  /\ ev_lock \in [Slots -> Holder]
  /\ mpc \in MainPC /\ mslot \in Slots
  /\ tpc \in [Workers -> ThreadPC] /\ tslot \in [Workers -> Slots]

\* They are part of TypeOK.
LEMMA SlotTypesHold == TypeOK => SlotTypes
  BY Zenon DEF TypeOK, SlotTypes

\* The position of one worker and no slot of another changes.
Only(w) == \A v \in Workers : v # w => tpc'[v] = tpc[v] /\ tslot'[v] = tslot[v]

\* After init_state every slot is on the stack, offline and empty.
LEMMA InitSlot == Init => SlotInv
  <1> SUFFICES ASSUME Init PROVE SlotInv
    OBVIOUS
  <1>1. OneTenant /\ MadeInv /\ MutexInv /\ OnlineInv
    BY Zenon DEF Init, OneTenant, MadeInv, MutexInv, OnlineInv, Tenant, Owner, Unmade, Holding, MainHolding, Slots
  <1>2. ClaimInv
    <2>1. Distinct(thread_stk) /\ \A s \in Stacked : s \in Slots
      BY PoolAssumption DEF Init, Distinct, Stacked, Slots
    <2>2. QED
      BY Zenon, <2>1 DEF Init, ClaimInv, MainHas, MainClaiming, MainHolding, Fresh, Unfilled, Slots
  <1>3. QED
    BY Zenon, <1>1, <1>2 DEF SlotInv

\* Popping a slot moves it from the stack to the hands of the main thread.
LEMMA ClaimKeepsSlotInv ==
  ASSUME SlotTypes, SlotInv, mpc \in {"top", "poll"}, NEW s \in Slots, ClaimSlot(s),
         UNCHANGED <<slotVars, lockVars, tpc, tslot>>
  PROVE  SlotInv'
  <1>1. OneTenant' /\ MadeInv' /\ OnlineInv'
    BY DEF SlotInv, OneTenant, MadeInv, OnlineInv, Tenant, Owner, On
  <1>2. MutexInv'
    BY Zenon DEF SlotInv, MutexInv, ClaimSlot, MainHolding, Holding, On
  <1>3. s \in Stacked /\ s \notin Stacked' /\ Stacked' \subseteq Stacked /\ Distinct(thread_stk')
    BY Zenon, StackPop DEF SlotTypes, SlotInv, ClaimInv, ClaimSlot, Distinct
  <1>4. mslot' = s /\ mpc' = "lock"
    BY Zenon DEF ClaimSlot
  <1>5. ClaimInv'
    BY Zenon, <1>3, <1>4 DEF SlotInv, ClaimInv, MainHas, Fresh, Unfilled
  <1>6. QED
    BY Zenon, <1>1, <1>2, <1>5 DEF SlotInv

\* The main thread's steps on a slot keep SlotInv.
LEMMA MainKeepsSlotInv ==
  ASSUME SlotTypes, SlotInv, MainStep PROVE SlotInv'
  <1> USE DEF MainAt
  <1> DEFINE Same == UNCHANGED <<thread_stk, slotVars, lockVars, mslot, tpc, tslot>>
  <1>a. ASSUME Same, mpc' \in {"top", "poll"} PROVE SlotInv'
    <2>1. OneTenant' /\ MadeInv' /\ OnlineInv'
      BY Zenon, <1>a DEF SlotInv, OneTenant, MadeInv, OnlineInv, Tenant, Owner, On
    <2>2. MutexInv'
      BY Zenon, <1>a DEF SlotInv, MutexInv, MainHolding
    <2>3. ClaimInv'
      BY Zenon, <1>a DEF SlotInv, ClaimInv, MainHas, MainClaiming, MainHolding, Fresh, Unfilled, Stacked
    <2>4. QED
      BY Zenon, <2>1, <2>2, <2>3 DEF SlotInv
  <1>1. CASE run_event_loop_top \/ run_event_loop_next
    BY Zenon, <1>1, <1>a DEF run_event_loop_top, run_event_loop_next
  <1>2. CASE dispatch_sqe
    <2>1. CASE thread_stk = <<>>
      BY Zenon, <1>2, <2>1, <1>a DEF dispatch_sqe, ClaimSlot
    <2>2. CASE thread_stk # <<>>
      BY Zenon, <1>2, <2>2, ClaimKeepsSlotInv DEF dispatch_sqe
    <2>3. QED
      BY Zenon, <2>1, <2>2
  <1>3. CASE main_lock
    <2>1. Same /\ mpc = "lock" /\ mpc' = "acquire"
      BY Zenon, <1>3 DEF main_lock
    <2>2. OneTenant' /\ MadeInv' /\ OnlineInv' /\ MutexInv'
      BY <2>1 DEF SlotInv, OneTenant, MadeInv, OnlineInv, MutexInv, Tenant, Owner, On, MainHolding
    <2>3. ClaimInv'
      BY Zenon, <2>1 DEF SlotInv, ClaimInv, MainHas, MainClaiming, Fresh, Unfilled, Stacked, On, Owner
    <2>4. QED
      BY Zenon, <2>2, <2>3 DEF SlotInv
  <1>4. CASE main_acquire
    <2>1. /\ UNCHANGED <<thread_stk, slotVars, lock_init, cond_init, mslot, tpc, tslot>>
          /\ mpc = "acquire" /\ mpc' = "fill"
      BY Zenon, <1>4 DEF main_acquire
    <2>2. OneTenant' /\ MadeInv' /\ OnlineInv'
      BY Zenon, <2>1 DEF SlotInv, OneTenant, MadeInv, OnlineInv, Tenant, Owner, On
    <2>3. MutexInv'
      <3>1. CASE ev_lock[mslot] = "free" /\ ev_lock' = [ev_lock EXCEPT ![mslot] = "main"]
        BY <2>1, <3>1, ValueFacts DEF SlotTypes, SlotInv, MutexInv, On
      <3>2. CASE ~lock_init[mslot] /\ UNCHANGED ev_lock
        <4>1. PICK v \in Workers : On(v, mslot) /\ tpc[v] \in Unmade
          BY Zenon, <3>2 DEF SlotTypes, SlotInv, MadeInv
        <4>2. \A w \in Workers : On(w, mslot) => tpc[w] \in Past
          BY Zenon, <4>1 DEF SlotInv, OneTenant, Tenant, Unmade, Past, On
        <4>3. QED
          BY Zenon, <2>1, <3>2, <4>2 DEF SlotInv, MutexInv, On
      <3>3. QED
        BY Zenon, <1>4, <3>1, <3>2 DEF main_acquire
    <2>4. ClaimInv'
      BY Zenon, <2>1 DEF SlotInv, ClaimInv, MainHas, MainClaiming, MainHolding, Fresh, Unfilled, Stacked, On, Owner
    <2>5. QED
      BY Zenon, <2>2, <2>3, <2>4 DEF SlotInv
  <1>5. CASE main_fill
    <2>1. /\ UNCHANGED <<thread_stk, is_online, has_event, lockVars, mslot, tpc, tslot>>
          /\ mpc = "fill" /\ mpc' = "mark"
      BY Zenon, <1>5 DEF main_fill
    <2>2. OneTenant' /\ MadeInv' /\ OnlineInv' /\ MutexInv'
      BY <2>1 DEF SlotInv, OneTenant, MadeInv, OnlineInv, MutexInv, Tenant, Owner, On, MainHolding
    <2>3. ClaimInv'
      BY Zenon, <2>1 DEF SlotInv, ClaimInv, MainHas, MainClaiming, MainHolding, Fresh, Unfilled, Stacked, On, Owner
    <2>4. QED
      BY Zenon, <2>2, <2>3 DEF SlotInv
  <1>10. CASE main_mark
    <2>1. /\ UNCHANGED <<thread_stk, is_online, lockVars, mslot, tpc, tslot>>
          /\ mpc = "mark" /\ mpc' = "store" /\ has_event' = [has_event EXCEPT ![mslot] = TRUE]
      BY Zenon, <1>10 DEF main_mark
    <2>2. OneTenant' /\ MadeInv' /\ OnlineInv' /\ MutexInv'
      BY <2>1 DEF SlotInv, OneTenant, MadeInv, OnlineInv, MutexInv, Tenant, Owner, On, MainHolding
    <2>4. ClaimInv'
      <3>1. MainHas(mslot) /\ MainHas(mslot)' /\ \A s \in Slots : MainHas(s)' => s = mslot
        BY Zenon, <2>1 DEF MainHas, MainClaiming, MainHolding
      <3>3. \A s \in Stacked : s \in Slots /\ s # mslot
        BY <3>1 DEF SlotInv, ClaimInv, Stacked, SlotTypes
      <3>4. Stacked' = Stacked /\ \A s \in Slots : s # mslot => has_event'[s] = has_event[s]
        BY Zenon, <2>1 DEF Stacked, SlotTypes
      <3>5. QED
        BY <2>1, <3>1, <3>3, <3>4 DEF SlotTypes, SlotInv, ClaimInv, Fresh, Unfilled, On, Owner
    <2>5. QED
      BY Zenon, <2>2, <2>4 DEF SlotInv
  <1>11. CASE main_store
    <2>1. /\ UNCHANGED <<thread_stk, is_online, has_event, lockVars, mslot, tpc, tslot>>
          /\ mpc = "store" /\ mpc' = IF is_online[mslot] THEN "signal" ELSE "unlock_offline"
      BY Zenon, <1>11 DEF main_store
    <2>2. OneTenant' /\ MadeInv' /\ OnlineInv' /\ MutexInv'
      BY <2>1 DEF SlotInv, OneTenant, MadeInv, OnlineInv, MutexInv, Tenant, Owner, On, MainHolding
    <2>3. \A w \in Workers : On(w, mslot) /\ ~is_online[mslot] => ~Owner(w)
      BY Zenon, <2>1 DEF SlotInv, OnlineInv, ClaimInv, MainHas, MainClaiming, MainHolding, Fresh, On
    <2>4. ClaimInv'
      BY Zenon, <2>1, <2>3 DEF SlotInv, ClaimInv, MainHas, MainClaiming, MainHolding, Fresh, Unfilled, Stacked, On, Owner
    <2>5. QED
      BY Zenon, <2>2, <2>4 DEF SlotInv
  <1>6. CASE main_signal
    <2>1. Same /\ mpc = "signal" /\ mpc' = "unlock"
      BY Zenon, <1>6 DEF main_signal
    <2>2. OneTenant' /\ MadeInv' /\ OnlineInv' /\ MutexInv'
      BY <2>1 DEF SlotInv, OneTenant, MadeInv, OnlineInv, MutexInv, Tenant, Owner, On, MainHolding
    <2>3. ClaimInv'
      BY Zenon, <2>1 DEF SlotInv, ClaimInv, MainHas, MainClaiming, MainHolding, Fresh, Unfilled, Stacked, On, Owner
    <2>4. QED
      BY Zenon, <2>2, <2>3 DEF SlotInv
  <1>7. CASE main_unlock
    <2>1. /\ UNCHANGED <<thread_stk, slotVars, lock_init, cond_init, tpc, tslot>>
          /\ lock_init[mslot] /\ mpc \in MainHolding
          /\ ev_lock' = [ev_lock EXCEPT ![mslot] = "free"]
          /\ \/ mpc' = "poll"
             \/ mpc = "unlock_offline" /\ mpc' = "spawn" /\ mslot' = mslot
      BY Zenon, <1>7 DEF main_unlock, MainHolding
    <2>2. OneTenant' /\ MadeInv' /\ OnlineInv'
      BY Zenon, <2>1 DEF SlotInv, OneTenant, MadeInv, OnlineInv, Tenant, Owner, On
    <2>3. \A w \in Workers : tslot[w] = mslot => tpc[w] \notin Holding
      BY Zenon, <2>1, ValueFacts DEF SlotInv, MutexInv, Past, Unmade, Holding, On
    <2>4. MutexInv'
      BY Zenon, <2>1, <2>3 DEF SlotTypes, SlotInv, MutexInv, MainHolding
    <2>5. ClaimInv'
      BY Zenon, <2>1 DEF SlotInv, ClaimInv, MainHas, MainClaiming, MainHolding, Fresh, Unfilled, Stacked, On, Owner
    <2>6. QED
      BY Zenon, <2>2, <2>4, <2>5 DEF SlotInv
  <1>8. CASE spawn_thread
    <2>1. CASE UNCHANGED <<tpc, tslot>>
      <3>1. UNCHANGED <<thread_stk, slotVars, lockVars, tpc, tslot>> /\ mpc' = "poll"
        BY Zenon, <1>8, <2>1 DEF spawn_thread
      <3>2. OneTenant' /\ MadeInv' /\ OnlineInv' /\ MutexInv'
        BY <3>1 DEF SlotInv, OneTenant, MadeInv, OnlineInv, MutexInv, Tenant, Owner, On, MainHolding
      <3>3. ClaimInv'
        BY Zenon, <3>1 DEF SlotInv, ClaimInv, MainHas, MainClaiming, MainHolding, Fresh, Unfilled, Stacked
      <3>4. QED
        BY Zenon, <3>2, <3>3 DEF SlotInv
    <2>2. ASSUME NEW w \in Workers, tpc[w] = "none",
                 tpc' = [tpc EXCEPT ![w] = "start"], tslot' = [tslot EXCEPT ![w] = mslot]
          PROVE  SlotInv'
      <3>1. /\ UNCHANGED <<thread_stk, slotVars, lockVars>> /\ mpc = "spawn" /\ mpc' = "poll"
            /\ Only(w) /\ tpc'[w] = "start" /\ tslot'[w] = mslot
        BY Zenon, <1>8, <2>2 DEF spawn_thread, SlotTypes, Only
      <3>2. \A v \in Workers : On(v, mslot) => ~Owner(v)
        BY Zenon, <3>1 DEF SlotInv, ClaimInv
      <3>3. \A v \in Workers : On(v, mslot) => ~Tenant(v)
        BY Zenon, <3>1, <3>2 DEF SlotInv, ClaimInv, MadeInv, Unmade, On, Owner, Tenant
      <3>4. OneTenant'
        BY ZenonT(40), <3>1, <3>3 DEF SlotInv, OneTenant, Tenant, On, Only
      <3>5. MadeInv'
        BY <2>2, <3>1 DEF SlotInv, MadeInv, Unmade, Condless, On, Only
      <3>6. MutexInv'
        BY Zenon, <2>2, <3>1 DEF SlotInv, MutexInv, Holding, MainHolding, Only
      <3>7. ~is_online[mslot]
        BY Zenon, <3>2 DEF SlotTypes, SlotInv, OnlineInv
      <3>8. OnlineInv'
        BY <2>2, <3>1, <3>7 DEF SlotInv, OnlineInv, On, Owner, Only
      <3>9. mslot \notin Stacked
        BY Zenon, <3>1 DEF SlotInv, ClaimInv, MainHas, MainClaiming
      <3>10. ClaimInv'
        BY <2>2, <3>1, <3>9 DEF SlotInv, ClaimInv, MainHas, MainClaiming, MainHolding, Fresh, Unfilled, Stacked, Only
      <3>11. QED
        BY Zenon, <3>4, <3>5, <3>6, <3>8, <3>10 DEF SlotInv
    <2>3. QED
      BY Zenon, <1>8, <2>1, <2>2 DEF spawn_thread
  <1>9. QED
    BY Zenon, <1>1, <1>2, <1>3, <1>4, <1>5, <1>6, <1>7, <1>8, <1>10, <1>11 DEF MainStep

\* Taking ev_lock and finding an event: the slot is neither on the stack nor in
\* the hands of the main thread.
LEMMA FoundIsUnclaimed ==
  ASSUME SlotTypes, SlotInv, NEW w \in Workers, tpc[w] \in {"lock", "wait"},
         ev_lock[tslot[w]] = "free", has_event[tslot[w]]
  PROVE  ~MainHas(tslot[w]) /\ tslot[w] \notin Stacked
  <1>1. tslot[w] \notin Stacked
    BY Zenon DEF SlotInv, ClaimInv
  <1>2. ASSUME MainHas(tslot[w]) PROVE FALSE
    <2>1. mslot = tslot[w] /\ mpc \in MainClaiming
      BY Zenon, <1>2 DEF MainHas
    <2>2. mpc \notin Unfilled \ {"store"}
      BY Zenon, <2>1 DEF SlotInv, ClaimInv
    <2>3. mpc \notin MainHolding
      BY Zenon, <2>1 DEF SlotInv, MutexInv, Past, Unmade, On
    <2>4. mpc # "spawn"
      BY Zenon, <2>1 DEF SlotInv, ClaimInv, On, Owner
    <2>5. QED
      BY Zenon, <2>1, <2>2, <2>3, <2>4 DEF MainClaiming, Unfilled, MainHolding
  <1>3. QED
    BY Zenon, <1>1, <1>2

\* Taking ev_lock to handle, to wait or to leave keeps SlotInv.
LEMMA LockKeepsSlotInv ==
  ASSUME SlotTypes, SlotInv, NEW w \in Workers, tpc[w] \in {"lock", "wait"},
         ev_lock[tslot[w]] = "free", Only(w), tslot'[w] = tslot[w],
         UNCHANGED <<thread_stk, has_event, lock_init, cond_init, mpc, mslot>>,
         tpc[w] = "wait" => is_online' = is_online,
         tpc[w] = "lock" => is_online' = [is_online EXCEPT ![tslot[w]] = TRUE],
         \/ tpc'[w] = "wait" /\ ev_lock' = ev_lock
         \/ /\ tpc'[w] = "out" \/ (tpc'[w] = "handle" /\ has_event[tslot[w]])
            /\ ev_lock' = [ev_lock EXCEPT ![tslot[w]] = w]
  PROVE  SlotInv'
  <1> DEFINE s == tslot[w]
  <1>1. s \in Slots /\ tpc'[w] \in {"wait", "out", "handle"}
    BY Zenon DEF SlotTypes
  <1>2. OneTenant'
    BY <1>1 DEF SlotInv, OneTenant, Tenant, Only
  <1>3. MadeInv'
    BY <1>1 DEF SlotInv, MadeInv, Unmade, Condless, On, Only
  <1>4. is_online'[s] /\ \A r \in Slots : r # s => is_online'[r] = is_online[r]
    <2>1. CASE tpc[w] = "lock"
      BY Zenon, <1>1, <2>1 DEF SlotTypes
    <2>2. CASE tpc[w] = "wait"
      BY Zenon, <1>1, <2>2 DEF SlotTypes, SlotInv, OnlineInv, Owner
    <2>3. QED
      BY Zenon, <2>1, <2>2
  <1>5. \A v \in Workers : v # w /\ tslot[v] = s => ~Tenant(v)
    BY Zenon DEF SlotInv, OneTenant, Tenant
  <1>6. OnlineInv'
    <2>1. \A v \in Workers : Owner(v)' /\ tpc'[v] \notin {"start", "lock"} => is_online'[tslot'[v]]
      BY <1>1, <1>4 DEF SlotTypes, SlotInv, OnlineInv, Owner, Only
    <2>2. \A v \in Workers : tpc'[v] = "start" => ~is_online'[tslot'[v]]
      BY <1>1, <1>4, <1>5 DEF SlotTypes, SlotInv, OnlineInv, Only, Tenant
    <2>3. \A r \in Slots : is_online'[r] => \E v \in Workers : tslot'[v] = r /\ Owner(v)'
      BY <1>1, <1>4 DEF SlotInv, OnlineInv, On, Owner, Only
    <2>4. QED
      BY Zenon, <2>1, <2>2, <2>3 DEF OnlineInv, On
  <1>7. MutexInv'
    <2>1. \A v \in Workers : tpc'[v] \in Holding => ev_lock'[tslot'[v]] = v
      BY <1>1, <1>5 DEF SlotTypes, SlotInv, MutexInv, Holding, Tenant, Only
    <2>2. ASSUME mpc \in MainHolding PROVE mslot # s /\ ev_lock'[mslot] = ev_lock[mslot]
      <3>1. mslot # s
        BY Zenon, <2>2, ValueFacts DEF SlotInv, MutexInv, Past, Unmade, On
      <3>2. QED
        BY Zenon, <3>1 DEF SlotTypes
    <2>3. mpc' \in MainHolding => ev_lock'[mslot'] = "main" \/ \A v \in Workers : tslot'[v] = mslot' => tpc'[v] \in Past
      BY Zenon, <2>2 DEF SlotInv, MutexInv, On, Only
    <2>4. QED
      BY Zenon, <2>1, <2>3 DEF MutexInv, On
  <1>8. ClaimInv'
    <2>1. tpc'[w] = "handle" => ~MainHas(s) /\ s \notin Stacked
      BY Zenon, FoundIsUnclaimed
    <2>3. Stacked' = Stacked /\ Distinct(thread_stk')
      BY DEF Stacked, SlotInv, ClaimInv, Distinct
    <2>4. \A v \in Workers : Fresh(v)' \/ tpc'[v] \in {"handle", "push"} =>
             ~MainHas(tslot[v])' /\ tslot'[v] \notin Stacked'
      BY <1>1, <1>4, <2>1, <2>3 DEF MainHas, SlotTypes, SlotInv, ClaimInv, Fresh, Only
    <2>5. \A v \in Workers : tpc'[v] = "push" => ~has_event'[tslot'[v]]
      BY Zenon, <1>1 DEF SlotInv, ClaimInv, Only
    <2>6. mpc' \in {"unlock_offline", "spawn"} => \A v \in Workers : On(v, mslot)' => ~Owner(v)'
      BY <1>1 DEF SlotInv, ClaimInv, On, Owner, Only
    <2>7. \A r \in Stacked : r \in Slots
      BY DEF Stacked, SlotTypes
    <2>8. QED
      BY Zenon, <2>3, <2>4, <2>5, <2>6, <2>7 DEF SlotInv, ClaimInv, MainHas
  <1>9. QED
    BY Zenon, <1>2, <1>3, <1>6, <1>7, <1>8 DEF SlotInv

\* The steps of a worker keep SlotInv.
LEMMA WorkerKeepsSlotInv ==
  ASSUME SlotTypes, SlotInv, NEW w \in Workers, WorkerStep(w) PROVE SlotInv'
  <1> DEFINE s == tslot[w]
  <1> USE DEF At, Goto
  <1>a. s \in Slots
    BY Zenon DEF SlotTypes
  <1>b. Tenant(w) => \A v \in Workers : v # w /\ tslot[v] = s => ~Tenant(v)
    BY Zenon DEF SlotInv, OneTenant
  <1>c. \A r \in Stacked : r \in Slots
    BY DEF Stacked, SlotTypes
  <1>1. CASE handle_thread_start(w)
    <2>1. /\ tpc[w] = "start" /\ tpc'[w] = "lock" /\ Only(w) /\ tslot' = tslot
          /\ UNCHANGED <<thread_stk, slotVars, lockVars, mpc, mslot>>
      BY Zenon, <1>1 DEF handle_thread_start, SlotTypes, Only
    <2>2. OneTenant' /\ MadeInv'
      BY <2>1 DEF SlotInv, OneTenant, MadeInv, Tenant, Unmade, Condless, On, Only
    <2>3. OnlineInv' /\ MutexInv'
      BY <2>1 DEF SlotInv, OnlineInv, MutexInv, Owner, Past, Unmade, Holding, On, Only
    <2>4. ClaimInv'
      BY <2>1 DEF SlotInv, ClaimInv, MainHas, Fresh, Stacked, On, Owner, Only
    <2>5. QED
      BY Zenon, <2>2, <2>3, <2>4 DEF SlotInv
  <1>2. CASE handle_thread_again(w)
    <2>1. /\ tpc[w] = "lock" /\ ev_lock[s] = "free" /\ Only(w) /\ tslot' = tslot
          /\ is_online' = [is_online EXCEPT ![s] = TRUE]
          /\ UNCHANGED <<thread_stk, has_event, lock_init, cond_init, mpc, mslot>>
          /\ \/ tpc'[w] = "wait" /\ ev_lock' = ev_lock
             \/ tpc'[w] = "handle" /\ has_event[s] /\ ev_lock' = [ev_lock EXCEPT ![s] = w]
      BY Zenon, <1>2 DEF handle_thread_again, BeginHandler, EnterWait, SlotTypes, Only
    <2>2. QED
      BY Zenon, <2>1, LockKeepsSlotInv
  <1>3. ASSUME NEW timedout \in BOOLEAN, handle_thread_wake(w, timedout) PROVE SlotInv'
    <2>1. /\ tpc[w] = "wait" /\ ev_lock[s] = "free" /\ Only(w) /\ tslot' = tslot
          /\ UNCHANGED <<thread_stk, is_online, has_event, lock_init, cond_init, mpc, mslot>>
      BY Zenon, <1>3 DEF handle_thread_wake, BeginHandler, EnterWait, SlotTypes, Only
    <2>2. \/ tpc'[w] = "wait" /\ ev_lock' = ev_lock
          \/ /\ tpc'[w] = "out" \/ (tpc'[w] = "handle" /\ has_event[s])
             /\ ev_lock' = [ev_lock EXCEPT ![s] = w]
      BY Zenon, <1>3 DEF handle_thread_wake, BeginHandler, EnterWait, SlotTypes
    <2>3. QED
      BY Zenon, <2>1, <2>2, LockKeepsSlotInv
  <1>4. CASE handle_thread_handled(w)
    <2>1. /\ tpc[w] = "handle" /\ Only(w) /\ tslot' = tslot
          /\ UNCHANGED <<thread_stk, is_online, lockVars, mpc, mslot>>
          /\ \/ tpc'[w] = "out" /\ has_event' = has_event
             \/ tpc'[w] = "push" /\ has_event' = [has_event EXCEPT ![s] = FALSE]
      BY Zenon, <1>4 DEF handle_thread_handled, SlotTypes, Only
    <2>2. OneTenant' /\ MadeInv'
      BY <2>1 DEF SlotInv, OneTenant, MadeInv, Tenant, Unmade, Condless, On, Only
    <2>3. OnlineInv' /\ MutexInv'
      BY <2>1 DEF SlotInv, OnlineInv, MutexInv, Owner, Past, Unmade, Holding, On, Only
    <2>4. ClaimInv'
      <3>1. Stacked' = Stacked /\ Distinct(thread_stk)' /\ \A r : MainHas(r)' <=> MainHas(r)
        BY <2>1 DEF SlotInv, ClaimInv, Stacked, Distinct, MainHas
      <3>2. \A r \in Slots : has_event'[r] => has_event[r]
        BY <1>a, <2>1 DEF SlotTypes
      <3>3. \A r \in Stacked : r \in Slots
        BY Zenon, <1>c
      <3>4. \A v \in Workers : Fresh(v)' \/ tpc'[v] \in {"handle", "push"} =>
              Fresh(v) \/ tpc[v] \in {"handle", "push"}
        BY <2>1 DEF Fresh, Only
      <3>5. tpc'[w] = "push" => ~has_event'[s]
        BY <1>a, <2>1 DEF SlotTypes
      <3>6. \A v \in Workers : tpc'[v] = "push" => ~has_event'[tslot[v]]
        BY <2>1, <3>2, <3>5 DEF SlotTypes, SlotInv, ClaimInv, Only
      <3>7. QED
        BY <2>1, <3>1, <3>2, <3>3, <3>4, <3>6 DEF SlotTypes, SlotInv, ClaimInv, MainHas, On, Owner, Only
    <2>5. QED
      BY Zenon, <2>2, <2>3, <2>4 DEF SlotInv
  <1>5. CASE handle_thread_push(w)
    <2>1. /\ tpc[w] = "push" /\ tpc'[w] = "unlock" /\ Only(w) /\ tslot' = tslot
          /\ UNCHANGED <<slotVars, lockVars, mpc, mslot>>
          /\ thread_stk' = thread_stk \/ thread_stk' = <<s>> \o thread_stk
      BY Zenon, <1>5 DEF handle_thread_push, SlotTypes, Only
    <2>2. OneTenant' /\ MadeInv'
      BY <2>1 DEF SlotInv, OneTenant, MadeInv, Tenant, Unmade, Condless, On, Only
    <2>3. OnlineInv' /\ MutexInv'
      BY <2>1 DEF SlotInv, OnlineInv, MutexInv, Owner, Past, Unmade, Holding, On, Only
    <2>4. s \notin Stacked /\ ~MainHas(s) /\ ~has_event[s]
      BY Zenon, <2>1 DEF SlotInv, ClaimInv
    <2>5. Distinct(thread_stk') /\ (Stacked' = Stacked \/ Stacked' = Stacked \cup {s})
      <3>1. CASE thread_stk' = thread_stk
        BY Zenon, <3>1 DEF Stacked, Distinct, SlotInv, ClaimInv
      <3>2. CASE thread_stk' = <<s>> \o thread_stk
        BY Zenon, <1>a, <3>2, <2>4, StackPush DEF SlotTypes, SlotInv, ClaimInv, Distinct
      <3>3. QED
        BY Zenon, <2>1, <3>1, <3>2
    <2>6. \A v \in Workers : Fresh(v)' \/ tpc'[v] \in {"handle", "push"} =>
             ~MainHas(tslot[v])' /\ tslot'[v] \notin Stacked'
      BY Zenon, <1>b, <2>1, <2>5 DEF SlotInv, ClaimInv, MainHas, Fresh, Tenant, Only
    <2>7. ClaimInv'
      BY Zenon, <2>1, <2>4, <2>5, <2>6 DEF SlotInv, ClaimInv, MainHas, On, Owner, Only
    <2>8. QED
      BY Zenon, <2>2, <2>3, <2>7 DEF SlotInv
  <1>6. CASE handle_thread_unlock(w)
    <2>1. /\ \/ tpc[w] = "unlock" /\ tpc'[w] = "lock"
             \/ tpc[w] = "out" /\ tpc'[w] = "destroy_lock"
          /\ Only(w) /\ tslot' = tslot
          /\ UNCHANGED <<thread_stk, slotVars, lock_init, cond_init, mpc, mslot>>
          /\ ev_lock' = [ev_lock EXCEPT ![s] = "free"]
      BY Zenon, <1>6 DEF handle_thread_unlock, SlotTypes, Only
    <2>2. OneTenant' /\ MadeInv'
      BY <2>1 DEF SlotInv, OneTenant, MadeInv, Tenant, Unmade, Condless, On, Only
    <2>3. OnlineInv'
      BY <2>1 DEF SlotInv, OnlineInv, Owner, On, Only
    <2>4. MutexInv'
      <3>1. \A v \in Workers : tpc'[v] \in Holding => ev_lock'[tslot'[v]] = v
        BY Zenon, <1>b, <2>1 DEF SlotTypes, SlotInv, MutexInv, Holding, Tenant, Only
      <3>2. ASSUME mpc \in MainHolding PROVE mslot # s
        BY Zenon, <2>1, <3>2, ValueFacts DEF SlotInv, MutexInv, Past, Unmade, Holding, On
      <3>3. QED
        BY Zenon, <2>1, <3>1, <3>2 DEF SlotTypes, SlotInv, MutexInv, On, Only
    <2>5. is_online[s]
      BY Zenon, <2>1 DEF SlotInv, OnlineInv, Owner
    <2>6. ClaimInv'
      BY <2>1, <2>5 DEF SlotInv, ClaimInv, MainHas, Fresh, Stacked, On, Owner, Only
    <2>7. QED
      BY Zenon, <2>2, <2>3, <2>4, <2>6 DEF SlotInv
  <1>7. CASE handle_thread_destroy(w)
    <2>1. /\ Only(w) /\ tslot' = tslot
          /\ UNCHANGED <<thread_stk, slotVars, ev_lock, mpc, mslot>>
          /\ \/ /\ tpc[w] = "destroy_lock" /\ tpc'[w] = "destroy_cond" /\ cond_init' = cond_init
                /\ lock_init' = [lock_init EXCEPT ![s] = FALSE]
             \/ /\ tpc[w] = "destroy_cond" /\ tpc'[w] = "reset_online" /\ lock_init' = lock_init
                /\ cond_init' = [cond_init EXCEPT ![s] = FALSE]
      BY ZenonT(40), <1>7 DEF handle_thread_destroy, SlotTypes, Only
    <2>2. OneTenant'
      BY Zenon, <2>1 DEF SlotInv, OneTenant, Tenant, Only
    <2>3. MadeInv'
      <3>1. \A v \in Workers : tpc'[v] \in Unmade => ~lock_init'[tslot'[v]]
        BY ZenonT(40), <1>a, <1>b, <2>1 DEF SlotTypes, SlotInv, MadeInv, Unmade, Tenant, Only
      <3>2. \A q \in Slots : ~lock_init'[q] => \E v \in Workers : tslot'[v] = q /\ tpc'[v] \in Unmade
        BY <1>a, <1>b, <2>1 DEF SlotTypes, SlotInv, MadeInv, Unmade, On, Only
      <3>3. \A q \in Slots : ~cond_init'[q] => \E v \in Workers : tslot'[v] = q /\ tpc'[v] \in Condless
        BY <1>a, <1>b, <2>1 DEF SlotTypes, SlotInv, MadeInv, Condless, On, Only
      <3>4. QED
        BY Zenon, <3>1, <3>2, <3>3 DEF MadeInv, On
    <2>4. OnlineInv' /\ MutexInv'
      BY <2>1 DEF SlotInv, OnlineInv, MutexInv, Owner, Past, Unmade, Holding, On, Only
    <2>5. ClaimInv'
      BY <2>1, <1>a DEF SlotTypes, SlotInv, ClaimInv, MainHas, Fresh, Stacked, On, Owner, Only
    <2>6. QED
      BY Zenon, <2>2, <2>3, <2>4, <2>5 DEF SlotInv
  <1>8. CASE reset_thread(w)
    <2>1. Only(w) /\ tslot' = tslot /\ UNCHANGED <<thread_stk, mpc, mslot>>
      BY Zenon, <1>8 DEF reset_thread, SlotTypes, Only
    <2>2. CASE At(w, "reset_online")
      <3>1. /\ tpc[w] = "reset_online" /\ tpc'[w] = "reset_event"
            /\ is_online' = [is_online EXCEPT ![s] = FALSE]
            /\ UNCHANGED <<has_event, lockVars>>
        BY Zenon, <1>8, <2>2 DEF reset_thread, SlotTypes
      <3>2. OneTenant' /\ MadeInv' /\ MutexInv'
        BY <2>1, <3>1 DEF SlotInv, OneTenant, MadeInv, MutexInv, Tenant, Past, Unmade, Condless, Holding, On, Only
      <3>3. OnlineInv'
        BY <1>a, <1>b, <2>1, <3>1 DEF SlotTypes, SlotInv, OnlineInv, Owner, Tenant, On, Only
      <3>4. ClaimInv'
        <4>1. \A v \in Workers : Fresh(v)' => Fresh(v)
          <5>1. \A v \in Workers : tpc'[v] = "lock" => v # w /\ tpc[v] = "lock" /\ tslot[v] # s
            BY <1>b, <2>1, <3>1 DEF Tenant, Only
          <5>2. QED
            BY <2>1, <3>1, <5>1 DEF SlotTypes, Fresh, Only
        <4>2. \A v \in Workers : tpc'[v] \in {"handle", "push"} => tpc'[v] = tpc[v]
          BY <2>1, <3>1 DEF Only
        <4>3. \A v \in Workers : Owner(v)' => Owner(v)
          BY <2>1, <3>1 DEF Owner, Only
        <4>4. Stacked' = Stacked /\ Distinct(thread_stk)' /\ \A r : MainHas(r)' <=> MainHas(r)
          BY <2>1 DEF SlotInv, ClaimInv, Stacked, Distinct, MainHas
        <4>5. QED
          BY <2>1, <3>1, <4>1, <4>2, <4>3, <4>4 DEF SlotInv, ClaimInv, MainHas, On
      <3>5. QED
        BY Zenon, <3>2, <3>3, <3>4 DEF SlotInv
    <2>3. CASE At(w, "reset_event")
      <3>1. /\ tpc[w] = "reset_event" /\ tpc'[w] = "reset_sqe"
            /\ has_event' = [has_event EXCEPT ![s] = FALSE]
            /\ UNCHANGED <<is_online, lockVars>>
        BY Zenon, <1>8, <2>3 DEF reset_thread, SlotTypes
      <3>2. OneTenant' /\ MadeInv' /\ MutexInv'
        BY <2>1, <3>1 DEF SlotInv, OneTenant, MadeInv, MutexInv, Tenant, Past, Unmade, Condless, Holding, On, Only
      <3>3. OnlineInv'
        BY <2>1, <3>1 DEF SlotInv, OnlineInv, Owner, On, Only
      <3>4. ClaimInv'
        BY <1>a, <1>c, <2>1, <3>1 DEF SlotTypes, SlotInv, ClaimInv, MainHas, Fresh, Stacked, On, Owner, Only
      <3>5. QED
        BY Zenon, <3>2, <3>3, <3>4 DEF SlotInv
    <2>4. CASE At(w, "init_lock")
      <3>1. /\ tpc[w] = "init_lock" /\ tpc'[w] = "init_cond"
            /\ lock_init' = [lock_init EXCEPT ![s] = TRUE]
            /\ ev_lock' = [ev_lock EXCEPT ![s] = "free"]
            /\ UNCHANGED <<is_online, has_event, cond_init>>
        BY Zenon, <1>8, <2>4 DEF reset_thread, SlotTypes
      <3>2. OneTenant'
        BY Zenon, <2>1, <3>1 DEF SlotInv, OneTenant, Tenant, Only
      <3>3. MadeInv'
        <4>1. \A v \in Workers : tpc'[v] \in Unmade => ~lock_init'[tslot'[v]]
          BY Zenon, <1>a, <1>b, <2>1, <3>1 DEF SlotTypes, SlotInv, MadeInv, Unmade, Tenant, Only
        <4>2. \A q \in Slots : ~lock_init'[q] => \E v \in Workers : tslot'[v] = q /\ tpc'[v] \in Unmade
          <5>1. lock_init \in [Slots -> BOOLEAN]
            BY Zenon DEF SlotTypes
          <5>2. \A q \in Slots : ~lock_init'[q] => q # s /\ ~lock_init[q]
            BY Zenon, <1>a, <3>1, <5>1
          <5>3. \A v \in Workers : tslot[v] # s => tpc'[v] = tpc[v] /\ tslot'[v] = tslot[v]
            BY Zenon, <2>1 DEF Only
          <5>4. QED
            BY <5>2, <5>3 DEF SlotInv, MadeInv, On
        <4>3. \A q \in Slots : ~cond_init'[q] => \E v \in Workers : tslot'[v] = q /\ tpc'[v] \in Condless
          <5>1. UNCHANGED <<cond_init, tslot>>
            BY Zenon, <2>1, <3>1
          <5>2. \A v \in Workers : tpc[v] \in Condless => tpc'[v] \in Condless
            BY Zenon, <2>1, <3>1 DEF Condless, Only
          <5>3. QED
            BY Zenon, <5>1, <5>2 DEF SlotInv, MadeInv, On
        <4>4. QED
          BY Zenon, <4>1, <4>2, <4>3 DEF MadeInv, On
      <3>4. MutexInv'
        <4>1. \A v \in Workers : tslot[v] = s => tpc'[v] \in Past /\ tpc'[v] \notin Holding
          BY Zenon, <1>b, <2>1, <3>1 DEF SlotTypes, ThreadPC, Tenant, Past, Holding, Only
        <4>2. QED
          BY Zenon, <1>a, <2>1, <3>1, <4>1 DEF SlotTypes, SlotInv, MutexInv, Holding, Past, Unmade, On, Only
      <3>5. OnlineInv'
        BY <2>1, <3>1 DEF SlotInv, OnlineInv, Owner, On, Only
      <3>6. ClaimInv'
        BY <1>a, <2>1, <3>1 DEF SlotTypes, SlotInv, ClaimInv, MainHas, Fresh, Stacked, On, Owner, Only
      <3>7. QED
        BY Zenon, <3>2, <3>3, <3>4, <3>5, <3>6 DEF SlotInv
    <2>5. CASE At(w, "init_cond")
      <3>1. /\ tpc[w] = "init_cond" /\ tpc'[w] = "dec"
            /\ cond_init' = [cond_init EXCEPT ![s] = TRUE]
            /\ UNCHANGED <<is_online, has_event, ev_lock, lock_init>>
        BY Zenon, <1>8, <2>5 DEF reset_thread, SlotTypes
      <3>2. OneTenant' /\ MadeInv' /\ MutexInv'
        <4>1. OneTenant' /\ MutexInv'
          BY Zenon, <2>1, <3>1 DEF SlotInv, OneTenant, MutexInv, Tenant, Past, Unmade, Holding, On, Only
        <4>2. MadeInv'
          <5>1. \A v \in Workers : tpc'[v] \in Unmade => ~lock_init'[tslot'[v]]
            BY Zenon, <1>a, <2>1, <3>1 DEF SlotTypes, SlotInv, MadeInv, Unmade, Tenant, Only
          <5>2. \A q \in Slots : ~lock_init'[q] => \E v \in Workers : tslot'[v] = q /\ tpc'[v] \in Unmade
            BY <1>a, <2>1, <3>1 DEF SlotTypes, SlotInv, MadeInv, Unmade, On, Only
          <5>3. \A q \in Slots : ~cond_init'[q] => \E v \in Workers : tslot'[v] = q /\ tpc'[v] \in Condless
            BY SMTT(20), <1>a, <2>1, <3>1 DEF SlotTypes, SlotInv, MadeInv, Condless, On, Only
          <5>4. QED
            BY Zenon, <5>1, <5>2, <5>3 DEF MadeInv, On
        <4>3. QED
          BY Zenon, <4>1, <4>2
      <3>3. OnlineInv' /\ ClaimInv'
        BY <2>1, <3>1 DEF SlotInv, OnlineInv, ClaimInv, MainHas, Fresh, Stacked, On, Owner, Only
      <3>4. QED
        BY Zenon, <3>2, <3>3 DEF SlotInv
    <2>6. CASE At(w, "reset_sqe") \/ At(w, "reset_node")
      <3>1. /\ \/ tpc[w] = "reset_sqe" /\ tpc'[w] = "reset_node"
               \/ tpc[w] = "reset_node" /\ tpc'[w] = "init_lock"
            /\ UNCHANGED <<is_online, has_event, lockVars>>
        BY Zenon, <1>8, <2>6 DEF reset_thread, SlotTypes
      <3>2. OneTenant' /\ MutexInv'
        BY ZenonT(40), <2>1, <3>1 DEF SlotInv, OneTenant, MutexInv, Tenant, Past, Unmade, Holding, On, Only
      <3>3. MadeInv'
        <4>1. \A v \in Workers : tpc'[v] \in Unmade => ~lock_init'[tslot'[v]]
          BY SMTT(20), <2>1, <3>1 DEF SlotInv, MadeInv, Unmade, Only
        <4>2. \A q \in Slots : ~lock_init'[q] => \E v \in Workers : tslot'[v] = q /\ tpc'[v] \in Unmade
          BY SMTT(20), <2>1, <3>1 DEF SlotInv, MadeInv, Unmade, On, Only
        <4>3. \A q \in Slots : ~cond_init'[q] => \E v \in Workers : tslot'[v] = q /\ tpc'[v] \in Condless
          BY SMTT(20), <2>1, <3>1 DEF SlotInv, MadeInv, Condless, On, Only
        <4>4. QED
          BY Zenon, <4>1, <4>2, <4>3 DEF MadeInv, On
      <3>4. OnlineInv'
        BY <2>1, <3>1 DEF SlotInv, OnlineInv, Owner, On, Only
      <3>5. ClaimInv'
        BY <2>1, <3>1 DEF SlotInv, ClaimInv, MainHas, Fresh, Stacked, On, Owner, Only
      <3>6. QED
        BY Zenon, <3>2, <3>3, <3>4, <3>5 DEF SlotInv
    <2>7. QED
      BY Zenon, <1>8, <2>2, <2>3, <2>4, <2>5, <2>6 DEF reset_thread
  <1>9. CASE handle_thread_return(w)
    <2>1. /\ tpc[w] = "dec" /\ tpc'[w] = "none" /\ Only(w) /\ tslot'[w] = 0
          /\ UNCHANGED <<thread_stk, slotVars, lockVars, mpc, mslot>>
      BY Zenon, <1>9 DEF handle_thread_return, SlotTypes, Only
    <2>2. OneTenant' /\ MadeInv'
      BY <2>1 DEF SlotInv, OneTenant, MadeInv, Tenant, Unmade, Condless, On, Only
    <2>3. OnlineInv' /\ MutexInv'
      BY <2>1 DEF SlotInv, OnlineInv, MutexInv, Owner, Past, Unmade, Holding, On, Only
    <2>4. ClaimInv'
      BY <2>1 DEF SlotInv, ClaimInv, MainHas, Fresh, Stacked, On, Owner, Only
    <2>5. QED
      BY Zenon, <2>2, <2>3, <2>4 DEF SlotInv
  <1>10. QED
    BY Zenon, <1>1, <1>2, <1>3, <1>4, <1>5, <1>6, <1>7, <1>8, <1>9 DEF WorkerStep

\* Signals, the end of the loop and a failed assertion leave the slots alone.
LEMMA OtherKeepsSlotInv ==
  ASSUME SlotTypes, SlotInv,
         \/ \E e \in Events : submit_event(e)
         \/ run_event_loop_exit \/ handle_interrupt \/ abort \/ UNCHANGED vars
  PROVE  SlotInv'
  <1>a. ASSUME UNCHANGED <<thread_stk, slotVars, lockVars, mslot, tpc, tslot>>,
               mpc' = mpc \/ mpc' = "exit"
        PROVE  SlotInv'
    <2>1. OneTenant' /\ MadeInv' /\ OnlineInv'
      BY Zenon, <1>a DEF SlotInv, OneTenant, MadeInv, OnlineInv, Tenant, Owner, On
    <2>2. MutexInv'
      BY Zenon, <1>a DEF SlotInv, MutexInv, MainHolding, On
    <2>3. ClaimInv'
      BY Zenon, <1>a DEF SlotInv, ClaimInv, MainHas, MainClaiming, MainHolding, Fresh, Unfilled, Stacked, On, Owner
    <2>4. QED
      BY Zenon, <2>1, <2>2, <2>3 DEF SlotInv
  <1>1. ASSUME NEW e \in Events, submit_event(e) PROVE SlotInv'
    <2>1. CASE thread_stk = <<>>
      BY Zenon, <1>1, <2>1, <1>a DEF submit_event, ClaimSlot
    <2>2. CASE thread_stk # <<>>
      BY Zenon, <1>1, <2>2, ClaimKeepsSlotInv DEF submit_event, MainAt
    <2>3. QED
      BY Zenon, <2>1, <2>2
  <1>2. QED
    BY Zenon, <1>1, <1>a DEF run_event_loop_exit, handle_interrupt, abort

\* SlotInv is an invariant of the pool.
THEOREM SlotSafety == Spec => []SlotInv
  <1>1. TypeOK /\ SlotInv /\ [Next]_vars => SlotInv'
    BY Zenon, SlotTypesHold, MainKeepsSlotInv, WorkerKeepsSlotInv, OtherKeepsSlotInv
       DEF Next, Step, Terminated
  <1>2. QED
    BY InitSlot, TypeCorrect, <1>1, PTL DEF Spec

\* No two threads own one slot, although spawn_thread trusts only is_online,
\* which reset_thread clears outside any lock.
THEOREM OneOwner == Spec => []OneOwnerPerSlot
  <1>1. SlotInv => OneOwnerPerSlot
    BY Zenon DEF SlotInv, OneTenant, OneOwnerPerSlot, Tenant, Owner
  <1>2. QED
    BY SlotSafety, <1>1, PTL

\* A slot that submit_to_thread or dispatch_sqe takes from thread_stk is there
\* once and holds no event that the new one would overwrite.
THEOREM FreeSlots == Spec => []FreeSlotsAreFree
  <1>1. SlotInv => FreeSlotsAreFree
    BY Zenon DEF SlotInv, ClaimInv, FreeSlotsAreFree
  <1>2. QED
    BY SlotSafety, <1>1, PTL

===============================================================================
