---------------------------- MODULE LifecycleProofs ----------------------------
(***************************************************************************)
(* Proofs about Lifecycle, for any number of worker threads and any limit  *)
(* on the polls of wait_for_threads.                                       *)
(***************************************************************************)
EXTENDS Lifecycle, FiniteSetTheorems, TLAPS

\* The loop of init_logger_thread.
Handshake == {"lock", "check", "wait", "relock"}

\* Where the main thread can be once worker threads may exist.
Served == {"loop", "wait_for_threads", "poll"} \cup TakingApart

\* The logger is created by init_logger_thread, which compares the count with
\* zero; a logger that has not counted itself keeps the main thread there; there
\* is no worker before the event loop.
BootInv ==
  /\ mpc \in {"init_state", "init_logger"} => lpc = "none"
  /\ mpc \in Handshake => lpc # "none" /\ otv_old = 0
  /\ lpc = "count" => mpc \in Handshake
  /\ mpc \notin Served => \A w \in Workers : wpc[w] = "none"

\* The types that the other invariants rest on; the flags are kept apart.
Positions ==
  /\ mpc \in MainPC /\ lpc \in LoggerPC /\ wpc \in [Workers -> WorkerPC]
  /\ online_thread \in Nat /\ otv_old \in Nat /\ seen \in Nat
  /\ polls \in 1 .. WaitLimit + 1
  /\ log_lock \in {"main", "logger", "free"}
  /\ arrays \subseteq Arrays

Flags ==
  /\ modules \in BOOLEAN /\ stop_el \in BOOLEAN /\ forced \in BOOLEAN
  /\ missed \in BOOLEAN /\ crashed \in BOOLEAN

LifeInv ==
  Positions /\ CountIsThreads /\ BootInv /\ LoggerIsCounted /\ ThreadsAreGone

-------------------------------------------------------------------------------
\* The threads that are counted are finitely many.
LEMMA CountedFinite == IsFiniteSet(Counted) /\ Cardinality(Counted) \in Nat
  <1>1. Counted \in SUBSET Workers
    BY DEF Counted
  <1>2. IsFiniteSet(Counted)
    BY <1>1, LifeAssumption, FS_Subset
  <1>3. QED
    BY <1>2, FS_CardinalityType

\* A count of zero means that no thread is counted.
LEMMA ZeroCount ==
  ASSUME CountIsThreads
  PROVE  online_thread = 0 <=> (Counted = {} /\ ~LoggerCounted)
  <1>1. Cardinality(Counted) = 0 <=> Counted = {}
    BY Zenon, CountedFinite, FS_EmptySet
  <1>2. QED
    BY <1>1, CountedFinite DEF CountIsThreads

\* Before the event loop only the logger can be counted.
LEMMA BootCount ==
  ASSUME CountIsThreads, BootInv, mpc \notin Served
  PROVE  online_thread = 0 <=> ~LoggerCounted
  <1>1. Counted = {}
    BY DEF BootInv, Counted
  <1>2. QED
    BY Zenon, <1>1, ZeroCount

\* What is left when wait_for_threads reads zero: threads that have been created
\* and have not counted themselves yet.
LEMMA ZeroIsGone ==
  ASSUME Positions, CountIsThreads, BootInv, mpc \notin Handshake,
         online_thread = 0, ~Overlooked
  PROVE  lpc \in {"none", "gone"} /\ \A w \in Workers : wpc[w] = "none"
  <1>1. Counted = {} /\ ~LoggerCounted
    BY Zenon, ZeroCount
  <1>2. lpc \in {"none", "gone"}
    BY <1>1 DEF LoggerCounted, BootInv
  <1>3. ASSUME NEW w \in Workers PROVE wpc[w] = "none"
    <2>1. wpc[w] \in WorkerPC
      BY DEF Positions
    <2>2. wpc[w] \notin {"working", "leaving"}
      BY <1>1 DEF Counted
    <2>3. wpc[w] # "created"
      BY DEF Overlooked
    <2>4. QED
      BY <2>1, <2>2, <2>3 DEF WorkerPC
  <1>4. QED
    BY <1>2, <1>3

\* The count stays right when no thread starts or ends.
LEMMA CountStays ==
  ASSUME CountIsThreads, UNCHANGED <<wpc, online_thread>>, LoggerCounted' = LoggerCounted
  PROVE  CountIsThreads'
  <1>1. Counted' = Counted
    BY DEF Counted
  <1>2. QED
    BY <1>1 DEF CountIsThreads

USE DEF vars, mainVars, MainAt, GotoMain, LoggerAt, LoggerStays, WorkerAt, GotoWorker,
        AfterLock, AfterRead, GiveUp, NextPoll, CountMe, Wake

-------------------------------------------------------------------------------
\* The state gwbot_run clears is a legal one.
LEMMA LifeInit == Init => LifeInv /\ Flags
  <1> SUFFICES ASSUME Init PROVE LifeInv /\ Flags
    OBVIOUS
  <1>1. Flags
    BY Zenon DEF Init, Flags
  <1>2. Positions
    BY LifeAssumption DEF Init, Positions, MainPC, LoggerPC, WorkerPC, Arrays
  <1>3. CountIsThreads
    <2>1. Counted = {}
      BY DEF Init, Counted
    <2>2. QED
      BY <2>1, FS_EmptySet DEF Init, CountIsThreads, LoggerCounted
  <1>4. BootInv /\ LoggerIsCounted /\ ThreadsAreGone
    BY DEF Init, BootInv, LoggerIsCounted, ThreadsAreGone, TakingApart, Handshake, Served
  <1>5. QED
    BY <1>1, <1>2, <1>3, <1>4 DEF LifeInv

\* Flags are only ever assigned truth values.
LEMMA StepKeepsFlags == Flags /\ [Next]_vars => Flags'
  <1> SUFFICES ASSUME Flags, [Next]_vars PROVE Flags'
    OBVIOUS
  <1> USE DEF Flags
  <1>0. Overlooked \in BOOLEAN
    BY Zenon DEF Overlooked
  <1>1. ASSUME MainStep PROVE Flags'
    BY Zenon, <1>0, <1>1 DEF MainStep, init_state, init_logger_thread, handshake_lock,
       handshake_check, startup, run_event_loop_end, wait_for_threads, wait_for_threads_poll,
       wait_for_threads_linger, close_fds, gwbot_module_shutdown, destroy_state
  <1>2. ASSUME LoggerStep PROVE Flags'
    BY Zenon, <1>2 DEF LoggerStep, logger_count, logger_lock, logger_signal, logger_unlock,
       logger_wait, logger_test, logger_dec
  <1>3. ASSUME NEW w \in Workers, WorkerStep(w) PROVE Flags'
    BY Zenon, <1>3 DEF WorkerStep, spawn_thread, worker_count, worker_leave, worker_dec
  <1>4. CASE run_event_loop_end(TRUE) \/ handle_interrupt
    BY Zenon, <1>4 DEF run_event_loop_end, handle_interrupt
  <1>5. CASE Terminated \/ UNCHANGED vars
    BY Zenon, <1>5 DEF Terminated
  <1>6. QED
    BY Zenon, <1>1, <1>2, <1>3, <1>4, <1>5 DEF Next

-------------------------------------------------------------------------------
\* Startup: the main thread up to the event loop.
LEMMA StartupKeepsLife ==
  ASSUME LifeInv,
         \/ init_state \/ init_logger_thread \/ handshake_lock \/ handshake_check \/ startup
  PROVE  LifeInv'
  <1> USE DEF LifeInv
  <1>1. CountIsThreads'
    <2>1. UNCHANGED <<wpc, online_thread>>
      BY DEF init_state, init_logger_thread, handshake_lock, handshake_check, startup
    <2>2. LoggerCounted' = LoggerCounted
      BY DEF init_state, init_logger_thread, handshake_lock, handshake_check, startup,
             BootInv, LoggerCounted
    <2>3. QED
      BY Zenon, <2>1, <2>2, CountStays
  <1>2. CASE init_state
    BY <1>1, <1>2 DEF init_state, Positions, MainPC, Arrays, BootInv, LoggerIsCounted,
       ThreadsAreGone, TakingApart, Handshake, Served
  <1>3. CASE init_logger_thread
    <2>1. online_thread = 0
      BY <1>3, BootCount DEF init_logger_thread, BootInv, Served, TakingApart, LoggerCounted
    <2>2. QED
      BY <1>1, <1>3, <2>1 DEF init_logger_thread, Positions, MainPC, LoggerPC, BootInv,
         LoggerIsCounted, ThreadsAreGone, TakingApart, Handshake, Served
  <1>4. CASE handshake_lock
    BY <1>1, <1>4 DEF handshake_lock, Positions, MainPC, BootInv, LoggerIsCounted,
       ThreadsAreGone, TakingApart, Handshake, Served
  <1>5. CASE handshake_check
    <2>1. online_thread # otv_old => lpc \notin {"none", "count"}
      BY <1>5, BootCount DEF handshake_check, BootInv, Handshake, Served, TakingApart,
         LoggerCounted
    <2>2. QED
      BY <1>1, <1>5, <2>1 DEF handshake_check, Positions, MainPC, BootInv, LoggerIsCounted,
         ThreadsAreGone, TakingApart, Handshake, Served
  <1>6. CASE startup
    BY <1>1, <1>6 DEF startup, Positions, MainPC, BootInv, LoggerIsCounted,
       ThreadsAreGone, TakingApart, Handshake, Served
  <1>7. QED
    BY <1>2, <1>3, <1>4, <1>5, <1>6

\* Shutdown: the end of the event loop, wait_for_threads and what follows it.
LEMMA ShutdownKeepsLife ==
  ASSUME LifeInv,
         \/ run_event_loop_end(TRUE) \/ run_event_loop_end(FALSE) \/ handle_interrupt
         \/ wait_for_threads \/ wait_for_threads_poll \/ wait_for_threads_linger
         \/ close_fds \/ gwbot_module_shutdown \/ destroy_state
  PROVE  LifeInv'
  <1> USE DEF LifeInv
  <1>1. CountIsThreads'
    <2>1. UNCHANGED <<wpc, lpc, online_thread>>
      BY DEF run_event_loop_end, handle_interrupt, wait_for_threads, wait_for_threads_poll,
             wait_for_threads_linger, close_fds, gwbot_module_shutdown, destroy_state
    <2>2. LoggerCounted' = LoggerCounted
      BY Zenon, <2>1 DEF LoggerCounted
    <2>3. QED
      BY Zenon, <2>1, <2>2, CountStays
  <1>2. CASE run_event_loop_end(TRUE) \/ run_event_loop_end(FALSE) \/ handle_interrupt
    BY <1>1, <1>2 DEF run_event_loop_end, handle_interrupt, Positions, MainPC, BootInv,
       LoggerIsCounted, ThreadsAreGone, TakingApart, Handshake, Served
  <1>3. ASSUME MainAt("wait_for_threads") \/ MainAt("poll"), online_thread = 0, ~Overlooked
        PROVE  lpc \in {"none", "gone"} /\ \A w \in Workers : wpc[w] = "none"
    BY Zenon, <1>3, ZeroIsGone DEF Handshake
  <1>4. CASE wait_for_threads
    BY <1>1, <1>3, <1>4 DEF wait_for_threads, Positions, MainPC, BootInv, LoggerIsCounted,
       ThreadsAreGone, TakingApart, Handshake, Served
  <1>5. CASE wait_for_threads_poll
    BY <1>1, <1>3, <1>5, LifeAssumption DEF wait_for_threads_poll, Positions, MainPC, BootInv,
       LoggerIsCounted, ThreadsAreGone, TakingApart, Handshake, Served
  <1>6. CASE wait_for_threads_linger \/ close_fds \/ gwbot_module_shutdown \/ destroy_state
    BY <1>1, <1>6 DEF wait_for_threads_linger, close_fds, gwbot_module_shutdown, destroy_state, Positions, MainPC,
       Arrays, BootInv, LoggerIsCounted, ThreadsAreGone, TakingApart, Handshake, Served
  <1>7. QED
    BY <1>2, <1>4, <1>5, <1>6

-------------------------------------------------------------------------------
\* The logger counts itself once, while the main thread waits for it, and takes
\* itself off the count once.
LEMMA LoggerKeepsLife ==
  ASSUME LifeInv, LoggerStep
  PROVE  LifeInv'
  <1> USE DEF LifeInv
  <1>1. UNCHANGED wpc /\ Counted' = Counted
    BY DEF LoggerStep, logger_count, logger_lock, logger_signal, logger_unlock, logger_wait,
           logger_test, logger_dec, Counted
  <1>2. CASE logger_count
    <2>1. CountIsThreads'
      BY <1>1, <1>2, CountedFinite DEF logger_count, CountIsThreads, LoggerCounted
    <2>2. QED
      BY <1>1, <1>2, <2>1 DEF logger_count, Positions, LoggerPC, BootInv, LoggerIsCounted,
         ThreadsAreGone, TakingApart, Handshake, Served
  <1>3. CASE logger_dec
    <2>1. CountIsThreads' /\ online_thread' \in Nat
      BY <1>1, <1>3, CountedFinite DEF logger_dec, CountIsThreads, LoggerCounted
    <2>2. QED
      BY <1>1, <1>3, <2>1 DEF logger_dec, Positions, LoggerPC, BootInv, LoggerIsCounted,
         ThreadsAreGone, TakingApart, Handshake, Served
  <1>4. CASE logger_lock \/ logger_signal \/ logger_unlock \/ logger_wait \/ logger_test
    <2>1. CountIsThreads'
      BY <1>1, <1>4 DEF logger_lock, logger_signal, logger_unlock, logger_wait, logger_test,
         CountIsThreads, LoggerCounted
    <2>2. Positions'
      BY <1>4 DEF logger_lock, logger_signal, logger_unlock, logger_wait, logger_test,
         Positions, LoggerPC, MainPC
    <2>3. BootInv' /\ LoggerIsCounted'
      BY <1>1, <1>4 DEF logger_lock, logger_signal, logger_unlock, logger_wait, logger_test,
         BootInv, LoggerIsCounted, TakingApart, Handshake, Served
    <2>4. ThreadsAreGone'
      BY <1>1, <1>4 DEF logger_lock, logger_signal, logger_unlock, logger_wait, logger_test,
         ThreadsAreGone, TakingApart
    <2>5. QED
      BY <2>1, <2>2, <2>3, <2>4
  <1>5. QED
    BY <1>2, <1>3, <1>4 DEF LoggerStep

\* A worker does the same while the server serves or shuts down.
LEMMA WorkerKeepsLife ==
  ASSUME LifeInv, NEW w \in Workers, WorkerStep(w)
  PROVE  LifeInv'
  <1> USE DEF LifeInv
  <1>0. wpc \in [Workers -> WorkerPC] /\ UNCHANGED <<mpc, lpc, missed, forced>>
    BY DEF Positions, WorkerStep, spawn_thread, worker_count, worker_leave, worker_dec
  <1>1. mpc \in Served
    <2>1. mpc = "loop" \/ wpc[w] # "none"
      BY DEF WorkerStep, spawn_thread, worker_count, worker_leave, worker_dec
    <2>2. QED
      BY <2>1 DEF BootInv, Served
  <1>2. CountIsThreads' /\ online_thread' \in Nat
    <2>1. CASE spawn_thread(w) \/ worker_leave(w)
      <3>1. Counted' = Counted
        BY <1>0, <2>1 DEF spawn_thread, worker_leave, Counted
      <3>2. QED
        BY <1>0, <2>1, <3>1 DEF spawn_thread, worker_leave, CountIsThreads, LoggerCounted,
           Positions
    <2>2. CASE worker_count(w)
      <3>1. Counted' = Counted \cup {w} /\ w \notin Counted
        BY <1>0, <2>2 DEF worker_count, Counted
      <3>2. Cardinality(Counted') = Cardinality(Counted) + 1
        BY Zenon, <3>1, CountedFinite, FS_AddElement
      <3>3. QED
        BY <1>0, <2>2, <3>2, CountedFinite DEF worker_count, CountIsThreads, LoggerCounted,
           Positions
    <2>3. CASE worker_dec(w)
      <3>1. Counted' = Counted \ {w} /\ w \in Counted
        BY <1>0, <2>3 DEF worker_dec, Counted
      <3>2. Cardinality(Counted') = Cardinality(Counted) - 1
        BY Zenon, <3>1, CountedFinite, FS_RemoveElement
      <3>3. Cardinality(Counted) # 0
        BY Zenon, <3>1, CountedFinite, FS_EmptySet
      <3>4. QED
        BY <1>0, <2>3, <3>2, <3>3, CountedFinite DEF worker_dec, CountIsThreads,
           LoggerCounted, Positions
    <2>4. QED
      BY <2>1, <2>2, <2>3 DEF WorkerStep
  <1>3. Positions'
    BY <1>0, <1>2 DEF Positions, WorkerStep, spawn_thread, worker_count, worker_leave,
       worker_dec, WorkerPC
  <1>4. BootInv' /\ LoggerIsCounted'
    <2>1. UNCHANGED otv_old
      BY DEF WorkerStep, spawn_thread, worker_count, worker_leave, worker_dec
    <2>2. QED
      BY <1>0, <1>1, <2>1 DEF BootInv, LoggerIsCounted, Handshake
  <1>5. ThreadsAreGone'
    <2>1. mpc \in TakingApart /\ ~forced /\ ~missed => wpc[w] = "none"
      BY DEF ThreadsAreGone
    <2>2. mpc = "loop" \/ wpc[w] # "none"
      BY DEF WorkerStep, spawn_thread, worker_count, worker_leave, worker_dec
    <2>3. QED
      BY <1>0, <2>1, <2>2 DEF ThreadsAreGone, TakingApart
  <1>6. QED
    BY <1>2, <1>3, <1>4, <1>5

\* Every step keeps the invariant.
LEMMA StepKeepsLife == LifeInv /\ [Next]_vars => LifeInv'
  <1> SUFFICES ASSUME LifeInv, [Next]_vars PROVE LifeInv'
    OBVIOUS
  <1>1. CASE MainStep \/ run_event_loop_end(TRUE) \/ handle_interrupt
    BY Zenon, <1>1, StartupKeepsLife, ShutdownKeepsLife DEF MainStep
  <1>2. CASE LoggerStep
    BY Zenon, <1>2, LoggerKeepsLife
  <1>3. ASSUME NEW w \in Workers, WorkerStep(w) PROVE LifeInv'
    BY Zenon, <1>3, WorkerKeepsLife
  <1>4. CASE Terminated \/ UNCHANGED vars
    BY <1>4 DEF Terminated, LifeInv, Positions, CountIsThreads, Counted, LoggerCounted,
       BootInv, LoggerIsCounted, ThreadsAreGone
  <1>5. QED
    BY Zenon, <1>1, <1>2, <1>3, <1>4 DEF Next

\* The invariant holds in every state of the server's life.
THEOREM LifeSafety == Spec => [](LifeInv /\ Flags)
  BY LifeInit, StepKeepsLife, StepKeepsFlags, PTL DEF Spec

\* The variables of the life cycle always have their types; online_thread never
\* wraps.
THEOREM LifeTypes == Spec => []TypeOK
  <1>1. LifeInv /\ Flags => TypeOK
    BY Zenon DEF LifeInv, Positions, Flags, TypeOK
  <1>2. QED
    BY <1>1, LifeSafety, PTL

\* online_thread counts exactly the threads that have started and not ended,
\* however many there are.
THEOREM ThreadsAreCounted == Spec => []CountIsThreads
  <1>1. LifeInv => CountIsThreads
    BY DEF LifeInv
  <1>2. QED
    BY <1>1, LifeSafety, PTL

\* The server gets past init_logger_thread only once the logger is counted.
THEOREM HandshakeCountsLogger == Spec => []LoggerIsCounted
  <1>1. LifeInv => LoggerIsCounted
    BY DEF LifeInv
  <1>2. QED
    BY <1>1, LifeSafety, PTL

\* destroy_state takes the state apart after the last thread has used it, unless
\* wait_for_threads gave up or overlooked a thread that had not started to run.
THEOREM StateOutlivesThreads == Spec => []ThreadsAreGone
  <1>1. LifeInv => ThreadsAreGone
    BY DEF LifeInv
  <1>2. QED
    BY <1>1, LifeSafety, PTL

===============================================================================
