------------------------------- MODULE Lifecycle -------------------------------
(***************************************************************************)
(* The life of the server (gwbot_run in core/server.c): initialisation,    *)
(* any step of which can fail, the handshake with the logger thread        *)
(* (core/event_logger.c), the event loop, and destroy_state, which waits   *)
(* for the threads that are counted in online_thread, but not for ever,    *)
(* and then frees the state they all use.                                  *)
(*                                                                         *)
(* A worker thread is reduced to its life: created, counted, told to stop, *)
(* gone.  What it does in between is the business of WorkerPool; here its  *)
(* handler may take for ever.                                              *)
(***************************************************************************)
EXTENDS Integers, FiniteSets

CONSTANTS Workers,    \* identities of worker threads alive at the same time
          WaitLimit   \* the 300000 polls of wait_for_threads

ASSUME LifeAssumption ==
  /\ IsFiniteSet(Workers)
  /\ WaitLimit \in Nat
  /\ {"main", "logger", "free"} \cap Workers = {}

VARIABLES
  mpc,            \* the main thread, in gwbot_run
  arrays,         \* chans and threads, as far as they have been allocated
  stop_el, online_thread,
  otv_old,        \* the count init_logger_thread compares with
  log_lock,       \* "main", "logger" or "free"
  lpc,            \* the logger thread
  wpc,            \* the worker threads
  modules,        \* is_mod_initialized
  seen,           \* the value of online_thread wait_for_threads last read
  polls,          \* its counter
  forced,         \* it gave up
  missed,         \* a thread was created and not counted when it ended (history)
  crashed         \* a NULL array was used

mainVars == <<otv_old, seen, polls, forced, arrays, modules>>
vars == <<mpc, mainVars, stop_el, online_thread, log_lock, lpc, wpc, missed, crashed>>

MainPC == {"init_state", "init_logger", "lock", "check", "wait", "relock",
           "init_epoll", "startup", "init_socket", "loop",
           "wait_for_threads", "poll", "linger", "close_fds", "shutdown", "destroy", "done"}
LoggerPC == {"none", "count", "lock", "signal", "unlock", "again", "wait", "test", "dec", "gone"}
WorkerPC == {"none", "created", "working", "leaving"}
Arrays == {"chans", "threads"}

\* gwbot_run clears the state it has allocated.
Init ==
  /\ mpc = "init_state" /\ arrays = {} /\ modules = FALSE
  /\ stop_el = FALSE /\ online_thread = 0 /\ otv_old = 0
  /\ log_lock = "free" /\ lpc = "none"
  /\ wpc = [w \in Workers |-> "none"]
  /\ seen = 0 /\ polls = 1 /\ forced = FALSE /\ missed = FALSE
  /\ crashed = FALSE

-------------------------------------------------------------------------------
(* The main thread.                                                        *)

MainAt(pc) == ~crashed /\ mpc = pc
GotoMain(pc) == mpc' = pc

\* init_state: the channels, the threads, and everything else, in that order; a
\* failure leads to destroy_state.
init_state ==
  /\ MainAt("init_state")
  /\ \/ arrays' = Arrays /\ GotoMain("init_logger")
     \/ arrays' \in {{}, {"chans"}, Arrays} /\ GotoMain("wait_for_threads")
  /\ UNCHANGED <<otv_old, seen, polls, forced, modules, stop_el, online_thread, log_lock,
                 lpc, wpc, missed, crashed>>

\* init_logger_thread up to the creation of the thread.
init_logger_thread ==
  /\ MainAt("init_logger")
  /\ otv_old' = online_thread
  /\ \/ lpc' = "count" /\ GotoMain("lock")
     \/ UNCHANGED lpc /\ GotoMain("wait_for_threads")
  /\ UNCHANGED <<seen, polls, forced, arrays, modules, stop_el, online_thread, log_lock, wpc,
                 missed, crashed>>

\* Slip: the creation of the thread is taken for its start.
AfterLock_hasty == "init_epoll"

\* The loop around gw_cond_wait looks at the count.
AfterLock == IF online_thread = otv_old THEN "wait" ELSE "init_epoll"

\* It takes log_lock, before the loop or when gw_cond_wait returns.
handshake_lock ==
  /\ MainAt("lock") \/ MainAt("relock")
  /\ log_lock = "free" /\ log_lock' = "main"
  /\ GotoMain("check")
  /\ UNCHANGED <<mainVars, stop_el, online_thread, lpc, wpc, missed, crashed>>

\* Either way log_lock is released.
handshake_check ==
  /\ MainAt("check")
  /\ GotoMain(AfterLock)
  /\ log_lock' = "free"
  /\ UNCHANGED <<mainVars, stop_el, online_thread, lpc, wpc, missed, crashed>>

\* init_epoll, gwbot_module_startup and init_socket, each of which may fail.
startup ==
  /\ \/ MainAt("init_epoll") /\ GotoMain("startup") /\ UNCHANGED modules
     \/ MainAt("startup") /\ GotoMain("init_socket") /\ modules' = TRUE
     \/ MainAt("init_socket") /\ GotoMain("loop") /\ UNCHANGED modules
     \/ /\ MainAt("init_epoll") \/ MainAt("startup") \/ MainAt("init_socket")
        /\ GotoMain("wait_for_threads") /\ UNCHANGED modules
  /\ UNCHANGED <<otv_old, seen, polls, forced, arrays, stop_el, online_thread, log_lock, lpc,
                 wpc, missed, crashed>>

\* The event loop creates worker threads.
spawn_thread(w) ==
  /\ MainAt("loop") /\ wpc[w] = "none"
  /\ wpc' = [wpc EXCEPT ![w] = "created"]
  /\ UNCHANGED <<mpc, mainVars, stop_el, online_thread, log_lock, lpc, missed, crashed>>

\* It ends when it is told to, or for an error.
run_event_loop_end(error) ==
  /\ MainAt("loop") /\ (stop_el \/ error)
  /\ GotoMain("wait_for_threads")
  /\ UNCHANGED <<mainVars, stop_el, online_thread, log_lock, lpc, wpc, missed, crashed>>

\* A signal, once init_state has installed the handler.
handle_interrupt ==
  /\ ~crashed /\ ~stop_el /\ mpc \notin {"init_state", "done"}
  /\ stop_el' = TRUE
  /\ UNCHANGED <<mpc, mainVars, online_thread, log_lock, lpc, wpc, missed, crashed>>

\* The count is zero although a thread has been created.
Overlooked == online_thread = 0 /\ \E w \in Workers : wpc[w] = "created"

\* Slip: the logger is not waited for.
AfterRead_workers(over) == IF online_thread <= 1 THEN over ELSE "poll"

\* The wait is over when the count is zero.
AfterRead(over) == IF online_thread = 0 THEN over ELSE "poll"

\* destroy_state sets stop_el; wait_for_threads reads the count once and returns
\* if it is zero.
wait_for_threads ==
  /\ MainAt("wait_for_threads")
  /\ stop_el' = TRUE
  /\ missed' = Overlooked
  /\ seen' = online_thread
  /\ GotoMain(AfterRead("close_fds"))
  /\ UNCHANGED <<otv_old, polls, forced, arrays, modules, online_thread, log_lock, lpc, wpc,
                 crashed>>

\* Slip: off by one.
GiveUp_late == polls > WaitLimit + 1

\* counter++ > 300000.
GiveUp == polls > WaitLimit

\* Slip: the counter is not advanced.
NextPoll_same == polls

NextPoll == polls + 1

\* It polls the count, a bounded number of times.
wait_for_threads_poll ==
  /\ MainAt("poll")
  /\ \/ /\ GiveUp
        /\ forced' = TRUE /\ GotoMain("linger")
        /\ UNCHANGED <<seen, polls, missed>>
     \/ /\ ~GiveUp
        /\ polls' = NextPoll
        /\ seen' = online_thread
        /\ missed' = Overlooked
        /\ GotoMain(AfterRead("linger"))
        /\ UNCHANGED forced
  /\ UNCHANGED <<otv_old, arrays, modules, stop_el, online_thread, log_lock, lpc, wpc, crashed>>

\* The last second: the count is not looked at again.
wait_for_threads_linger ==
  /\ MainAt("linger")
  /\ GotoMain("close_fds")
  /\ UNCHANGED <<mainVars, stop_el, online_thread, log_lock, lpc, wpc, missed, crashed>>

\* close_fds walks over chans, destroy_state over threads: a NULL array ends the
\* process.
close_fds ==
  /\ MainAt("close_fds")
  /\ \/ "chans" \in arrays /\ GotoMain("shutdown") /\ UNCHANGED crashed
     \/ "chans" \notin arrays /\ crashed' = TRUE /\ UNCHANGED mpc
  /\ UNCHANGED <<mainVars, stop_el, online_thread, log_lock, lpc, wpc, missed>>

gwbot_module_shutdown ==
  /\ MainAt("shutdown")
  /\ GotoMain("destroy") /\ modules' = FALSE
  /\ UNCHANGED <<otv_old, seen, polls, forced, arrays, stop_el, online_thread, log_lock, lpc,
                 wpc, missed, crashed>>

\* The locks, the arrays and the state itself are freed.
destroy_state ==
  /\ MainAt("destroy")
  /\ \/ "threads" \in arrays /\ GotoMain("done") /\ arrays' = {} /\ UNCHANGED crashed
     \/ "threads" \notin arrays /\ crashed' = TRUE /\ UNCHANGED <<mpc, arrays>>
  /\ UNCHANGED <<otv_old, seen, polls, forced, modules, stop_el, online_thread, log_lock, lpc,
                 wpc, missed>>

-------------------------------------------------------------------------------
\* Slip: a thread does not count itself.
CountMe_not == UNCHANGED online_thread

\* A thread counts itself when it starts.
CountMe == online_thread' = online_thread + 1

(* The logger thread: gw_event_logger.                                     *)

LoggerAt(pc) == ~crashed /\ mpc # "done" /\ lpc = pc
LoggerStays == UNCHANGED <<mainVars, stop_el, wpc, missed, crashed>>

logger_count ==
  /\ LoggerAt("count") /\ lpc' = "lock"
  /\ CountMe
  /\ UNCHANGED <<mpc, log_lock>> /\ LoggerStays

logger_lock ==
  /\ \/ LoggerAt("lock") /\ lpc' = "signal"
     \/ LoggerAt("again") /\ lpc' = "wait"
  /\ log_lock = "free"
  /\ log_lock' = IF lpc = "lock" THEN "logger" ELSE "free"
  /\ UNCHANGED <<mpc, online_thread>> /\ LoggerStays

\* Slip: the signal is forgotten.
Wake_not == UNCHANGED mpc

\* gw_cond_signal wakes the main thread if it waits.
Wake == mpc' = IF mpc = "wait" THEN "relock" ELSE mpc

logger_signal ==
  /\ LoggerAt("signal") /\ lpc' = "unlock"
  /\ Wake
  /\ UNCHANGED <<log_lock, online_thread>> /\ LoggerStays

logger_unlock ==
  /\ LoggerAt("unlock") /\ lpc' = "again"
  /\ log_lock' = "free"
  /\ UNCHANGED <<mpc, online_thread>> /\ LoggerStays

\* gw_cond_timedwait_rel, one second, then the look at stop_el.  (Entering the
\* wait releases log_lock, see logger_lock; nobody signals this thread.)
logger_wait ==
  /\ LoggerAt("wait") /\ log_lock = "free"
  /\ lpc' = "test"
  /\ UNCHANGED <<mpc, log_lock, online_thread>> /\ LoggerStays

logger_test ==
  /\ LoggerAt("test")
  /\ lpc' = IF stop_el THEN "dec" ELSE "again"
  /\ UNCHANGED <<mpc, log_lock, online_thread>> /\ LoggerStays

\* The last use of the state.
logger_dec ==
  /\ LoggerAt("dec") /\ lpc' = "gone"
  /\ online_thread' = online_thread - 1
  /\ UNCHANGED <<mpc, log_lock>> /\ LoggerStays


-------------------------------------------------------------------------------
(* A worker thread.                                                        *)

WorkerAt(w, pc) == ~crashed /\ mpc # "done" /\ wpc[w] = pc
GotoWorker(w, pc) == wpc' = [wpc EXCEPT ![w] = pc]

\* It counts itself, works until it is idle or told to stop, and takes itself
\* off the count last.
worker_count(w) ==
  /\ WorkerAt(w, "created") /\ GotoWorker(w, "working")
  /\ CountMe
  /\ UNCHANGED <<mpc, mainVars, stop_el, log_lock, lpc, missed, crashed>>

worker_leave(w) ==
  /\ WorkerAt(w, "working") /\ GotoWorker(w, "leaving")
  /\ UNCHANGED <<mpc, mainVars, stop_el, online_thread, log_lock, lpc, missed, crashed>>

worker_dec(w) ==
  /\ WorkerAt(w, "leaving") /\ GotoWorker(w, "none")
  /\ online_thread' = online_thread - 1
  /\ UNCHANGED <<mpc, mainVars, stop_el, log_lock, lpc, missed, crashed>>

-------------------------------------------------------------------------------
MainStep ==
  \/ init_state \/ init_logger_thread \/ handshake_lock \/ handshake_check \/ startup
  \/ run_event_loop_end(FALSE) \/ wait_for_threads \/ wait_for_threads_poll
  \/ wait_for_threads_linger \/ close_fds \/ gwbot_module_shutdown \/ destroy_state

LoggerStep ==
  \/ logger_count \/ logger_lock \/ logger_signal \/ logger_unlock
  \/ logger_wait \/ logger_test \/ logger_dec

WorkerStep(w) == spawn_thread(w) \/ worker_count(w) \/ worker_leave(w) \/ worker_dec(w)

Ended == crashed \/ mpc = "done"
Terminated == Ended /\ UNCHANGED vars

Next ==
  \/ MainStep \/ LoggerStep
  \/ run_event_loop_end(TRUE) \/ handle_interrupt
  \/ \E w \in Workers : WorkerStep(w)
  \/ Terminated

Spec == Init /\ [][Next]_vars

\* The main thread and the logger run.  Worker threads owe nothing: the handler
\* of an event may take for ever.
Fairness == WF_vars(MainStep) /\ WF_vars(LoggerStep)

FairSpec == Spec /\ Fairness

-------------------------------------------------------------------------------
(* Properties.                                                             *)

\* Every variable stays within its type; online_thread, which is unsigned, does
\* not wrap.
TypeOK ==
  /\ mpc \in MainPC /\ lpc \in LoggerPC /\ wpc \in [Workers -> WorkerPC]
  /\ arrays \subseteq Arrays /\ modules \in BOOLEAN
  /\ stop_el \in BOOLEAN /\ forced \in BOOLEAN /\ missed \in BOOLEAN /\ crashed \in BOOLEAN
  /\ online_thread \in Nat /\ otv_old \in Nat /\ seen \in Nat
  /\ polls \in 1 .. WaitLimit + 1
  /\ log_lock \in {"main", "logger", "free"}

Counted == {w \in Workers : wpc[w] \in {"working", "leaving"}}
LoggerCounted == lpc \notin {"none", "count", "gone"}

\* online_thread counts the threads that have started and not ended, whatever
\* the interleaving of their increments and decrements.
CountIsThreads ==
  online_thread = Cardinality(Counted) + (IF LoggerCounted THEN 1 ELSE 0)

\* The handshake does what it is for: the server goes on only once the logger
\* has counted itself, so that wait_for_threads cannot overlook it.
LoggerIsCounted ==
  mpc \in {"init_epoll", "startup", "init_socket", "loop"} => lpc \notin {"none", "count"}

\* Positions of the main thread once it has stopped to look at the count: it takes
\* the state apart.
TakingApart == {"linger", "close_fds", "shutdown", "destroy", "done"}

\* The state is taken apart after the last thread has used it, unless
\* wait_for_threads gave up or a thread had not counted itself yet.
ThreadsAreGone ==
  mpc \in TakingApart /\ ~forced /\ ~missed =>
    /\ lpc \in {"none", "gone"}
    /\ \A w \in Workers : wpc[w] = "none"

\* "Waiting for %u thread(s) to exit..." (wait_for_threads): when the wait ends
\* and was not given up, no thread is left.
NoThreadIsMissed ==
  mpc = "done" /\ ~forced => \A w \in Workers : wpc[w] = "none"

\* Startup gets past the handshake, unless a signal stops the server meanwhile.
StartsUp == mpc = "lock" ~> (mpc = "init_epoll" \/ stop_el)

\* Once destroy_state is called the process ends, however long handlers take.
ShutdownEnds == mpc = "wait_for_threads" ~> Ended

\* "Wait for the logger thread to signal us." (init_logger_thread): the logger
\* always signals, so that the wait always ends.
HandshakeEnds == mpc = "lock" ~> mpc = "init_epoll"

===============================================================================
