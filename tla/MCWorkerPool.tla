----------------------------- MODULE MCWorkerPool -----------------------------
(***************************************************************************)
(* Small instances of WorkerPool for TLC.                                  *)
(***************************************************************************)
EXTENDS WorkerPoolInv, TLC

\* Worker threads and events are interchangeable: nothing in WorkerPool orders
\* them.  (Slots are not: the stack is built in index order.)
Symmetry == Permutations(Workers) \cup Permutations(Events)
===============================================================================
