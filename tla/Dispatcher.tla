------------------------------ MODULE Dispatcher ------------------------------
(***************************************************************************)
(* What the worker pool promises, without threads, locks or queues: an     *)
(* event that arrives is accepted or refused; an accepted event is handled *)
(* at most once, by one slot; a slot handles one event at a time.  Nothing *)
(* is said about the order in which accepted events are handled: in the    *)
(* code a new event may overtake the ones that wait in the queue.          *)
(***************************************************************************)
CONSTANTS Slots, Events, NoEvent

VARIABLES arrived,   \* events received from clients
          refused,   \* those of them that were turned down
          running,   \* the event each slot is handling, or NoEvent
          done,      \* events whose handling is over
          sound      \* the promise still holds: FALSE voids it for good

vars == <<arrived, refused, running, done, sound>>

Init ==
  /\ arrived = {} /\ refused = {} /\ done = {}
  /\ running = [s \in Slots |-> NoEvent]
  /\ sound = TRUE

Accept(e) ==
  /\ e \notin arrived
  /\ arrived' = arrived \cup {e}
  /\ UNCHANGED <<refused, running, done>>

Refuse(e) ==
  /\ e \notin arrived
  /\ arrived' = arrived \cup {e}
  /\ refused' = refused \cup {e}
  /\ UNCHANGED <<running, done>>

Start(s, e) ==
  /\ e \in arrived \ (refused \cup done)
  /\ \A r \in Slots : running[r] # e
  /\ running[s] = NoEvent
  /\ running' = [running EXCEPT ![s] = e]
  /\ UNCHANGED <<arrived, refused, done>>

Finish(s) ==
  /\ running[s] # NoEvent
  /\ done' = done \cup {running[s]}
  /\ running' = [running EXCEPT ![s] = NoEvent]
  /\ UNCHANGED <<arrived, refused>>

Next ==
  \/ \E e \in Events : Accept(e) \/ Refuse(e)
  \/ \E s \in Slots : Finish(s) \/ \E e \in Events : Start(s, e)

Spec == Init /\ [][sound' => sound /\ Next]_vars
===============================================================================
