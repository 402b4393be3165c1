------------------------------ MODULE MCChannels ------------------------------
(***************************************************************************)
(* Small instances of Channels for TLC.                                    *)
(***************************************************************************)
EXTENDS Channels, TLC

\* Connections and descriptors are interchangeable.
Symmetry == Permutations(Conns) \cup Permutations(Fds)
===============================================================================
