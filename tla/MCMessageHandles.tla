-------------------------- MODULE MCMessageHandles --------------------------
(***************************************************************************)
(* An instance of MessageHandles for TLC.  The threads have the same        *)
(* actions, and so have the messages of a kind.                            *)
(***************************************************************************)
EXTENDS MessageHandles, TLC

Symmetry == Permutations(Threads) \cup Permutations(Outgoing)
=============================================================================
