---------------------------- MODULE MCRequestLeaf ----------------------------
(* Two processes that call for the same request; neither is told apart. *)
EXTENDS RequestLeafProperties, TLC

Alike == Permutations(Procs)
=============================================================================
