------------------------- MODULE MC_ExecutionOwner -------------------------
(* Instances of ExecutionOwner for TLC. *)
EXTENDS ExecutionOwner, TLC

CONSTANTS b1, b2, b3

Symmetric == Permutations(Hosts)
=============================================================================
