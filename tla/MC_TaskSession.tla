--------------------------- MODULE MC_TaskSession ---------------------------
(* Instances of TaskSession for TLC. *)
EXTENDS TaskSession, TLC

CONSTANTS b1, b2, p1, p2, p3, t1, t2

(* Boots, prompts and texts are interchangeable. *)
Symmetric == Permutations(Hosts) \cup Permutations(Prompts) \cup Permutations(Texts)
=============================================================================
