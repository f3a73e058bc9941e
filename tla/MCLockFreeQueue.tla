--------------------------- MODULE MCLockFreeQueue ---------------------------
(* TLC instances of LockFreeQueue. *)
EXTENDS LockFreeQueue, TLC

Symmetry == Permutations(Producers) \cup Permutations(Nodes \ {Dummy})
=============================================================================
