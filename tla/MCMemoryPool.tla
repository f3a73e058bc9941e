---------------------------- MODULE MCMemoryPool ----------------------------
(* TLC instances of MemoryPool. Threads are alike, and so are nodes. *)
EXTENDS MemoryPool, TLC

Symmetry == Permutations(Threads) \cup Permutations(Nodes)
=============================================================================
