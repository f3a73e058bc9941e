--------------------------- MODULE MCLockFreeStack ---------------------------
(* TLC instances of LockFreeStack. *)
EXTENDS LockFreeStack, TLC

Symmetry == Permutations(Threads) \cup Permutations(Nodes)

\* The memory of a server on the stack of _tmain: too little, zero, too much.
AnySizes == {-1, 0, 1}
=============================================================================
