----------------------------- MODULE MCLanSession -----------------------------
(* TLC instances of LanSession. *)
EXTENDS LanSession, TLC

Symmetry == Permutations(Slots) \cup Permutations(Workers) \cup Permutations(Apps)
=============================================================================
