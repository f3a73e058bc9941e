---------------------------- MODULE MCNetSession ----------------------------
(* TLC instances of NetSession. Content threads and workers are alike, and so *)
(* are slots: they may be permuted when no liveness property is checked.      *)
EXTENDS NetSession, TLC

Symmetry == Permutations(Slots) \cup Permutations(Workers) \cup Permutations(Apps)
=============================================================================
