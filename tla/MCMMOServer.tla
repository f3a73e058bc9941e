------------------------------ MODULE MCMMOServer ------------------------------
(* TLC instances of MMOServer. *)
EXTENDS MMOServer
=============================================================================
