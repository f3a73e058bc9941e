---------------------------- MODULE MCLoginServer ----------------------------
(* TLC instances of LoginServer. *)
EXTENDS LoginServer
=============================================================================
