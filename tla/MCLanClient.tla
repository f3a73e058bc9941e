----------------------------- MODULE MCLanClient -----------------------------
(* TLC instances of LanClient. *)
EXTENDS LanClient
=============================================================================
