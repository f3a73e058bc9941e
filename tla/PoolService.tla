---------------------------- MODULE PoolService ----------------------------
(***************************************************************************)
(* What a pool of nodes promises: a node that was handed out is not handed *)
(* out again before it has been given back.                                *)
(***************************************************************************)
EXTENDS Integers

CONSTANT Nodes

VARIABLES used,         \* nodes that are out
          outs          \* how many were handed out and not given back

Init == used = {} /\ outs = 0

Take(n) == n \notin used /\ used' = used \cup {n} /\ outs' = outs + 1
Give(n) == n \in used /\ used' = used \ {n} /\ outs' = outs - 1

Next == \E n \in Nodes : Take(n) \/ Give(n)

Spec == Init /\ [][Next]_<<used, outs>>
=============================================================================
