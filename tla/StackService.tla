---------------------------- MODULE StackService ----------------------------
(***************************************************************************)
(* What the stack of free indexes promises: an index is taken from the top *)
(* and is out until it is put on top again.                                *)
(***************************************************************************)
EXTENDS Naturals, Sequences

CONSTANT Indexes

VARIABLES
  stack,    \* free indexes, top last
  out       \* indexes that were taken and not put back

Init ==
  /\ stack \in Seq(Indexes) /\ \A i, j \in DOMAIN stack : stack[i] = stack[j] => i = j
  /\ out = {}

Take ==
  /\ stack # <<>>
  /\ stack' = SubSeq(stack, 1, Len(stack) - 1) /\ out' = out \cup {stack[Len(stack)]}

Put(x) ==
  /\ x \in out
  /\ stack' = Append(stack, x) /\ out' = out \ {x}

Next == Take \/ \E x \in Indexes : Put(x)

Safe == [][Next]_<<stack, out>>
=============================================================================
