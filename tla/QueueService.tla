---------------------------- MODULE QueueService ----------------------------
(***************************************************************************)
(* What a queue promises to its one consumer: nothing that is in the queue *)
(* changes its place, and what is taken out is the oldest. What is put in  *)
(* goes to the end; several items may arrive in one step.                  *)
(***************************************************************************)
EXTENDS Naturals, Sequences

CONSTANT Items

VARIABLES queue,        \* what is in the queue, oldest first
          taken         \* what has been taken out, oldest first

Init == queue = <<>> /\ taken = <<>>

Put ==
  /\ queue' \in Seq(Items)
  /\ Len(queue') > Len(queue) /\ SubSeq(queue', 1, Len(queue)) = queue
  /\ UNCHANGED taken

Get ==
  /\ queue # <<>>
  /\ taken' = Append(taken, Head(queue))
  /\ queue' = Tail(queue)

Next == Get \/ Put

Spec == Init /\ [][Next]_<<queue, taken>>
=============================================================================
