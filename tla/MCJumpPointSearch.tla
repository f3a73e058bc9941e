---- MODULE MCJumpPointSearch ----
(* Maps of 6 x 6 blocks (12 x 12 tiles) whose outer blocks are obstacles: any *)
(* three inner blocks, or two beside a closed cell in the upper right corner, *)
(* where searches give up.                                                    *)
EXTENDS JumpPointSearch

Border == {b \in (0 .. 5) \X (0 .. 5) : b[1] \in {0, 5} \/ b[2] \in {0, 5}}
Inner == (1 .. 4) \X (1 .. 4)
Cell == {<<3, 1>>, <<4, 2>>}
MCMaps == {Border \cup w : w \in kSubset(3, Inner)}
           \cup {Border \cup Cell \cup w : w \in kSubset(2, Inner \ {<<4, 1>>})}
Spots == {<<2, 2>>, <<9, 9>>, <<4, 7>>, <<9, 2>>, <<7, 7>>}
MCRequests == Spots \X Spots
====
