----------------------------- MODULE MCGameWorld -----------------------------
(* TLC instances of GameWorld. *)
EXTENDS GameWorld, TLC

Corner == {<<0, 0>>}
Ends   == {<<0, 0>>, <<Width - 1, 0>>}
Opposite == {<<0, 0>>, <<Width - 1, Height - 1>>}
NoTiles == {}
Gate   == {<<3, 0>>}
Human1 == [party |-> 1, elf |-> FALSE]
Human2 == [party |-> 2, elf |-> FALSE]
Elf1   == [party |-> 1, elf |-> TRUE]
Humans == {Human1, Human2}
All    == {Human1, Human2, Elf1}
Symmetry == Permutations(Slots)
=============================================================================
