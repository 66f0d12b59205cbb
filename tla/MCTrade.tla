------------------------------- MODULE MCTrade -------------------------------
(***************************************************************************)
(* Small instances of Trade for TLC.                                       *)
(***************************************************************************)
EXTENDS Trade, TLC

CONSTANTS p1, p2, p3, i1, i2, here, there

Two      == {p1, p2}
Three    == {p1, p2, p3}
OneItem  == {i1}
TwoItems == {i1, i2}
OnePlace == {here}
Apart    == {here, there}
Symmetry == Permutations(Players) \cup Permutations(Items) \cup Permutations(Spots)
=============================================================================
