------------------------------- MODULE MCPost -------------------------------
(***************************************************************************)
(* Small instances of Post for TLC.                                        *)
(***************************************************************************)
EXTENDS Post, TLC

CONSTANTS m1, m2, m3

TwoMaps   == {m1, m2}
ThreeMaps == {m1, m2, m3}
Symmetry  == Permutations(Maps)
=============================================================================
