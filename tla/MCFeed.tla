------------------------------- MODULE MCFeed -------------------------------
(***************************************************************************)
(* Small instances of Feed for TLC.                                        *)
(***************************************************************************)
EXTENDS Feed, TLC

CONSTANTS m1, m2, c1, c2

OneMap     == {m1}
TwoMaps    == {m1, m2}
OneClient  == {c1}
TwoClients == {c1, c2}
OneIndex   == {0}
TwoIndices == {0, 1}
Symmetry   == Permutations(Clients) \cup Permutations(Maps)

=============================================================================
