------------------------------ MODULE MCMarket ------------------------------
(***************************************************************************)
(* Small instances of Market for TLC.                                      *)
(***************************************************************************)
EXTENDS Market, TLC

CONSTANTS p1, p2, p3, m1, m2, i1, i2

OneItem  == {i1}
TwoItems == {i1, i2}

(* Each in a map of their own; the first two in one.                       *)
Two      == {p1, p2}
Three    == {p1, p2, p3}
Apart    == p1 :> m1 @@ p2 :> m2
Together == p1 :> m1 @@ p2 :> m1 @@ p3 :> m2

(* The first two may change places.                                        *)
Symmetry == Permutations({p1, p2})
=============================================================================
