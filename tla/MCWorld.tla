------------------------------ MODULE MCWorld ------------------------------
(***************************************************************************)
(* World on small instances.                                               *)
(***************************************************************************)
EXTENDS World, TLC

CONSTANTS c1, c2, s1, s2, s3, copy, world, island

OneChar       == {c1}
TwoChars      == {c1, c2}
OneSession    == {s1}
TwoSessions   == {s1, s2}
ThreeSessions == {s1, s2, s3}
OneCopy       == {copy}
NoCopy        == {}
OneWorld      == {world}
TwoWorlds     == {world, island}

(* Sessions are alike.                                                   *)
Alike == Permutations(Sessions)
=============================================================================
