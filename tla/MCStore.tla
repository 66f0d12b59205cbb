------------------------------ MODULE MCStore ------------------------------
(***************************************************************************)
(* The character store on small instances: two characters and, where a     *)
(* save together moves something between a character and a record, one     *)
(* record.                                                                 *)
(***************************************************************************)
EXTENDS Store

CONSTANTS c1, c2, r1

MCChars   == {c1, c2}
OneChar   == {c1}
MCRecords == {r1}
NoRecords == {}
MCRefused == {c2}
NoRefused == {}
=============================================================================
