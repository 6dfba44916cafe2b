------------------------------- MODULE MCLog -------------------------------
(***************************************************************************)
(* Small instances of Log for TLC.                                         *)
(***************************************************************************)
EXTENDS Log

CONSTANTS p1, p2, p3, b1, b2

const_Procs == {p1, p2, p3}
const_Blocks == {b1, b2}
=============================================================================
