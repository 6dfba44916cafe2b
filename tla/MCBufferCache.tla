--------------------------- MODULE MCBufferCache ---------------------------
(***************************************************************************)
(* A small instance of BufferCache for TLC.                                *)
(***************************************************************************)
EXTENDS BufferCache

CONSTANTS p1, p2, k1, k2, k3

const_Procs == {p1, p2}
const_Blocks == {k1, k2, k3}
=============================================================================
