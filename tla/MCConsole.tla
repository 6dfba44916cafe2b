------------------------------ MODULE MCConsole -----------------------------
(***************************************************************************)
(* Console with two readers, a writer, and indices that wrap.              *)
(***************************************************************************)
EXTENDS Console

const_Readers == {"r1", "r2"}
const_Writers == {"w1"}
const_Sizes == {1, 3}
const_Keys == {"x", "\r", "^D", "^H", "^U", "^P"}

=============================================================================
