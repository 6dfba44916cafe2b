----------------------------- MODULE MCLruList ------------------------------
(* Small instances of LruList for TLC. *)
EXTENDS LruList
=============================================================================
