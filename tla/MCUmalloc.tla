----------------------------- MODULE MCUmalloc ------------------------------
(***************************************************************************)
(* A heap of a few units, with requests smaller and larger than what       *)
(* morecore asks for at least.                                             *)
(***************************************************************************)
EXTENDS Umalloc

const_Sizes == {2, 3, 5}

\* What lies in memory that is neither a header of the ring nor of a block in use is not
\* read again.
Live ==
    <<freep, brk, used, gaps, {<<a, ptr[a], size[a]>> : a \in Ring},
      {<<b, size[b.at]>> : b \in used}>>

=============================================================================
