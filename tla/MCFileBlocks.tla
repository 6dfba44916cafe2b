---------------------------- MODULE MCFileBlocks ----------------------------
(***************************************************************************)
(* FileBlocks with two direct blocks, two words to a block, and two files.  *)
(***************************************************************************)
EXTENDS FileBlocks

CONSTANTS p1, p2

const_Procs == {p1, p2}
const_Symmetry == Permutations(const_Procs)
const_Files == {"f1", "f2"}
const_Sizes == {3, 8}
const_Vals == {1, 2}

=============================================================================
