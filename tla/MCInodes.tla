------------------------------ MODULE MCInodes ------------------------------
(***************************************************************************)
(* Inodes with the calls of two processes in the root and in "d".          *)
(***************************************************************************)
EXTENDS Inodes, TLC

CONSTANTS p1, p2

const_Procs == {p1, p2}
const_Symmetry == Permutations(const_Procs)
const_Names == {"f", "d"}
const_DirNames == {"d"}

Abs(elems) == [abs |-> TRUE, elems |-> elems]
Rel(elems) == [abs |-> FALSE, elems |-> elems]
F == Abs(<<"f">>)
D == Abs(<<"d">>)
DF == Abs(<<"d", "f">>)

const_Calls ==
    [op : {"unlink"}, path : {F, D, DF, Rel(<<"f">>)}]
    \cup [op : {"mkdir"}, path : {D, Abs(<<>>)}]
    \cup [op : {"mknod"}, path : {DF}]
    \cup [op : {"open"}, path : {F, DF}, create : {TRUE}, write : {TRUE}]
    \cup [op : {"open"}, path : {F, D}, create : {FALSE}, write : {TRUE}]
    \cup [op : {"link"}, path : {F, D}, new : {DF}]
    \cup [op : {"chdir"}, path : {F, D, Rel(<<"..">>)}]
    \cup [op : {"exec"}, path : {F}]
    \cup {[op |-> "close"]}

\* The calls of the test linkunlink.
const_TestCalls ==
    {[op |-> "open", path |-> DF, create |-> TRUE, write |-> TRUE], [op |-> "close"],
     [op |-> "link", path |-> F, new |-> DF], [op |-> "unlink", path |-> DF]}

=============================================================================
