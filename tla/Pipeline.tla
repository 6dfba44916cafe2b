------------------------------ MODULE Pipeline ------------------------------
(***************************************************************************)
(* The shell has read a line.  It is parsed (Shell), and if it is the      *)
(* pipeline "left | right", it runs (Piping).                              *)
(***************************************************************************)
EXTENDS Shell, Piping

CONSTANT Lines    \* what may be typed

VARIABLES line,   \* what getcmd has read
          parsed  \* what parsecmd makes of it

vars == <<line, parsed, pipeVars>>

\* The line that is run; the others are only parsed.
Piped == <<"a", "|", "a">>

ASSUME PipedAssumption ==
    LET cmd == parsecmd(Piped).cmd
    IN  cmd.type = "PIPE" /\ cmd.left.type = "EXEC" /\ cmd.right.type = "EXEC"

Init == line \in Lines /\ parsed = parsecmd(line) /\ PipeInit

Runs == line = Piped /\ UNCHANGED <<line, parsed>>
Step(p) == Runs /\ PipeStep(p)

Next == \E p \in Procs : Step(p) \/ (Runs /\ Kill(p))

Spec == Init /\ [][Next]_vars

\* The scheduler goes round the process table, so that a process that can run does.
FairSpec == Spec /\ \A p \in Procs : WF_vars(Step(p))

-----------------------------------------------------------------------------
\* parsecmd accepts a line exactly if cutting it up makes sense of it, with one argument
\* less than MAXARGS in each command, and builds the tree that this gives: the precedence
\* of ";", "&", "|" and parentheses, and which command a redirection belongs to.
ParseExact ==
    LET m == Meaning(line)
    IN  parsed.ok = m.ok /\ (parsed.ok => parsed.cmd = m.cmd)

\* Every word of the line is an argument or a file of the tree, and once nulterminate has
\* overwritten the character after each of them, a symbol perhaps, all of them are the
\* strings they were.
StringsExact ==
    LET buf == nulterminate(line, parsed.cmd)
    IN  parsed.ok => /\ Strings(parsed.cmd) = Words(line)
                     /\ \A str \in Strings(parsed.cmd) :
                          Scan(buf, str.q, {NUL}) = str.eq

\* Every pipeline comes to its end and init or sh reaps all of its processes: no wakeup of
\* the pipe or of wait is lost, no descriptor left open keeps the reader waiting, and a kill
\* at any moment does not stop the others.
PipelineEnds == line = Piped => <>[](\A p \in Procs \ {"init"} : state[p] = "UNUSED")

\* A process that has been killed exits.
KilledExits == \A p \in Victims : killed[p] ~> state[p] \in {"ZOMBIE", "UNUSED"}

=============================================================================
