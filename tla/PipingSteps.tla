----------------------------- MODULE PipingSteps -----------------------------
(***************************************************************************)
(* The parts of the invariant of the pipeline, and lemmas on how its steps *)
(* keep them: the processes stay on their programs, the ends of the pipe   *)
(* are open as long as a file stands for them, and the bytes are where     *)
(* nread and nwrite say.                                                   *)
(***************************************************************************)
EXTENDS Piping, Modulo, TLAPS

USE SMTT(30), ZenonT(30)

\* Where a process can be in the kernel.
Labels == {"user", "closew", "closer", "write", "read", "sleepr", "sleepw", "sleepr2", "sleepw2",
           "exit", "dead"}
Writing == {"write", "sleepw", "sleepw2"}
Reading == {"read", "sleepr", "sleepr2"}
Closing == {"closew", "closer"}

\* The process has not begun to exit.
Alive(p) ==
    /\ state[p] # "UNUSED" /\ pc[p] \notin {"exit", "dead"}
    /\ ~(pc[p] \in Closing /\ ret[p] = "exit")

\* File 2 is the read end of the pipe, file 3 the write end: what descriptor d of process
\* p stands for when p is about to make its k-th call.
Opens(p, k, d) ==
    CASE d = 3 -> IF p # "init" /\ (p = "sh" => 1 < k /\ k < 5) /\ (p # "sh" => k < 4) THEN 2 ELSE NoFile
      [] d = 4 -> IF p # "init" /\ (p = "sh" => 1 < k /\ k < 6) /\ (p # "sh" => k < 5) THEN 3 ELSE NoFile
      [] d = 0 /\ p = "right" /\ k > 1 -> IF k = 2 THEN NoFile ELSE 2
      [] d = 1 /\ p = "left" /\ k > 1 -> IF k = 2 THEN NoFile ELSE 3
      [] OTHER -> 1

PipeType ==
    [alloc : BOOLEAN, data : [0..(PIPESIZE - 1) -> Nat], nread : 0..(UINT - 1),
     nwrite : 0..(UINT - 1), readopen : BOOLEAN, writeopen : BOOLEAN]

FileRec == [ref : Nat, type : {"none", "dev", "pipe"}, writable : BOOLEAN]

FileType ==
    /\ file \in [File -> FileRec]
    /\ ofile \in [Procs -> [Fd -> File \cup {NoFile}]]

ProcType ==
    /\ state \in [Procs -> {"UNUSED", "RUNNABLE", "SLEEPING", "ZOMBIE"}]
    /\ killed \in [Procs -> BOOLEAN]
    /\ pc \in [Procs -> Labels] /\ ip \in [Procs -> 1..8] /\ ret \in [Procs -> {"user", "exit"}]

DataType ==
    pipe \in PipeType /\ todo \in Nat /\ sent \in Nat /\ got \in Seq(Nat) /\ eof \in BOOLEAN

TypeOK == FileType /\ ProcType /\ DataType

\* The process has not been forked yet.
Unborn(p) ==
    state[p] = "UNUSED" /\ pc[p] = "user" /\ ip[p] = 1 /\ \A d \in Fd : ofile[p][d] = NoFile

\* A process follows its program.
Follows(p) ==
    /\ pc[p] \in Writing => p = "left" /\ ip[p] = 5
    /\ pc[p] \in Reading => p = "right" /\ ip[p] = 5
    /\ state[p] = "ZOMBIE" => pc[p] = "dead"
    /\ state[p] = "UNUSED" => pc[p] = "dead" \/ Unborn(p)
    /\ p = "init" => ip[p] = 1
    /\ p \in {"left", "right"} => ip[p] <= 6
    /\ Alive(p) => \A d \in Fd : ofile[p][d] = Opens(p, ip[p], d)

\* The tables t and u agree but for descriptor d of process p.
AllBut(t, u, p, d) == \A q \in Procs, e \in Fd : q # p \/ e # d => u[q][e] = t[q][e]

\* What the step of another process may do to q: wake it up, or reap it.
Same(q) ==
    /\ pc'[q] = pc[q] /\ ip'[q] = ip[q] /\ ret'[q] = ret[q] /\ ofile'[q] = ofile[q]
    /\ \/ state'[q] = state[q]
       \/ state[q] = "SLEEPING" /\ state'[q] = "RUNNABLE"
       \/ state[q] = "ZOMBIE" /\ state'[q] = "UNUSED"

Control ==
    /\ \A p \in Procs : Follows(p)
    /\ ip["sh"] <= 2 => Unborn("left")
    /\ ip["sh"] <= 3 => Unborn("right")

\* r is file f, which stands for an end of the pipe when it is open.
IsEnd(f, r) ==
    /\ r.ref > 0 => r.type = "pipe" /\ (r.writable <=> f = 3)
    /\ r.ref = 0 => r.type = "none"

Kinds ==
    /\ file[1].type # "pipe"
    /\ \A f \in {2, 3} : IsEnd(f, file[f]) /\ (file[f].ref > 0 => ip["sh"] > 1)

\* A file that a descriptor stands for is open.
Held ==
    /\ \A p \in Procs, d \in Fd : ofile[p][d] \in File => file[ofile[p][d]].ref > 0
    /\ \A p \in Procs, f \in File :
         Counted(p, f) \in Nat /\ (Counted(p, f) > 0 => file[f].ref > 0)

\* pc[p] when p is in pipeclose for file f.
CloseOf(f) == IF f = 3 THEN "closew" ELSE "closer"

\* open says whether the end of the pipe that file f stands for is open.
EndOK(f, open) ==
    /\ open <=> file[f].ref > 0 \/ \E p \in Procs : pc[p] = CloseOf(f)
    /\ \A p \in Procs : pc[p] = CloseOf(f) => ip["sh"] > 1 /\ file[f].ref = 0
    /\ \A p, q \in Procs : pc[p] = CloseOf(f) /\ pc[q] = CloseOf(f) => p = q

Ends ==
    /\ EndOK(2, pipe.readopen) /\ EndOK(3, pipe.writeopen)
    /\ pipe.alloc = (pipe.readopen \/ pipe.writeopen)

\* The pipe when s bytes have been sent and g of them got: byte j of the text, counted
\* from 0, lies at j % PIPESIZE between the times it is sent and got.
InRing(g, s, nread, nwrite, data) ==
    /\ nread = g % UINT /\ nwrite = s % UINT
    /\ s - g <= PIPESIZE
    /\ \A j \in g..(s - 1) : data[j % PIPESIZE] = j + 1

Stream ==
    /\ Len(got) <= sent
    /\ \A i \in 1..Len(got) : got[i] = i
    /\ ip["sh"] = 1 => sent = 0
    /\ pipe.alloc => InRing(Len(got), sent, pipe.nread, pipe.nwrite, pipe.data)

AtEnd == eof => Len(got) = sent /\ file[3].ref = 0 /\ ip["sh"] > 1

-----------------------------------------------------------------------------
(* Control. *)

\* The calls that the programs make, with their arguments.
LEMMA Scripts ==
    ASSUME NEW p \in Procs, NEW c, NEW k \in 1..8, k <= Len(Script(p)), Script(p)[k].call = c
    PROVE  /\ c = "pipe" => p = "sh" /\ k = 1
           /\ c = "fork" => /\ p = "sh" /\ k \in {2, 3}
                            /\ Script(p)[k].arg = IF k = 2 THEN "left" ELSE "right"
           /\ c = "dup" => /\ p \in {"left", "right"} /\ k = 2
                           /\ Script(p)[k].arg = IF p = "left" THEN 4 ELSE 3
           /\ c = "close" => /\ \/ p = "sh" /\ k \in {4, 5} /\ Script(p)[k].arg = k - 1
                                \/ p = "left" /\ k = 1 /\ Script(p)[k].arg = 1
                                \/ p = "right" /\ k = 1 /\ Script(p)[k].arg = 0
                                \/ p \in {"left", "right"} /\ k \in {3, 4} /\ Script(p)[k].arg = k
           /\ c = "write" => p = "left" /\ k = 5
           /\ c = "read" => p = "right" /\ k = 5
           /\ c = "wait" => (p = "init" /\ k = 1) \/ (p = "sh" /\ k \in {6, 7})
           /\ k <= 7 /\ (p = "init" => k = 1) /\ (p \in {"left", "right"} => k <= 5)
<1>1. CASE p = "init"
  BY <1>1 DEF Script, Call
<1>2. CASE p = "sh"
  BY <1>2 DEF Script, Runcmd, Call
<1>3. CASE p = "left"
  BY <1>3 DEF Script, Left, Call
<1>4. CASE p = "right"
  BY <1>4 DEF Script, Right, Call
<1> QED  BY <1>1, <1>2, <1>3, <1>4, Zenon DEF Procs

\* The length of the programs.
LEMMA ScriptLengths ==
    ASSUME NEW p \in Procs
    PROVE  Len(Script(p)) = CASE p = "init" -> 1 [] p = "sh" -> 7 [] OTHER -> 5
BY DEF Script, Runcmd, Left, Right, Procs

\* A process that the step is not about still follows its program.
LEMMA SameFollows ==
    ASSUME NEW q \in Procs, Follows(q), Same(q)
    PROVE  Follows(q)' /\ (Unborn(q) => Unborn(q)')
<1>1. Unborn(q) => Unborn(q)'
  BY Zenon DEF Same, Unborn
<1>2. Alive(q)' => Alive(q)
  BY Zenon DEF Same, Alive, Follows
<1>3. Alive(q)' => \A d \in Fd : ofile'[q][d] = Opens(q, ip'[q], d)
  BY <1>2, Zenon DEF Same, Follows
<1> QED  BY <1>1, <1>3 DEF Same, Follows

\* What is to be shown for a step of p that forks no process.
LEMMA ControlStep ==
    ASSUME Control, ProcType, NEW p \in Procs, state[p] # "UNUSED",
           Follows(p)', ip'[p] \in {ip[p], ip[p] + 1}, \A q \in Procs \ {p} : Same(q)
    PROVE  Control'
<1>1. \A q \in Procs : Follows(q)'
  BY SameFollows, Zenon DEF Control
<1>2. "sh" \in Procs /\ "left" \in Procs /\ "right" \in Procs
  BY DEF Procs
<1>3. ip'["sh"] \in {ip["sh"], ip["sh"] + 1}
  BY <1>2, Zenon DEF Same
<1>4. ip["sh"] \in 1..8
  BY <1>2, Zenon DEF ProcType
<1>5. (ip'["sh"] <= 2 => ip["sh"] <= 2) /\ (ip'["sh"] <= 3 => ip["sh"] <= 3)
  BY <1>3, <1>4
<1>6. ASSUME NEW q \in Procs, Unborn(q) PROVE Unborn(q)'
  <2>1. q # p
    BY <1>6, Zenon DEF Unborn
  <2> QED  BY <1>6, <2>1, SameFollows, Zenon DEF Control
<1> QED  BY <1>1, <1>2, <1>5, <1>6, Zenon DEF Control

\* Steps that leave the descriptors alone and do not end in a call of the program: of the
\* process itself only the place in the kernel changes.
LEMMA ControlAt ==
    ASSUME Control, ProcType, NEW p \in Procs, state[p] # "UNUSED", Alive(p)' => Alive(p),
           ofile'[p] = ofile[p], ip'[p] = ip[p], state'[p] # "UNUSED",
           state'[p] = "ZOMBIE" => pc'[p] = "dead",
           pc'[p] \in Writing => p = "left" /\ ip[p] = 5,
           pc'[p] \in Reading => p = "right" /\ ip[p] = 5,
           \A q \in Procs \ {p} : Same(q)
    PROVE  Control'
<1>1. Follows(p)
  BY Zenon DEF Control
<1>2. Follows(p)'
  BY <1>1, Zenon DEF Follows
<1> QED  BY <1>2, ControlStep, Zenon

\* pipe or fork fails.
LEMMA CallFailsControl ==
    ASSUME TypeOK, Control, NEW p \in Procs, CallFails(p)
    PROVE  ProcType' /\ Control'
<1>1. /\ state[p] = "RUNNABLE" /\ pc' = [pc EXCEPT ![p] = "exit"]
      /\ UNCHANGED <<ofile, state, killed, ip, ret>>
  BY DEF CallFails, Calls, Running, procVars
<1>2. ProcType'
  BY <1>1 DEF TypeOK, ProcType, Labels
<1>3. pc'[p] = "exit" /\ \A q \in Procs \ {p} : pc'[q] = pc[q]
  BY <1>1 DEF TypeOK, ProcType
<1>4. \A q \in Procs \ {p} : Same(q)
  BY <1>1, <1>3, Zenon DEF Same
<1>5. pc'[p] \notin Writing /\ pc'[p] \notin Reading /\ ~Alive(p)'
  BY <1>3 DEF Writing, Reading, Alive
<1> QED  BY <1>1, <1>2, <1>4, <1>5, ControlAt DEF TypeOK

\* A process begins to exit.
LEMMA StartExitControl ==
    ASSUME TypeOK, Control, NEW p \in Procs, StartExit(p)
    PROVE  ProcType' /\ Control'
<1>1. /\ state[p] = "RUNNABLE" /\ pc' = [pc EXCEPT ![p] = "exit"]
      /\ UNCHANGED <<ofile, state, killed, ip, ret>>
  BY DEF StartExit, Running, procVars
<1>2. ProcType'
  BY <1>1 DEF TypeOK, ProcType, Labels
<1>3. pc'[p] = "exit" /\ \A q \in Procs \ {p} : pc'[q] = pc[q]
  BY <1>1 DEF TypeOK, ProcType
<1>4. \A q \in Procs \ {p} : Same(q)
  BY <1>1, <1>3, Zenon DEF Same
<1>5. pc'[p] \notin Writing /\ pc'[p] \notin Reading /\ ~Alive(p)'
  BY <1>3 DEF Writing, Reading, Alive
<1> QED  BY <1>1, <1>2, <1>4, <1>5, ControlAt DEF TypeOK

\* A process has closed its files and dies.
LEMMA ExitControl ==
    ASSUME TypeOK, Control, NEW p \in Procs, Exit(p)
    PROVE  ProcType' /\ Control'
<1>1. /\ state[p] = "RUNNABLE" /\ pc' = [pc EXCEPT ![p] = "dead"]
      /\ UNCHANGED <<ofile, killed, ip, ret>>
      /\ \E S : state' = [WokenByExit(p, S) EXCEPT ![p] = "ZOMBIE"]
  BY Zenon DEF Exit, Running
<1>2. /\ state'[p] = "ZOMBIE"
      /\ \A q \in Procs \ {p} : \/ state'[q] = state[q]
                                \/ state[q] = "SLEEPING" /\ state'[q] = "RUNNABLE"
      /\ state' \in [Procs -> {"UNUSED", "RUNNABLE", "SLEEPING", "ZOMBIE"}]
  BY <1>1 DEF WokenByExit, TypeOK, ProcType
<1>3. ProcType'
  BY <1>1, <1>2 DEF TypeOK, ProcType, Labels
<1>4. pc'[p] = "dead" /\ \A q \in Procs \ {p} : pc'[q] = pc[q]
  BY <1>1 DEF TypeOK, ProcType
<1>5. \A q \in Procs \ {p} : Same(q)
  BY <1>1, <1>2, <1>4, Zenon DEF Same
<1>6. pc'[p] \notin Writing /\ pc'[p] \notin Reading /\ ~Alive(p)'
  BY <1>4 DEF Writing, Reading, Alive
<1> QED  BY <1>1, <1>2, <1>3, <1>4, <1>5, <1>6, ControlAt DEF TypeOK

\* kill marks a process and wakes it up.
LEMMA KillControl ==
    ASSUME TypeOK, Control, NEW p \in Procs, Kill(p)
    PROVE  ProcType' /\ Control'
<1>1. /\ killed' = [killed EXCEPT ![p] = TRUE]
      /\ state' = [state EXCEPT ![p] = IF @ = "SLEEPING" THEN "RUNNABLE" ELSE @]
      /\ UNCHANGED <<ofile, pc, ip, ret>>
  BY DEF Kill
<1>2. ProcType'
  BY <1>1 DEF TypeOK, ProcType
<1>3. \A q \in Procs : \/ state'[q] = state[q]
                       \/ state[q] = "SLEEPING" /\ state'[q] = "RUNNABLE"
  BY <1>1 DEF TypeOK, ProcType
<1>4. \A q \in Procs : Same(q)
  BY <1>1, <1>3, Zenon DEF Same
<1>5. "sh" \in Procs /\ "left" \in Procs /\ "right" \in Procs
  BY DEF Procs
<1> QED  BY <1>1, <1>2, <1>4, <1>5, SameFollows, Zenon DEF Control

\* left begins to write, or has written everything.
LEMMA StartWriteControl ==
    ASSUME TypeOK, Control, NEW p \in Procs, StartWrite(p)
    PROVE  ProcType' /\ Control'
<1>1. /\ state[p] = "RUNNABLE" /\ pc[p] = "user" /\ UNCHANGED <<ofile, state, killed, ret>>
      /\ \/ pc' = [pc EXCEPT ![p] = "write"] /\ ip' = ip
         \/ pc' = [pc EXCEPT ![p] = "user"] /\ ip' = [ip EXCEPT ![p] = @ + 1]
  BY DEF StartWrite, Calls, Running, Return, procVars
<1>2. p = "left" /\ ip[p] = 5
  BY Scripts DEF StartWrite, Calls, TypeOK, ProcType
<1>3. ProcType'
  BY <1>1, <1>2 DEF TypeOK, ProcType, Labels
<1>4. /\ pc'[p] \in {"write", "user"} /\ ip'[p] \in {5, 6}
      /\ pc'[p] = "write" => ip'[p] = 5
      /\ \A q \in Procs \ {p} : pc'[q] = pc[q] /\ ip'[q] = ip[q]
  BY <1>1, <1>2 DEF TypeOK, ProcType
<1>5. \A q \in Procs \ {p} : Same(q)
  BY <1>1, <1>4, Zenon DEF Same
<1>6. Alive(p) /\ Follows(p)
  BY <1>1 DEF Alive, Closing, Control
<1>7. \A d \in Fd : Opens(p, 6, d) = Opens(p, 5, d)
  BY <1>2 DEF Opens
<1>8. \A d \in Fd : ofile'[p][d] = Opens(p, ip'[p], d)
  <2>1. ip'[p] = 5 \/ ip'[p] = 6
    BY <1>4
  <2>2. \A d \in Fd : ofile'[p][d] = Opens(p, 5, d)
    BY <1>1, <1>2, <1>6, Zenon DEF Follows
  <2> QED  BY <2>1, <2>2, <1>7, Zenon
<1>9. Follows(p)'
  BY <1>1, <1>2, <1>4, <1>8 DEF Follows, Writing, Reading
<1>10. ip'[p] \in {ip[p], ip[p] + 1}
  BY <1>2, <1>4
<1> QED  BY <1>1, <1>3, <1>5, <1>9, <1>10, ControlStep DEF TypeOK

\* sleep hands the lock over.
LEMMA Sleep1Control ==
    ASSUME TypeOK, Control, NEW p \in Procs, Sleep1(p)
    PROVE  ProcType' /\ Control'
<1>1. /\ state[p] = "RUNNABLE" /\ pc[p] \in {"sleepr", "sleepw"}
      /\ pc' = [pc EXCEPT ![p] = IF @ = "sleepr" THEN "sleepr2" ELSE "sleepw2"]
      /\ UNCHANGED <<ofile, state, killed, ip, ret>>
  BY DEF Sleep1, Running, procVars
<1>2. ProcType'
  BY <1>1 DEF TypeOK, ProcType, Labels
<1>3. /\ \/ pc[p] = "sleepr" /\ pc'[p] = "sleepr2"
         \/ pc[p] = "sleepw" /\ pc'[p] = "sleepw2"
      /\ \A q \in Procs \ {p} : pc'[q] = pc[q]
  BY <1>1 DEF TypeOK, ProcType
<1>4. \A q \in Procs \ {p} : Same(q)
  BY <1>1, <1>3, Zenon DEF Same
<1>5. /\ pc'[p] \in Writing => pc[p] \in Writing
      /\ pc'[p] \in Reading => pc[p] \in Reading
      /\ Alive(p)
  BY <1>1, <1>3 DEF Writing, Reading, Alive, Closing
<1>6. Follows(p)
  BY Zenon DEF Control
<1> QED  BY <1>1, <1>2, <1>4, <1>5, <1>6, ControlAt DEF TypeOK, Follows

\* sleep puts the process to sleep.
LEMMA Sleep2Control ==
    ASSUME TypeOK, Control, NEW p \in Procs, Sleep2(p)
    PROVE  ProcType' /\ Control'
<1>1. /\ state[p] = "RUNNABLE" /\ pc[p] \in {"sleepr2", "sleepw2"}
      /\ pc' = [pc EXCEPT ![p] = IF @ = "sleepr2" THEN "read" ELSE "write"]
      /\ state' = [state EXCEPT ![p] = "SLEEPING"]
      /\ UNCHANGED <<ofile, killed, ip, ret>>
  BY DEF Sleep2, Running
<1>2. ProcType'
  BY <1>1 DEF TypeOK, ProcType, Labels
<1>3. /\ \/ pc[p] = "sleepr2" /\ pc'[p] = "read"
         \/ pc[p] = "sleepw2" /\ pc'[p] = "write"
      /\ state'[p] = "SLEEPING"
      /\ \A q \in Procs \ {p} : pc'[q] = pc[q] /\ state'[q] = state[q]
  BY <1>1 DEF TypeOK, ProcType
<1>4. \A q \in Procs \ {p} : Same(q)
  BY <1>1, <1>3, Zenon DEF Same
<1>5. /\ pc'[p] \in Writing => pc[p] \in Writing
      /\ pc'[p] \in Reading => pc[p] \in Reading
      /\ Alive(p)
  BY <1>1, <1>3 DEF Writing, Reading, Alive, Closing
<1>6. Follows(p)
  BY Zenon DEF Control
<1> QED  BY <1>1, <1>2, <1>3, <1>4, <1>5, <1>6, ControlAt DEF TypeOK, Follows

\* wait reaps a child, finds none, or sleeps.
LEMMA WaitControl ==
    ASSUME TypeOK, Control, NEW p \in Procs, Wait(p)
    PROVE  ProcType' /\ Control'
<1>1. state[p] = "RUNNABLE" /\ pc[p] = "user" /\ UNCHANGED <<ofile, pc, ret>>
  BY DEF Wait, Calls, Running
<1>2. (p = "init" /\ ip[p] = 1) \/ (p = "sh" /\ ip[p] \in {6, 7})
  BY Scripts DEF Wait, Calls, TypeOK, ProcType
<1>3. ip' = [ip EXCEPT ![p] = IF p = "init" THEN @ ELSE @ + 1] \/ ip' = ip
  BY DEF Wait
<1>4. \/ state' = state /\ killed' = killed
      \/ state' = [state EXCEPT ![p] = "SLEEPING"] /\ killed' = killed
      \/ \E k \in Procs : /\ state[k] = "ZOMBIE" /\ state' = [state EXCEPT ![k] = "UNUSED"]
                          /\ killed' = [killed EXCEPT ![k] = FALSE]
  BY DEF Wait, procVars
<1>5. ProcType'
  <2>1. ip' \in [Procs -> 1..8]
    BY <1>2, <1>3 DEF TypeOK, ProcType
  <2>2. state' \in [Procs -> {"UNUSED", "RUNNABLE", "SLEEPING", "ZOMBIE"}]
    BY <1>4 DEF TypeOK, ProcType
  <2>3. killed' \in [Procs -> BOOLEAN]
    BY <1>4, Zenon DEF TypeOK, ProcType
  <2> QED  BY <1>1, <2>1, <2>2, <2>3 DEF TypeOK, ProcType
<1>6. /\ \A q \in Procs \ {p} : \/ state'[q] = state[q]
                                \/ state[q] = "ZOMBIE" /\ state'[q] = "UNUSED"
      /\ state'[p] \in {"RUNNABLE", "SLEEPING"}
  BY <1>1, <1>4 DEF TypeOK, ProcType
<1>7. /\ \A q \in Procs \ {p} : ip'[q] = ip[q]
      /\ ip'[p] = ip[p] \/ (p = "sh" /\ ip[p] \in {6, 7} /\ ip'[p] = ip[p] + 1)
  BY <1>2, <1>3 DEF TypeOK, ProcType
<1>8. \A q \in Procs \ {p} : Same(q)
  BY <1>1, <1>6, <1>7, Zenon DEF Same
<1>9. Alive(p) /\ Follows(p)
  BY <1>1 DEF Alive, Closing, Control
<1>10. \A d \in Fd : Opens(p, ip'[p], d) = Opens(p, ip[p], d)
  BY <1>7 DEF Opens
<1>11. Follows(p)'
  <2>1. \A d \in Fd : ofile'[p][d] = Opens(p, ip'[p], d)
    BY <1>1, <1>9, <1>10, Zenon DEF Follows
  <2>2. pc'[p] \notin Writing /\ pc'[p] \notin Reading /\ p \notin {"left", "right"}
    BY <1>1, <1>2 DEF Writing, Reading
  <2>3. p = "init" => ip'[p] = 1
    BY <1>2, <1>7
  <2> QED  BY <1>6, <2>1, <2>2, <2>3 DEF Follows
<1> QED  BY <1>1, <1>5, <1>7, <1>8, <1>11, ControlStep DEF TypeOK

\* wakeup makes sleeping processes runnable.
LEMMA WokenStates ==
    ASSUME ProcType, NEW c, state' = Woken(c)
    PROVE  /\ \A q \in Procs : \/ state'[q] = state[q]
                               \/ state[q] = "SLEEPING" /\ state'[q] = "RUNNABLE"
           /\ state' \in [Procs -> {"UNUSED", "RUNNABLE", "SLEEPING", "ZOMBIE"}]
BY DEF ProcType, Woken

\* pipewrite.
LEMMA PipeWriteControl ==
    ASSUME TypeOK, Control, NEW p \in Procs, PipeWrite(p)
    PROVE  ProcType' /\ Control'
<1>1. state[p] = "RUNNABLE" /\ pc[p] = "write" /\ UNCHANGED <<ofile, killed, ip, ret>>
  BY DEF PipeWrite, Running
<1>2. PICK l \in {"user", "exit", "sleepw"} : pc' = [pc EXCEPT ![p] = l]
  BY DEF PipeWrite, Sleep
<1>3. state' = state \/ \E c : state' = Woken(c)
  BY DEF PipeWrite, wakeup
<1>4. /\ \A q \in Procs : \/ state'[q] = state[q]
                          \/ state[q] = "SLEEPING" /\ state'[q] = "RUNNABLE"
      /\ state' \in [Procs -> {"UNUSED", "RUNNABLE", "SLEEPING", "ZOMBIE"}]
  BY <1>3, WokenStates, Zenon DEF TypeOK, ProcType
<1>5. ProcType'
  BY <1>1, <1>2, <1>4, Zenon DEF TypeOK, ProcType, Labels
<1>6. pc'[p] = l /\ \A q \in Procs \ {p} : pc'[q] = pc[q]
  BY <1>2 DEF TypeOK, ProcType
<1>7. \A q \in Procs \ {p} : Same(q)
  BY <1>1, <1>4, <1>6, Zenon DEF Same
<1>8. /\ pc'[p] \in Writing => pc[p] \in Writing
      /\ pc'[p] \notin Reading
      /\ Alive(p)
  BY <1>1, <1>6 DEF Writing, Reading, Alive, Closing
<1>9. Follows(p)
  BY Zenon DEF Control
<1>10. state'[p] = "RUNNABLE"
  BY <1>1, <1>4
<1> QED  BY <1>1, <1>5, <1>7, <1>8, <1>9, <1>10, ControlAt DEF TypeOK, Follows

\* piperead is a step of right, which has the read end open.
LEMMA Reader ==
    ASSUME TypeOK, Control, NEW p \in Procs, PipeRead(p)
    PROVE  /\ p = "right" /\ ip[p] = 5 /\ Alive(p) /\ state[p] = "RUNNABLE"
           /\ ofile[p][0] = 2
<1>1. state[p] = "RUNNABLE" /\ pc[p] \in {"user", "read"}
  BY DEF PipeRead, Calls, Running
<1>2. Alive(p) /\ Follows(p)
  BY <1>1 DEF Alive, Closing, Control
<1>3. Calls(p, "read") \/ pc[p] = "read"
  BY DEF PipeRead, Running
<1>4. p = "right" /\ ip[p] = 5
  <2>1. CASE Calls(p, "read")
    BY <2>1, Scripts DEF Calls, TypeOK, ProcType
  <2>2. CASE pc[p] = "read"
    BY <2>2, <1>2 DEF Follows, Reading
  <2> QED  BY <1>3, <2>1, <2>2
<1>5. 0 \in Fd /\ Opens("right", 5, 0) = 2
  BY DEF Opens, Fd
<1> QED  BY <1>1, <1>2, <1>4, <1>5, Zenon DEF Follows

\* piperead.
LEMMA PipeReadControl ==
    ASSUME TypeOK, Control, NEW p \in Procs, PipeRead(p)
    PROVE  ProcType' /\ Control'
<1>1. state[p] = "RUNNABLE" /\ ip[p] = 5 /\ p = "right" /\ Alive(p) /\ Follows(p)
  BY Reader, Zenon DEF Control
<1>2. UNCHANGED <<ofile, killed, ip, ret>>
  BY DEF PipeRead
<1>3. PICK l \in {"user", "exit", "sleepr"} : pc' = [pc EXCEPT ![p] = l]
  BY DEF PipeRead, Sleep
<1>4. state' = state \/ \E c : state' = Woken(c)
  BY DEF PipeRead, wakeup
<1>5. /\ \A q \in Procs : \/ state'[q] = state[q]
                          \/ state[q] = "SLEEPING" /\ state'[q] = "RUNNABLE"
      /\ state' \in [Procs -> {"UNUSED", "RUNNABLE", "SLEEPING", "ZOMBIE"}]
  BY <1>4, WokenStates, Zenon DEF TypeOK, ProcType
<1>6. ProcType'
  BY <1>2, <1>3, <1>5, Zenon DEF TypeOK, ProcType, Labels
<1>7. pc'[p] = l /\ \A q \in Procs \ {p} : pc'[q] = pc[q]
  BY <1>3 DEF TypeOK, ProcType
<1>8. \A q \in Procs \ {p} : Same(q)
  BY <1>2, <1>5, <1>7, Zenon DEF Same
<1>9. pc'[p] \notin Writing /\ state'[p] = "RUNNABLE"
  BY <1>1, <1>5, <1>7 DEF Writing
<1> QED  BY <1>1, <1>2, <1>6, <1>8, <1>9, ControlAt DEF TypeOK, Follows

\* pipeclose.
LEMMA PipeCloseControl ==
    ASSUME TypeOK, Control, NEW p \in Procs, PipeClose(p)
    PROVE  ProcType' /\ Control'
<1>1. /\ state[p] = "RUNNABLE" /\ pc[p] \in Closing /\ UNCHANGED <<ofile, killed, ip, ret>>
      /\ pc' = [pc EXCEPT ![p] = ret[p]]
  BY DEF PipeClose, Running, Closing
<1>2. \E c : state' = Woken(c)
  BY DEF PipeClose, wakeup
<1>3. /\ \A q \in Procs : \/ state'[q] = state[q]
                          \/ state[q] = "SLEEPING" /\ state'[q] = "RUNNABLE"
      /\ state' \in [Procs -> {"UNUSED", "RUNNABLE", "SLEEPING", "ZOMBIE"}]
  BY <1>2, WokenStates, Zenon DEF TypeOK, ProcType
<1>4. ProcType'
  BY <1>1, <1>3, Zenon DEF TypeOK, ProcType, Labels
<1>5. pc'[p] = ret[p] /\ ret[p] \in {"user", "exit"} /\ \A q \in Procs \ {p} : pc'[q] = pc[q]
  BY <1>1 DEF TypeOK, ProcType
<1>6. \A q \in Procs \ {p} : Same(q)
  BY <1>1, <1>3, <1>5, Zenon DEF Same
<1>7. pc'[p] \notin Writing /\ pc'[p] \notin Reading /\ state'[p] = "RUNNABLE"
  BY <1>1, <1>3, <1>5 DEF Writing, Reading
<1>8. Alive(p)' => Alive(p)
  BY <1>1, <1>5 DEF Alive, Closing
<1> QED  BY <1>1, <1>4, <1>6, <1>7, <1>8, ControlAt DEF TypeOK

\* First is the least element.
LEMMA FirstIs ==
    ASSUME NEW S, S \subseteq Int, NEW x \in S, \A y \in S : x <= y
    PROVE  First(S) = x
<1>1. \E z \in S : \A y \in S : z <= y
  OBVIOUS
<1>2. First(S) \in S /\ \A y \in S : First(S) <= y
  BY <1>1, Zenon DEF First
<1>3. x <= First(S) /\ First(S) <= x /\ x \in Int /\ First(S) \in Int
  BY <1>2, Zenon
<1> QED  BY <1>3

\* A process that makes a system call has the files that its program has opened.
LEMMA Caller ==
    ASSUME TypeOK, Control, NEW p \in Procs, NEW c, Calls(p, c)
    PROVE  /\ state[p] = "RUNNABLE" /\ pc[p] = "user" /\ Alive(p) /\ Follows(p)
           /\ \A d \in Fd : ofile[p][d] = Opens(p, ip[p], d)
           /\ ip[p] \in 1..8 /\ ip[p] <= Len(Script(p)) /\ Script(p)[ip[p]].call = c
<1>1. /\ state[p] = "RUNNABLE" /\ pc[p] = "user"
      /\ ip[p] <= Len(Script(p)) /\ Script(p)[ip[p]].call = c
  BY DEF Calls, Running
<1>2. Alive(p) /\ Follows(p)
  BY <1>1 DEF Alive, Closing, Control
<1>3. ip[p] \in 1..8
  BY DEF TypeOK, ProcType
<1> QED  BY <1>1, <1>2, <1>3, Zenon DEF Follows

\* The descriptor of a close, and the files of the process before and after it.
LEMMA CloseArg ==
    ASSUME TypeOK, Control, NEW p \in Procs, Calls(p, "close")
    PROVE  /\ Arg(p) \in Fd /\ ofile[p][Arg(p)] \in File
           /\ \A d \in Fd : Opens(p, ip[p] + 1, d) = IF d = Arg(p) THEN NoFile ELSE Opens(p, ip[p], d)
           /\ p # "init" /\ (p \in {"left", "right"} => ip[p] < 5) /\ ip[p] < 6
           /\ ip[p] > 1 \/ p # "sh"
<1> DEFINE k == ip[p]
           a == Arg(p)
<1>1. /\ \A d \in Fd : ofile[p][d] = Opens(p, k, d)
      /\ k \in 1..8 /\ k <= Len(Script(p)) /\ Script(p)[k].call = "close"
  BY Caller, Zenon
<1>2. \/ p = "sh" /\ k \in {4, 5} /\ a = k - 1
      \/ p = "left" /\ k = 1 /\ a = 1
      \/ p = "right" /\ k = 1 /\ a = 0
      \/ p \in {"left", "right"} /\ k \in {3, 4} /\ a = k
  BY <1>1, Scripts DEF Arg
<1> HIDE DEF k, a
<1>3. a \in Fd
  BY <1>1, <1>2 DEF Fd
<1>4. Opens(p, k, a) \in File
  BY <1>1, <1>2 DEF Opens, File
<1>5. \A d \in Fd : Opens(p, k + 1, d) = IF d = a THEN NoFile ELSE Opens(p, k, d)
  BY <1>1, <1>2 DEF Opens, Fd
<1>6. /\ p # "init" /\ (p \in {"left", "right"} => k < 5) /\ k < 6
      /\ k > 1 \/ p # "sh"
  BY <1>1, <1>2
<1> QED  BY <1>1, <1>3, <1>4, <1>5, <1>6 DEF k, a

\* fileclose of descriptor d.
LEMMA FileCloseFacts ==
    ASSUME TypeOK, NEW p \in Procs, NEW d \in Fd, NEW l \in {"user", "exit"}, FileClose(p, d, l)
    PROVE  /\ ofile' \in [Procs -> [Fd -> File \cup {NoFile}]]
           /\ pc' \in [Procs -> Labels] /\ ret' \in [Procs -> {"user", "exit"}]
           /\ pc'[p] \in {l} \cup Closing /\ ret'[p] = l
           /\ ofile'[p][d] = NoFile
           /\ \A e \in Fd \ {d} : ofile'[p][e] = ofile[p][e]
           /\ \A q \in Procs \ {p} : /\ pc'[q] = pc[q] /\ ret'[q] = ret[q]
                                     /\ ofile'[q] = ofile[q]
           /\ AllBut(ofile, ofile', p, d)
<1>1. PICK m \in {l, "closew", "closer"} : pc' = [pc EXCEPT ![p] = m]
  BY Zenon DEF FileClose
<1>2. ret' = [ret EXCEPT ![p] = l] /\ ofile' = [ofile EXCEPT ![p][d] = NoFile]
  BY Zenon DEF FileClose
<1>3. pc' \in [Procs -> Labels] /\ pc'[p] = m /\ \A q \in Procs \ {p} : pc'[q] = pc[q]
  BY <1>1 DEF TypeOK, ProcType, Labels
<1>4. /\ ret' \in [Procs -> {"user", "exit"}] /\ ret'[p] = l
      /\ \A q \in Procs \ {p} : ret'[q] = ret[q]
  BY <1>2 DEF TypeOK, ProcType
<1>5. /\ ofile' \in [Procs -> [Fd -> File \cup {NoFile}]]
      /\ ofile'[p][d] = NoFile
      /\ \A e \in Fd \ {d} : ofile'[p][e] = ofile[p][e]
      /\ \A q \in Procs \ {p} : ofile'[q] = ofile[q]
  BY <1>2 DEF TypeOK, FileType
<1>6. AllBut(ofile, ofile', p, d)
  BY <1>5, Zenon DEF AllBut
<1> QED  BY <1>1, <1>3, <1>4, <1>5, <1>6 DEF Closing

\* close.
LEMMA CloseControl ==
    ASSUME TypeOK, Control, NEW p \in Procs, Close(p)
    PROVE  ProcType' /\ Control'
<1> DEFINE a == Arg(p)
<1>1. Calls(p, "close") /\ FileClose(p, a, "user")
      /\ ip' = [ip EXCEPT ![p] = @ + 1] /\ UNCHANGED <<state, killed>>
  BY DEF Close, procVars
<1>2. /\ a \in Fd
      /\ \A d \in Fd : Opens(p, ip[p] + 1, d) = IF d = a THEN NoFile ELSE Opens(p, ip[p], d)
      /\ p # "init" /\ (p \in {"left", "right"} => ip[p] < 5) /\ ip[p] < 6
  BY <1>1, CloseArg, Zenon
<1>3. /\ state[p] = "RUNNABLE"
      /\ \A d \in Fd : ofile[p][d] = Opens(p, ip[p], d)
  BY <1>1, Caller, Zenon
<1> HIDE DEF a
<1>4. /\ pc' \in [Procs -> Labels] /\ ret' \in [Procs -> {"user", "exit"}]
      /\ pc'[p] \in {"user"} \cup Closing
      /\ ofile'[p][a] = NoFile
      /\ \A e \in Fd \ {a} : ofile'[p][e] = ofile[p][e]
      /\ \A q \in Procs \ {p} : pc'[q] = pc[q] /\ ret'[q] = ret[q] /\ ofile'[q] = ofile[q]
  BY <1>1, <1>2, FileCloseFacts, Zenon
<1>5. /\ ip' \in [Procs -> 1..8] /\ ip'[p] = ip[p] + 1 /\ ip[p] \in Nat
      /\ \A q \in Procs \ {p} : ip'[q] = ip[q]
  BY <1>1, <1>2 DEF TypeOK, ProcType
<1>6. ProcType'
  BY <1>1, <1>4, <1>5 DEF TypeOK, ProcType
<1>7. \A q \in Procs \ {p} : Same(q)
  BY <1>1, <1>4, <1>5, Zenon DEF Same
<1>8. \A d \in Fd : ofile'[p][d] = Opens(p, ip'[p], d)
  BY <1>2, <1>3, <1>4, <1>5, Zenon
<1>9. /\ pc'[p] \notin Writing /\ pc'[p] \notin Reading /\ state'[p] = "RUNNABLE"
      /\ p \in {"left", "right"} => ip'[p] <= 6
  BY <1>1, <1>2, <1>3, <1>4, <1>5 DEF Writing, Reading, Closing
<1>10. Follows(p)'
  BY <1>2, <1>8, <1>9, Zenon DEF Follows
<1> QED  BY <1>3, <1>5, <1>6, <1>7, <1>10, ControlStep DEF TypeOK

\* The descriptor that exit closes.
LEMMA ExitFd ==
    ASSUME TypeOK, NEW p \in Procs, OpenFds(p) # {}
    PROVE  First(OpenFds(p)) \in Fd /\ ofile[p][First(OpenFds(p))] \in File
<1>1. OpenFds(p) \subseteq 0..4
  BY DEF OpenFds, Fd
<1>2. \E x \in OpenFds(p) : \A y \in OpenFds(p) : x <= y
  <2>1. CASE 0 \in OpenFds(p)
    BY <1>1, <2>1
  <2>2. CASE 0 \notin OpenFds(p) /\ 1 \in OpenFds(p)
    BY <1>1, <2>2
  <2>3. CASE 0 \notin OpenFds(p) /\ 1 \notin OpenFds(p) /\ 2 \in OpenFds(p)
    BY <1>1, <2>3
  <2>4. CASE 0 \notin OpenFds(p) /\ 1 \notin OpenFds(p) /\ 2 \notin OpenFds(p) /\ 3 \in OpenFds(p)
    BY <1>1, <2>4
  <2>5. CASE \A i \in 0..3 : i \notin OpenFds(p)
    <3>1. \A x \in OpenFds(p) : x = 4
      BY <1>1, <2>5
    <3> QED  BY <3>1, <1>1
  <2> QED  BY <2>1, <2>2, <2>3, <2>4, <2>5
<1>3. First(OpenFds(p)) \in OpenFds(p)
  BY <1>2, Zenon DEF First
<1> QED  BY <1>3 DEF OpenFds, TypeOK, FileType

\* exit closes a file.
LEMMA ExitCloseControl ==
    ASSUME TypeOK, Control, NEW p \in Procs, ExitClose(p)
    PROVE  ProcType' /\ Control'
<1> DEFINE a == First(OpenFds(p))
<1>1. /\ state[p] = "RUNNABLE" /\ pc[p] = "exit" /\ FileClose(p, a, "exit") /\ OpenFds(p) # {}
      /\ UNCHANGED <<state, killed, ip>>
  BY DEF ExitClose, procVars, Running
<1>2. a \in Fd
  BY <1>1, ExitFd, Zenon
<1> HIDE DEF a
<1>3. /\ pc' \in [Procs -> Labels] /\ ret' \in [Procs -> {"user", "exit"}]
      /\ pc'[p] \in {"exit"} \cup Closing /\ ret'[p] = "exit"
      /\ \A q \in Procs \ {p} : pc'[q] = pc[q] /\ ret'[q] = ret[q] /\ ofile'[q] = ofile[q]
  BY <1>1, <1>2, FileCloseFacts, Zenon
<1>4. ProcType'
  BY <1>1, <1>3 DEF TypeOK, ProcType
<1>5. \A q \in Procs \ {p} : Same(q)
  BY <1>1, <1>3, Zenon DEF Same
<1>6. ~Alive(p)' /\ pc'[p] \notin Writing /\ pc'[p] \notin Reading
  BY <1>3 DEF Alive, Closing, Writing, Reading
<1>7. Follows(p)'
  <2>1. Follows(p)
    BY Zenon DEF Control
  <2> QED  BY <1>1, <1>6, <2>1 DEF Follows
<1> QED  BY <1>1, <1>4, <1>5, <1>7, ControlStep DEF TypeOK

\* The descriptor that dup takes, and the file it stands for.
LEMMA DupArg ==
    ASSUME TypeOK, Control, NEW p \in Procs, Dup(p)
    PROVE  /\ fdalloc(p) \in Fd /\ ofile[p][fdalloc(p)] = NoFile
           /\ argfd(p) = IF p = "left" THEN 3 ELSE 2
           /\ Arg(p) \in Fd /\ ofile[p][Arg(p)] = argfd(p)
           /\ \A d \in Fd : Opens(p, 3, d) = IF d = fdalloc(p) THEN argfd(p) ELSE Opens(p, 2, d)
           /\ p \in {"left", "right"} /\ ip[p] = 2
<1>1. Calls(p, "dup")
  BY DEF Dup
<1>2. /\ \A d \in Fd : ofile[p][d] = Opens(p, ip[p], d)
      /\ ip[p] \in 1..8 /\ ip[p] <= Len(Script(p)) /\ Script(p)[ip[p]].call = "dup"
  BY <1>1, Caller, Zenon
<1>3. p \in {"left", "right"} /\ ip[p] = 2 /\ Arg(p) = IF p = "left" THEN 4 ELSE 3
  BY <1>2, Scripts DEF Arg
<1> DEFINE x == IF p = "left" THEN 1 ELSE 0
           S == {d \in Fd : ofile[p][d] = NoFile}
<1>4. x \in Fd /\ \A d \in Fd : Opens(p, 2, d) = NoFile <=> d = x
  BY <1>3 DEF Opens, Fd, NoFile
<1>5. S \subseteq Int /\ x \in S /\ \A y \in S : x <= y
  BY <1>2, <1>3, <1>4 DEF Fd
<1> HIDE DEF S
<1>6. First(S) = x
  BY <1>5, FirstIs, Zenon
<1>7. fdalloc(p) = x
  BY <1>6 DEF fdalloc, S
<1>8. Arg(p) \in Fd /\ ofile[p][Arg(p)] = argfd(p) /\ argfd(p) = IF p = "left" THEN 3 ELSE 2
  BY <1>2, <1>3 DEF argfd, Opens, Fd
<1>9. \A d \in Fd : Opens(p, 3, d) = IF d = x THEN argfd(p) ELSE Opens(p, 2, d)
  BY <1>3, <1>8 DEF Opens, Fd
<1> QED  BY <1>2, <1>3, <1>4, <1>7, <1>8, <1>9

\* dup.
LEMMA DupControl ==
    ASSUME TypeOK, Control, NEW p \in Procs, Dup(p)
    PROVE  ProcType' /\ Control'
<1>1. PICK x : x = fdalloc(p)
  OBVIOUS
<1>2. PICK f : f = argfd(p)
  OBVIOUS
<1>3. /\ x \in Fd /\ p \in {"left", "right"} /\ ip[p] = 2
      /\ \A d \in Fd : Opens(p, 3, d) = IF d = x THEN f ELSE Opens(p, 2, d)
  BY <1>1, <1>2, DupArg, Zenon
<1>4. /\ ofile' = [ofile EXCEPT ![p][x] = f] /\ ip' = [ip EXCEPT ![p] = @ + 1]
      /\ pc' = [pc EXCEPT ![p] = "user"]
      /\ UNCHANGED <<state, killed, ret>> /\ Calls(p, "dup")
  BY <1>1, <1>2 DEF Dup, Return, procVars
<1>5. /\ state[p] = "RUNNABLE" /\ \A d \in Fd : ofile[p][d] = Opens(p, 2, d)
  <2>1. state[p] = "RUNNABLE" /\ \A d \in Fd : ofile[p][d] = Opens(p, ip[p], d)
    BY <1>4, Caller, Zenon
  <2> QED  BY <1>3, <2>1
<1>6. ProcType'
  BY <1>3, <1>4 DEF TypeOK, ProcType, Labels
<1>7. /\ ip'[p] = 3 /\ pc'[p] = "user"
      /\ \A q \in Procs \ {p} : pc'[q] = pc[q] /\ ip'[q] = ip[q]
  BY <1>3, <1>4 DEF TypeOK, ProcType
<1>8. /\ ofile'[p][x] = f /\ \A d \in Fd \ {x} : ofile'[p][d] = ofile[p][d]
      /\ \A q \in Procs \ {p} : ofile'[q] = ofile[q]
  BY <1>3, <1>4 DEF TypeOK, FileType
<1>9. \A q \in Procs \ {p} : Same(q)
  BY <1>4, <1>7, <1>8, Zenon DEF Same
<1>10. \A d \in Fd : ofile'[p][d] = Opens(p, 3, d)
  BY <1>3, <1>5, <1>8, Zenon
<1>11. Follows(p)'
  BY <1>3, <1>4, <1>5, <1>7, <1>10 DEF Follows, Writing, Reading
<1> QED  BY <1>3, <1>5, <1>6, <1>7, <1>9, <1>11, ControlStep DEF TypeOK

\* The files and descriptors that sys_pipe takes.
LEMMA PipeArgs ==
    ASSUME TypeOK, Control, Kinds, Held, NEW p \in Procs, Pipe(p)
    PROVE  /\ p = "sh" /\ ip[p] = 1 /\ state[p] = "RUNNABLE"
           /\ \A d \in Fd : ofile[p][d] = Opens(p, 1, d)
           /\ ofile' = [ofile EXCEPT ![p][3] = 2, ![p][4] = 3]
           /\ file' = [file EXCEPT ![2] = [ref |-> 1, type |-> "pipe", writable |-> FALSE],
                                   ![3] = [ref |-> 1, type |-> "pipe", writable |-> TRUE]]
           /\ file[1].ref > 0 /\ file[2].ref = 0 /\ file[3].ref = 0
<1>1. Calls(p, "pipe")
  BY DEF Pipe
<1>2. /\ state[p] = "RUNNABLE" /\ \A d \in Fd : ofile[p][d] = Opens(p, ip[p], d)
      /\ ip[p] \in 1..8 /\ ip[p] <= Len(Script(p)) /\ Script(p)[ip[p]].call = "pipe"
  BY <1>1, Caller, Zenon
<1>3. p = "sh" /\ ip[p] = 1
  BY <1>2, Scripts
<1>4. 0 \in Fd /\ Opens("sh", 1, 0) = 1 /\ \A d \in Fd : Opens("sh", 1, d) = NoFile <=> d \in {3, 4}
  BY DEF Opens, Fd, NoFile
<1>5. file[1].ref > 0
  <2>1. ofile[p][0] = 1 /\ 1 \in File
    BY <1>2, <1>3, <1>4 DEF File
  <2> QED  BY <1>4, <2>1 DEF Held
<1>6. file[2].ref = 0 /\ file[3].ref = 0
  <2>1. file[2].ref \in Nat /\ file[3].ref \in Nat
    BY DEF TypeOK, FileType, FileRec, File
  <2> QED  BY <1>3, <2>1 DEF Kinds
<1> DEFINE S == {d \in Fd : ofile[p][d] = NoFile}
<1>7. FreeFiles = {2, 3}
  BY <1>5, <1>6 DEF FreeFiles, File
<1>8. S = {3, 4}
  BY <1>2, <1>3, <1>4 DEF Fd
<1>9. First({2, 3}) = 2 /\ First({2, 3} \ {2}) = 3 /\ First({3, 4}) = 3 /\ First({3, 4} \ {3}) = 4
  <2>1. {2, 3} \subseteq Int /\ {2, 3} \ {2} = {3} /\ {3, 4} \subseteq Int /\ {3, 4} \ {3} = {4}
    OBVIOUS
  <2>2. First({2, 3}) = 2 /\ First({3}) = 3 /\ First({3, 4}) = 3 /\ First({4}) = 4
    BY FirstIs
  <2> QED  BY <2>1, <2>2
<1> HIDE DEF S
<1>10. fdalloc(p) = 3 /\ First(FreeFiles) = 2
  BY <1>7, <1>8, <1>9 DEF fdalloc, S
<1>11. First(FreeFiles \ {2}) = 3 /\ First(S \ {3}) = 4
  BY <1>7, <1>8, <1>9
<1>12. /\ ofile' = [ofile EXCEPT ![p][3] = 2, ![p][4] = 3]
       /\ file' = [file EXCEPT ![2] = [ref |-> 1, type |-> "pipe", writable |-> FALSE],
                               ![3] = [ref |-> 1, type |-> "pipe", writable |-> TRUE]]
  BY <1>10, <1>11, Zenon DEF Pipe, S
<1> QED  BY <1>2, <1>3, <1>5, <1>6, <1>12

\* pipe.
LEMMA PipeControl ==
    ASSUME TypeOK, Control, Kinds, Held, NEW p \in Procs, Pipe(p)
    PROVE  ProcType' /\ Control'
<1>1. /\ p = "sh" /\ ip[p] = 1 /\ state[p] = "RUNNABLE"
      /\ \A d \in Fd : ofile[p][d] = Opens(p, 1, d)
      /\ ofile' = [ofile EXCEPT ![p][3] = 2, ![p][4] = 3]
  BY PipeArgs, Zenon
<1>2. /\ ip' = [ip EXCEPT ![p] = @ + 1] /\ pc' = [pc EXCEPT ![p] = "user"]
      /\ UNCHANGED <<state, killed, ret>>
  BY DEF Pipe, Return, procVars
<1>3. ProcType'
  BY <1>1, <1>2 DEF TypeOK, ProcType, Labels
<1>4. /\ ip'[p] = 2 /\ pc'[p] = "user"
      /\ \A q \in Procs \ {p} : pc'[q] = pc[q] /\ ip'[q] = ip[q]
  BY <1>1, <1>2 DEF TypeOK, ProcType
<1>5. /\ ofile'[p][3] = 2 /\ ofile'[p][4] = 3
      /\ \A d \in 0..2 : ofile'[p][d] = ofile[p][d]
      /\ \A q \in Procs \ {p} : ofile'[q] = ofile[q]
  BY <1>1 DEF TypeOK, FileType, Fd
<1>6. \A q \in Procs \ {p} : Same(q)
  BY <1>2, <1>4, <1>5, Zenon DEF Same
<1>7. \A d \in Fd : Opens("sh", 2, d) = IF d = 3 THEN 2 ELSE IF d = 4 THEN 3 ELSE Opens("sh", 1, d)
  BY DEF Opens, Fd
<1>8. \A d \in Fd : ofile'[p][d] = Opens(p, 2, d)
  BY <1>1, <1>5, <1>7 DEF Fd
<1>9. Follows(p)'
  BY <1>1, <1>2, <1>4, <1>8, Zenon DEF Follows, Writing, Reading
<1> QED  BY <1>1, <1>3, <1>4, <1>6, <1>9, ControlStep DEF TypeOK

\* The process that fork makes has no files yet.
LEMMA ForkArgs ==
    ASSUME TypeOK, Control, NEW p \in Procs, Fork(p)
    PROVE  /\ p = "sh" /\ ip[p] \in {2, 3} /\ state[p] = "RUNNABLE"
           /\ Arg(p) = IF ip[p] = 2 THEN "left" ELSE "right"
           /\ Unborn(Arg(p)) /\ Arg(p) \in Procs
           /\ \A d \in Fd : ofile[p][d] = Opens(p, ip[p], d)
<1>1. Calls(p, "fork")
  BY DEF Fork
<1>2. /\ state[p] = "RUNNABLE" /\ \A d \in Fd : ofile[p][d] = Opens(p, ip[p], d)
      /\ ip[p] \in 1..8 /\ ip[p] <= Len(Script(p)) /\ Script(p)[ip[p]].call = "fork"
  BY <1>1, Caller, Zenon
<1>3. p = "sh" /\ ip[p] \in {2, 3} /\ Arg(p) = IF ip[p] = 2 THEN "left" ELSE "right"
  <2>1. PICK k : k = ip[p]
    OBVIOUS
  <2>2. p = "sh" /\ k \in {2, 3} /\ Script(p)[k].arg = IF k = 2 THEN "left" ELSE "right"
    BY <1>2, <2>1, Scripts
  <2> QED  BY <2>1, <2>2, Zenon DEF Arg
<1>4. Unborn(Arg(p)) /\ Arg(p) \in Procs
  BY <1>3 DEF Control, Procs
<1> QED  BY <1>2, <1>3, <1>4, Zenon

\* What fork assigns.
LEMMA ForkFacts ==
    ASSUME TypeOK, Control, NEW p \in Procs, Fork(p), NEW n \in Procs, n = Arg(p)
    PROVE  /\ p # n
           /\ ofile'[n] = ofile[p] /\ ofile' \in [Procs -> [Fd -> File \cup {NoFile}]]
           /\ \A q \in Procs \ {n} : ofile'[q] = ofile[q] /\ state'[q] = state[q]
           /\ state'[n] = "RUNNABLE" /\ pc' = pc /\ UNCHANGED <<killed, ret>>
           /\ ip'[p] = ip[p] + 1 /\ \A q \in Procs \ {p} : ip'[q] = ip[q]
           /\ ProcType'
<1>1. /\ p = "sh" /\ ip[p] \in {2, 3} /\ n \in {"left", "right"}
  BY ForkArgs
<1>2. /\ ofile' = [ofile EXCEPT ![n] = ofile[p]] /\ state' = [state EXCEPT ![n] = "RUNNABLE"]
      /\ pc' = [pc EXCEPT ![p] = "user"] /\ ip' = [ip EXCEPT ![p] = @ + 1]
      /\ UNCHANGED <<killed, ret>> /\ pc[p] = "user"
  BY DEF Fork, Return, Calls, Running
<1>3. /\ ofile'[n] = ofile[p] /\ ofile' \in [Procs -> [Fd -> File \cup {NoFile}]]
      /\ \A q \in Procs \ {n} : ofile'[q] = ofile[q]
  BY <1>2 DEF TypeOK, FileType
<1>4. pc' = pc
  BY <1>2 DEF TypeOK, ProcType
<1>5. /\ state'[n] = "RUNNABLE" /\ \A q \in Procs \ {n} : state'[q] = state[q]
      /\ ip'[p] = ip[p] + 1 /\ \A q \in Procs \ {p} : ip'[q] = ip[q]
  BY <1>1, <1>2 DEF TypeOK, ProcType
<1>6. ProcType'
  BY <1>1, <1>2 DEF TypeOK, ProcType, Labels
<1> QED  BY <1>1, <1>2, <1>3, <1>4, <1>5, <1>6

\* fork.
LEMMA ForkControl ==
    ASSUME TypeOK, Control, NEW p \in Procs, Fork(p)
    PROVE  ProcType' /\ Control'
<1>1. PICK n \in Procs : n = Arg(p)
  BY ForkArgs, Zenon
<1>2. /\ p = "sh" /\ ip[p] \in {2, 3} /\ state[p] = "RUNNABLE"
      /\ n = (IF ip[p] = 2 THEN "left" ELSE "right") /\ Unborn(n)
      /\ \A d \in Fd : ofile[p][d] = Opens(p, ip[p], d)
  BY <1>1, ForkArgs, Zenon
<1>3. /\ p # n /\ ofile'[n] = ofile[p]
      /\ \A q \in Procs \ {n} : ofile'[q] = ofile[q] /\ state'[q] = state[q]
      /\ state'[n] = "RUNNABLE" /\ pc' = pc /\ ret' = ret
      /\ ip'[p] = ip[p] + 1 /\ \A q \in Procs \ {p} : ip'[q] = ip[q]
      /\ ProcType'
  BY <1>1, ForkFacts
<1>4. \A q \in Procs \ {p, n} : Same(q)
  BY <1>3, Zenon DEF Same
<1>5. \A q \in Procs \ {p, n} : Follows(q)' /\ (Unborn(q) => Unborn(q)')
  BY <1>4, SameFollows, Zenon DEF Control
<1>6. /\ \A d \in Fd : Opens("sh", ip[p] + 1, d) = Opens("sh", ip[p], d)
      /\ \A d \in Fd : Opens(n, 1, d) = Opens("sh", ip[p], d)
  BY <1>2 DEF Opens, Fd
<1>7. Follows(p)'
  <2>1. \A d \in Fd : ofile'[p][d] = Opens(p, ip'[p], d)
    BY <1>2, <1>3, <1>6
  <2>2. Follows(p) /\ pc[p] = "user"
    BY DEF Control, Fork, Calls, Running
  <2> QED  BY <1>2, <1>3, <2>1, <2>2 DEF Follows, Writing, Reading
<1>8. Follows(n)'
  <2>1. ip'[n] = 1 /\ pc'[n] = "user"
    BY <1>2, <1>3 DEF Unborn
  <2>2. \A d \in Fd : ofile'[n][d] = Opens(n, 1, d)
    <3>1. \A d \in Fd : ofile'[n][d] = Opens("sh", ip[p], d)
      BY <1>2, <1>3
    <3> QED  BY <1>6, <3>1, Zenon
  <2> QED  BY <1>2, <1>3, <2>1, <2>2 DEF Follows, Writing, Reading
<1>9. \A q \in Procs : Follows(q)'
  BY <1>5, <1>7, <1>8, Zenon
<1>10. ip'["sh"] > 2
  BY <1>2, <1>3
<1>11. ip'["sh"] <= 3 => Unborn("right")'
  <2>1. "right" \in Procs /\ "sh" \in Procs
    BY DEF Procs
  <2>2. ip'["sh"] <= 3 => ip["sh"] <= 3 /\ n # "right" /\ p # "right"
    BY <1>2, <1>3
  <2> QED  BY <1>5, <2>1, <2>2, Zenon DEF Control
<1>12. ip'["sh"] <= 2 => Unborn("left")'
  BY <1>2, <1>3
<1> QED  BY <1>3, <1>9, <1>11, <1>12, Zenon DEF Control

\* Every step keeps the processes on their programs.
LEMMA ControlNext ==
    ASSUME TypeOK, Control, Kinds, Held, NEW p \in Procs, PipeStep(p) \/ Kill(p)
    PROVE  ProcType' /\ Control'
BY PipeControl, ForkControl, CallFailsControl, DupControl, CloseControl, PipeCloseControl,
   StartWriteControl, PipeWriteControl, PipeReadControl, Sleep1Control, Sleep2Control,
   WaitControl, StartExitControl, ExitCloseControl, ExitControl, KillControl, Zenon DEF PipeStep

-----------------------------------------------------------------------------
(* The ends of the pipe. *)

\* A program only goes on.
LEMMA GoesOn ==
    ASSUME TypeOK, NEW p \in Procs, PipeStep(p) \/ Kill(p)
    PROVE  ip["sh"] \in Nat /\ ip'["sh"] \in Nat /\ ip'["sh"] >= ip["sh"]
<1>1. ip' = ip \/ ip' = [ip EXCEPT ![p] = @ + 1] \/ ip' = [ip EXCEPT ![p] = IF p = "init" THEN @ ELSE @ + 1]
  BY Zenon DEF PipeStep, Pipe, Fork, CallFails, Dup, Close, PipeClose, StartWrite, PipeWrite, PipeRead,
         Sleep1, Sleep2, Wait, StartExit, ExitClose, Exit, Kill, Return
<1>2. "sh" \in Procs /\ ip \in [Procs -> 1..8]
  BY DEF TypeOK, ProcType, Procs
<1> QED  BY <1>1, <1>2

\* EndOK after a step.
EndNext(f, o) ==
    /\ o <=> file'[f].ref > 0 \/ \E q \in Procs : pc'[q] = CloseOf(f)
    /\ \A q \in Procs : pc'[q] = CloseOf(f) => ip'["sh"] > 1 /\ file'[f].ref = 0
    /\ \A q, r \in Procs : pc'[q] = CloseOf(f) /\ pc'[r] = CloseOf(f) => q = r

\* A step that leaves an end of the pipe alone: nobody enters or leaves its pipeclose, and
\* its file stays open or closed.
LEMMA EndSame ==
    ASSUME NEW f, NEW o, EndOK(f, o), \A q \in Procs : pc'[q] = CloseOf(f) <=> pc[q] = CloseOf(f),
           file'[f].ref > 0 <=> file[f].ref > 0, file'[f].ref = 0 <=> file[f].ref = 0,
           ip["sh"] \in Nat, ip'["sh"] \in Nat, ip'["sh"] >= ip["sh"]
    PROVE  EndNext(f, o)
<1>1. o <=> file'[f].ref > 0 \/ \E q \in Procs : pc'[q] = CloseOf(f)
  BY Zenon DEF EndOK
<1>2. \A q \in Procs : pc'[q] = CloseOf(f) => ip'["sh"] > 1 /\ file'[f].ref = 0
  <2>1. ip["sh"] > 1 => ip'["sh"] > 1
    OBVIOUS
  <2> QED  BY <2>1, Zenon DEF EndOK
<1>3. \A q, r \in Procs : pc'[q] = CloseOf(f) /\ pc'[r] = CloseOf(f) => q = r
  BY Zenon DEF EndOK
<1> QED  BY <1>1, <1>2, <1>3, Zenon DEF EndNext

\* The flags of the pipe do not change, and nobody is in pipeclose who was not.
LEMMA EndsSame ==
    ASSUME Ends,
           \A q \in Procs : pc'[q] = pc[q] \/ (pc[q] \notin Closing /\ pc'[q] \notin Closing),
           \A f \in {2, 3} : /\ file'[f].ref > 0 <=> file[f].ref > 0
                             /\ file'[f].ref = 0 <=> file[f].ref = 0,
           pipe'.readopen = pipe.readopen, pipe'.writeopen = pipe.writeopen,
           pipe'.alloc = pipe.alloc,
           ip["sh"] \in Nat, ip'["sh"] \in Nat, ip'["sh"] >= ip["sh"]
    PROVE  Ends'
<1>1. \A f : CloseOf(f) \in Closing
  BY DEF CloseOf, Closing
<1>2. \A f : \A q \in Procs : pc'[q] = CloseOf(f) <=> pc[q] = CloseOf(f)
  BY <1>1, Zenon
<1>3. EndNext(2, pipe.readopen)
  BY <1>2, EndSame, Zenon DEF Ends
<1>4. EndNext(3, pipe.writeopen)
  BY <1>2, EndSame, Zenon DEF Ends
<1> QED  BY <1>3, <1>4, Zenon DEF Ends, EndNext, EndOK

\* fileclose: the last close of an end of the pipe goes on to pipeclose.
LEMMA EndsClose ==
    ASSUME TypeOK, Kinds, Held, Ends, NEW p \in Procs, NEW d \in Fd, NEW l \in {"user", "exit"},
           FileClose(p, d, l), ofile[p][d] \in File, pc[p] \notin Closing, pipe' = pipe,
           ip["sh"] \in Nat, ip'["sh"] \in Nat, ip'["sh"] >= ip["sh"]
    PROVE  Ends'
<1>1. PICK f \in File : f = ofile[p][d]
  OBVIOUS
<1>2. file[f].ref \in Nat /\ file[f].ref > 0
  BY <1>1 DEF Held, TypeOK, FileType, FileRec
<1>3. /\ \A q \in Procs \ {p} : pc'[q] = pc[q]
      /\ pc'[p] = IF file[f].ref # 1 \/ file[f].type # "pipe" THEN l
                  ELSE IF file[f].writable THEN "closew" ELSE "closer"
  BY <1>1 DEF FileClose, TypeOK, ProcType
<1>4. file'[f].ref = file[f].ref - 1 /\ \A g \in File \ {f} : file'[g] = file[g]
  BY <1>1 DEF FileClose, TypeOK, FileType, FileRec
<1>5. \A g : CloseOf(g) \in Closing /\ l \notin Closing
  BY DEF CloseOf, Closing
<1>6. \A g \in {2, 3} : CloseOf(g) = CloseOf(f) => g = f \/ f = 1
  BY DEF CloseOf, File
<1>7. f = 1 => pc'[p] = l
  BY <1>3 DEF Kinds
<1>8. ASSUME f # 1
      PROVE  pc'[p] = IF file[f].ref = 1 THEN CloseOf(f) ELSE l
  <2>1. f \in {2, 3}
    BY <1>8 DEF File
  <2>2. file[f].type = "pipe" /\ (file[f].writable <=> f = 3)
    BY <1>2, <2>1 DEF Kinds, IsEnd
  <2> QED  BY <1>3, <2>1, <2>2 DEF CloseOf
<1>9. ASSUME NEW g \in {2, 3}, NEW o, EndOK(g, o), g # f
      PROVE  EndNext(g, o)
  <2>1. pc'[p] # CloseOf(g)
    BY <1>5, <1>6, <1>7, <1>8, <1>9, Zenon
  <2>2. \A q \in Procs : pc'[q] = CloseOf(g) <=> pc[q] = CloseOf(g)
    BY <1>3, <1>5, <2>1, Zenon
  <2>3. g \in File
    BY DEF File
  <2> QED  BY <1>4, <1>9, <2>2, <2>3, EndSame, Zenon
<1>10. ASSUME NEW o, EndOK(f, o), f # 1
       PROVE  EndNext(f, o)
  <2>1. o /\ \A q \in Procs : pc[q] # CloseOf(f)
    BY <1>2, <1>10 DEF EndOK
  <2>2. ip'["sh"] > 1
    BY <1>2, <1>10 DEF Kinds, File
  <2>3. CASE file[f].ref = 1
    <3>1. file'[f].ref = 0 /\ pc'[p] = CloseOf(f)
      BY <1>2, <1>4, <1>8, <1>10, <2>3
    <3> QED  BY <1>3, <2>1, <2>2, <3>1, Zenon DEF EndNext
  <2>4. CASE file[f].ref # 1
    <3>1. file'[f].ref > 0 /\ pc'[p] = l
      BY <1>2, <1>4, <1>8, <1>10, <2>4
    <3>2. \A q \in Procs : pc'[q] # CloseOf(f)
      BY <1>3, <1>5, <2>1, <3>1, Zenon
    <3> QED  BY <2>1, <3>1, <3>2, Zenon DEF EndNext
  <2> QED  BY <2>3, <2>4
<1>11. EndNext(2, pipe.readopen) /\ EndNext(3, pipe.writeopen)
  <2>1. f = 1 \/ f = 2 \/ f = 3
    BY DEF File
  <2>2. EndNext(2, pipe.readopen)
    BY <1>9, <1>10, <2>1 DEF Ends
  <2>3. EndNext(3, pipe.writeopen)
    BY <1>9, <1>10, <2>1 DEF Ends
  <2> QED  BY <2>2, <2>3
<1> QED  BY <1>11, Zenon DEF Ends, EndNext, EndOK

\* pipe opens both ends.
LEMMA EndsPipe ==
    ASSUME TypeOK, Control, Kinds, Held, Ends, NEW p \in Procs, Pipe(p)
    PROVE  Ends'
<1>1. /\ p = "sh" /\ ip[p] = 1
      /\ file' = [file EXCEPT ![2] = [ref |-> 1, type |-> "pipe", writable |-> FALSE],
                              ![3] = [ref |-> 1, type |-> "pipe", writable |-> TRUE]]
  BY PipeArgs, Zenon
<1>2. pc[p] = "user" /\ pc' = [pc EXCEPT ![p] = "user"]
  BY DEF Pipe, Calls, Running, Return
<1>3. pc' = pc
  BY <1>2 DEF TypeOK, ProcType
<1>4. file'[2].ref > 0 /\ file'[3].ref > 0
  BY <1>1 DEF TypeOK, FileType, File
<1>5. pipe'.readopen = TRUE /\ pipe'.writeopen = TRUE /\ pipe'.alloc = TRUE
  BY DEF Pipe, TypeOK, DataType, PipeType
<1>6. \A q \in Procs : pc[q] # CloseOf(2) /\ pc[q] # CloseOf(3)
  BY <1>1 DEF Ends, EndOK
<1> QED  BY <1>3, <1>4, <1>5, <1>6, Zenon DEF Ends, EndOK

\* pipeclose closes one end.
LEMMA EndsPipeClose ==
    ASSUME TypeOK, Ends, NEW p \in Procs, PipeClose(p),
           ip["sh"] \in Nat, ip'["sh"] \in Nat, ip'["sh"] >= ip["sh"]
    PROVE  Ends'
<1>1. /\ pc[p] \in Closing /\ file' = file
      /\ pc'[p] \notin Closing /\ \A q \in Procs \ {p} : pc'[q] = pc[q]
  BY DEF PipeClose, Running, Closing, TypeOK, ProcType
<1>2. PICK f \in {2, 3} : pc[p] = CloseOf(f)
  BY <1>1 DEF Closing, CloseOf
<1>3. PICK g \in {2, 3} : g # f
  BY <1>2
<1>4. CloseOf(f) # CloseOf(g) /\ CloseOf(f) \in Closing /\ CloseOf(g) \in Closing
  BY <1>3 DEF CloseOf, Closing
<1>5. ASSUME NEW o, EndOK(g, o)
      PROVE  EndNext(g, o)
  <2>1. \A q \in Procs : pc'[q] = CloseOf(g) <=> pc[q] = CloseOf(g)
    BY <1>1, <1>2, <1>4, Zenon
  <2> QED  BY <1>1, <1>5, <2>1, EndSame, Zenon
<1>6. ASSUME NEW o, EndOK(f, o)
      PROVE  EndNext(f, FALSE)
  <2>1. \A q \in Procs : pc'[q] # CloseOf(f)
    BY <1>1, <1>2, <1>4, <1>6, Zenon DEF EndOK
  <2>2. file[f].ref = 0
    BY <1>2, <1>6, Zenon DEF EndOK
  <2>3. ~(file'[f].ref > 0)
    BY <1>1, <2>2
  <2> QED  BY <2>1, <2>3, Zenon DEF EndNext
<1>7. pipe'.alloc = (pipe'.readopen \/ pipe'.writeopen)
  BY DEF PipeClose, TypeOK, DataType, PipeType
<1>8. CASE f = 3
  <2>1. pipe'.writeopen = FALSE /\ pipe'.readopen = pipe.readopen
    BY <1>2, <1>8 DEF CloseOf, PipeClose, TypeOK, DataType, PipeType
  <2>2. EndNext(3, FALSE) /\ EndNext(2, pipe.readopen)
    BY <1>3, <1>5, <1>6, <1>8, Zenon DEF Ends
  <2> QED  BY <1>7, <2>1, <2>2, Zenon DEF Ends, EndNext, EndOK
<1>9. CASE f = 2
  <2>1. pipe'.readopen = FALSE /\ pipe'.writeopen = pipe.writeopen
    BY <1>2, <1>9 DEF CloseOf, PipeClose, TypeOK, DataType, PipeType
  <2>2. EndNext(2, FALSE) /\ EndNext(3, pipe.writeopen)
    BY <1>3, <1>5, <1>6, <1>9, Zenon DEF Ends
  <2> QED  BY <1>7, <2>1, <2>2, Zenon DEF Ends, EndNext, EndOK
<1> QED  BY <1>8, <1>9

\* A step other than pipe, close, exit's close and pipeclose leaves the ends alone.
LEMMA EndsOther ==
    ASSUME TypeOK, Control, Kinds, Held, Ends, NEW p \in Procs,
           \/ CallFails(p) \/ StartWrite(p) \/ PipeWrite(p) \/ PipeRead(p) \/ Sleep1(p)
           \/ Sleep2(p) \/ Wait(p) \/ StartExit(p) \/ Exit(p) \/ Kill(p),
           ip["sh"] \in Nat, ip'["sh"] \in Nat, ip'["sh"] >= ip["sh"]
    PROVE  Ends'
<1>1. file' = file
  BY DEF CallFails, StartWrite, PipeWrite, PipeRead, Sleep1, Sleep2, Wait, StartExit, Exit, Kill
<1>2. \/ pc' = pc
      \/ pc[p] \notin Closing /\ \E l \in Labels \ Closing : pc' = [pc EXCEPT ![p] = l]
  <2>1. CASE PipeWrite(p)
    BY <2>1 DEF PipeWrite, Running, Sleep, Labels, Closing
  <2>2. CASE PipeRead(p)
    BY <2>2, Zenon DEF PipeRead, Calls, Running, Sleep, Labels, Closing
  <2>3. CASE StartWrite(p)
    BY <2>3 DEF StartWrite, Calls, Running, Return, Labels, Closing
  <2>4. CASE CallFails(p) \/ StartExit(p) \/ Exit(p)
    BY <2>4 DEF CallFails, StartExit, Exit, Calls, Running, Labels, Closing
  <2>5. CASE Sleep1(p) \/ Sleep2(p)
    BY <2>5 DEF Sleep1, Sleep2, Running, Labels, Closing
  <2>6. CASE Wait(p) \/ Kill(p)
    BY <2>6 DEF Wait, Kill
  <2> QED  BY <2>1, <2>2, <2>3, <2>4, <2>5, <2>6, Zenon
<1>3. \A q \in Procs : pc'[q] = pc[q] \/ (pc[q] \notin Closing /\ pc'[q] \notin Closing)
  BY <1>2 DEF TypeOK, ProcType
<1>4. /\ pipe'.readopen = pipe.readopen /\ pipe'.writeopen = pipe.writeopen
      /\ pipe'.alloc = pipe.alloc
  <2>1. CASE PipeWrite(p)
    BY <2>1 DEF PipeWrite, TypeOK, DataType, PipeType
  <2>2. CASE PipeRead(p)
    BY <2>2 DEF PipeRead, TypeOK, DataType, PipeType
  <2>3. CASE pipe' = pipe
    BY <2>3
  <2> QED  BY <2>1, <2>2, <2>3 DEF CallFails, StartWrite, Sleep1, Sleep2, Wait, StartExit, Exit,
                                   Kill
<1> QED  BY <1>1, <1>3, <1>4, EndsSame

\* dup and fork open no end that was closed.
LEMMA EndsMore ==
    ASSUME TypeOK, Control, Kinds, Held, Ends, NEW p \in Procs, Dup(p) \/ Fork(p),
           ip["sh"] \in Nat, ip'["sh"] \in Nat, ip'["sh"] >= ip["sh"]
    PROVE  Ends'
<1>1. /\ pc[p] = "user" /\ pc' = [pc EXCEPT ![p] = "user"] /\ pipe' = pipe
  BY DEF Dup, Fork, Calls, Running, Return
<1>2. pc' = pc
  BY <1>1 DEF TypeOK, ProcType
<1>3. ASSUME NEW f \in {2, 3}
      PROVE  /\ file'[f].ref > 0 <=> file[f].ref > 0
             /\ file'[f].ref = 0 <=> file[f].ref = 0
  <2>1. f \in File /\ file[f].ref \in Nat
    BY DEF TypeOK, FileType, FileRec, File
  <2>2. CASE Dup(p)
    <3>1. PICK g : g = argfd(p)
      OBVIOUS
    <3>2. /\ g = (IF p = "left" THEN 3 ELSE 2)
          /\ Arg(p) \in Fd /\ ofile[p][Arg(p)] = g
      BY <2>2, <3>1, DupArg, Zenon
    <3>3. g \in File /\ file[g].ref > 0
      BY <3>2 DEF File, Held
    <3>4. file' = [file EXCEPT ![g].ref = @ + 1]
      BY <2>2, <3>1 DEF Dup, filedup
    <3>5. file'[f].ref = IF f = g THEN file[f].ref + 1 ELSE file[f].ref
      BY <2>1, <3>3, <3>4 DEF TypeOK, FileType, FileRec
    <3> QED  BY <2>1, <3>3, <3>5
  <2>3. CASE Fork(p)
    <3>1. Counted(p, f) \in Nat /\ (Counted(p, f) > 0 => file[f].ref > 0)
      BY <2>1, Zenon DEF Held
    <3>2. file'[f].ref = file[f].ref + Counted(p, f)
      BY <2>1, <2>3 DEF Fork, TypeOK, FileType, FileRec
    <3> QED  BY <2>1, <3>1, <3>2
  <2> QED  BY <2>2, <2>3
<1> QED  BY <1>1, <1>2, <1>3, EndsSame

\* Every step keeps the ends of the pipe.
LEMMA EndsStep ==
    ASSUME TypeOK, Control, Kinds, Held, Ends, NEW p \in Procs, PipeStep(p) \/ Kill(p)
    PROVE  Ends'
<1>1. ip["sh"] \in Nat /\ ip'["sh"] \in Nat /\ ip'["sh"] >= ip["sh"]
  BY GoesOn, Zenon
<1>2. CASE Close(p)
  <2>1. Calls(p, "close") /\ FileClose(p, Arg(p), "user") /\ pipe' = pipe /\ pc[p] \notin Closing
    BY <1>2 DEF Close, Calls, Running, Closing
  <2>2. Arg(p) \in Fd /\ ofile[p][Arg(p)] \in File
    BY <2>1, CloseArg, Zenon
  <2> QED  BY <1>1, <2>1, <2>2, EndsClose, Zenon
<1>3. CASE ExitClose(p)
  <2>1. /\ OpenFds(p) # {} /\ FileClose(p, First(OpenFds(p)), "exit") /\ pipe' = pipe
        /\ pc[p] \notin Closing
    BY <1>3 DEF ExitClose, Running, Closing
  <2>2. First(OpenFds(p)) \in Fd /\ ofile[p][First(OpenFds(p))] \in File
    BY <2>1, ExitFd, Zenon
  <2> QED  BY <1>1, <2>1, <2>2, EndsClose, Zenon
<1>4. CASE Pipe(p) \/ PipeClose(p) \/ Dup(p) \/ Fork(p)
  BY <1>1, <1>4, EndsPipe, EndsPipeClose, EndsMore, Zenon
<1>5. CASE \/ CallFails(p) \/ StartWrite(p) \/ PipeWrite(p) \/ PipeRead(p) \/ Sleep1(p)
           \/ Sleep2(p) \/ Wait(p) \/ StartExit(p) \/ Exit(p) \/ Kill(p)
  BY <1>1, <1>5, EndsOther, Zenon
<1> QED  BY <1>2, <1>3, <1>4, <1>5, Zenon DEF PipeStep

-----------------------------------------------------------------------------
(* The bytes in the pipe. *)

\* The sizes.
LEMMA Sizes ==
    /\ PIPESIZE \in Nat \ {0} /\ UINT \in Nat \ {0} /\ UINT % PIPESIZE = 0
    /\ \A x \in 0..PIPESIZE : x \in 0..(UINT - 1)
<1>1. PIPESIZE \in Nat \ {0} /\ UINT \in Nat /\ UINT > PIPESIZE
  BY PipeAssumption, Zenon
<1>2. UINT \in Nat \ {0} /\ \A x \in 0..PIPESIZE : x \in 0..(UINT - 1)
  BY <1>1
<1> QED  BY <1>1, <1>2, PipeAssumption, Zenon

\* nwrite - nread is how much is in the pipe.
LEMMA RingCount ==
    ASSUME NEW g \in Nat, NEW s \in Nat, g <= s, NEW nread, NEW nwrite, NEW data,
           InRing(g, s, nread, nwrite, data)
    PROVE  (nwrite - nread) % UINT = s - g /\ s - g \in 0..PIPESIZE
<1>1. s - g \in 0..PIPESIZE
  BY Sizes DEF InRing
<1>2. s - g \in 0..(UINT - 1) /\ s \in Int /\ g \in Int
  BY <1>1, Sizes
<1>3. ((s % UINT) - (g % UINT)) % UINT = s - g
  BY <1>2, Sizes, ModMinus, Zenon
<1> QED  BY <1>1, <1>3, Zenon DEF InRing

\* The index of byte k of the text, k - s bytes after the s-th.
LEMMA RingSlot ==
    ASSUME NEW s \in Nat, NEW i \in Int
    PROVE  ((s % UINT) + i) % PIPESIZE = (s + i) % PIPESIZE
<1>1. s \in Int
  OBVIOUS
<1>2. UINT \in Nat \ {0} /\ PIPESIZE \in Nat \ {0} /\ Divides(PIPESIZE, UINT)
  BY Sizes, Zenon DEF Divides
<1> QED  BY <1>1, <1>2, ModRing, ZenonT(30)

\* The buffer after the loop of pipewrite, when n bytes fit.
Copied(s, nwrite, data, n) ==
    [k \in 0..(PIPESIZE - 1) |->
        IF \E i \in 0..(n - 1) : (nwrite + i) % PIPESIZE = k
        THEN s + 1 + CHOOSE i \in 0..(n - 1) : (nwrite + i) % PIPESIZE = k
        ELSE data[k]]

\* pipewrite puts the bytes where they belong, and overwrites none that is to be read.
LEMMA RingWrite ==
    ASSUME NEW g \in Nat, NEW s \in Nat, g <= s, NEW nread, NEW nwrite,
           NEW data \in [0..(PIPESIZE - 1) -> Nat], InRing(g, s, nread, nwrite, data),
           NEW n \in Nat, n <= PIPESIZE - (s - g), NEW new, new = Copied(s, nwrite, data, n)
    PROVE  /\ InRing(g, s + n, nread, (nwrite + n) % UINT, new)
           /\ new \in [0..(PIPESIZE - 1) -> Nat]
<1> DEFINE At(k, i) == i \in 0..(n - 1) /\ (nwrite + i) % PIPESIZE = k
<1>1. ASSUME NEW k \in 0..(PIPESIZE - 1), \E i : At(k, i)
      PROVE  \E i : At(k, i) /\ new[k] = s + 1 + i
  <2> DEFINE c == CHOOSE i \in 0..(n - 1) : (nwrite + i) % PIPESIZE = k
  <2>1. At(k, c)
    BY <1>1, Zenon
  <2>2. new[k] = s + 1 + c
    BY <1>1 DEF Copied
  <2> QED  BY <2>1, <2>2, Zenon
<1>2. ASSUME NEW k \in 0..(PIPESIZE - 1), ~\E i : At(k, i)
      PROVE  new[k] = data[k]
  BY <1>2 DEF Copied
<1>3. \A i \in Int : (nwrite + i) % PIPESIZE = (s + i) % PIPESIZE
  BY RingSlot, Zenon DEF InRing
<1>4. \A i \in Int : i % PIPESIZE \in 0..(PIPESIZE - 1)
  BY Sizes, DivMod, Zenon
<1>5. new \in [0..(PIPESIZE - 1) -> Nat]
  <2>1. \A k \in 0..(PIPESIZE - 1) : new[k] \in Nat
    <3> SUFFICES ASSUME NEW k \in 0..(PIPESIZE - 1)
                 PROVE  new[k] \in Nat
      OBVIOUS
    <3>1. CASE \E i : At(k, i)
      BY <1>1, <3>1
    <3>2. CASE ~\E i : At(k, i)
      BY <1>2, <3>2
    <3> QED  BY <3>1, <3>2, Zenon
  <2> QED  BY <2>1 DEF Copied
<1>6. (nwrite + n) % UINT = (s + n) % UINT
  <2>1. s \in Int /\ n \in Int
    OBVIOUS
  <2> QED  BY <2>1, Sizes, ModPlus, Zenon DEF InRing
<1>7. (s + n) - g <= PIPESIZE
  BY Sizes
<1>8. ASSUME NEW j \in g..((s + n) - 1)
      PROVE  new[j % PIPESIZE] = j + 1
  <2>1. j \in Int /\ j % PIPESIZE \in 0..(PIPESIZE - 1)
    <3>1. j \in Int
      OBVIOUS
    <3> QED  BY <1>4, <3>1, Zenon
  <2>2. ASSUME NEW i, At(j % PIPESIZE, i)
        PROVE  s + i = j
    <3>1. i \in 0..(n - 1) /\ i \in Int /\ s + i \in Int
      BY <2>2
    <3>2. (s + i) % PIPESIZE = j % PIPESIZE
      BY <1>3, <2>2, <3>1, Zenon
    <3>3. (s + i) - j < PIPESIZE /\ j - (s + i) < PIPESIZE
      BY <3>1, Sizes
    <3>4. PICK z \in Int : z = s + i
      BY <3>1
    <3>5. z % PIPESIZE = j % PIPESIZE /\ z - j < PIPESIZE /\ j - z < PIPESIZE
      BY <3>2, <3>3, <3>4, Zenon
    <3>6. ~(z < j) /\ ~(j < z)
      BY <2>1, <3>5, Sizes, ModDistinct, Zenon
    <3> QED  BY <2>1, <3>4, <3>6
  <2>3. CASE j < s
    <3>1. ~\E i : At(j % PIPESIZE, i)
      <4>1. \A i \in 0..(n - 1) : s + i # j
        BY <2>3
      <4> QED  BY <2>2, <4>1, Zenon
    <3>2. new[j % PIPESIZE] = data[j % PIPESIZE]
      BY <1>2, <2>1, <3>1, Zenon
    <3>3. j \in g..(s - 1)
      BY <2>3
    <3> QED  BY <3>2, <3>3, Zenon DEF InRing
  <2>4. CASE j >= s
    <3>1. j - s \in 0..(n - 1) /\ j - s \in Int /\ s + (j - s) = j
      BY <2>4
    <3>2. At(j % PIPESIZE, j - s)
      BY <1>3, <3>1, Zenon
    <3>3. PICK i : At(j % PIPESIZE, i) /\ new[j % PIPESIZE] = s + 1 + i
      BY <1>1, <2>1, <3>2, Zenon
    <3>4. s + i = j /\ i \in 0..(n - 1)
      BY <2>2, <3>3, Zenon
    <3> HIDE DEF At
    <3> QED  BY <3>3, <3>4
  <2>5. j < s \/ j >= s
    OBVIOUS
  <2> QED  BY <2>3, <2>4, <2>5, Zenon
<1> HIDE DEF At
<1>9. nread = g % UINT
  BY Zenon DEF InRing
<1> QED  BY <1>5, <1>6, <1>7, <1>8, <1>9, Zenon DEF InRing

\* The bytes that piperead finds in the pipe.
LEMMA RingBytes ==
    ASSUME NEW g \in Nat, NEW s \in Nat, g <= s, NEW nread, NEW nwrite, NEW data,
           InRing(g, s, nread, nwrite, data), NEW i \in 1..(s - g)
    PROVE  data[(nread + i - 1) % PIPESIZE] = g + i
<1>1. i - 1 \in Int /\ g + (i - 1) \in g..(s - 1) /\ g + (i - 1) + 1 = g + i
  OBVIOUS
<1>2. ((g % UINT) + (i - 1)) % PIPESIZE = (g + (i - 1)) % PIPESIZE
  BY <1>1, RingSlot, Zenon
<1>3. data[(g + (i - 1)) % PIPESIZE] = g + (i - 1) + 1
  BY <1>1, Zenon DEF InRing
<1>4. nread + i - 1 = (g % UINT) + (i - 1)
  <2>1. g % UINT \in Int
    BY Sizes, DivMod
  <2>2. nread = g % UINT
    BY Zenon DEF InRing
  <2> QED  BY <2>1, <2>2
<1> QED  BY <1>1, <1>2, <1>3, <1>4, Zenon

\* n bytes are read.
LEMMA RingRead ==
    ASSUME NEW g \in Nat, NEW s \in Nat, g <= s, NEW nread, NEW nwrite, NEW data,
           InRing(g, s, nread, nwrite, data), NEW n \in Nat, n <= s - g
    PROVE  InRing(g + n, s, (nread + n) % UINT, nwrite, data) /\ g + n <= s /\ g + n \in Nat
<1>1. g \in Int /\ n \in Int /\ g + n <= s /\ g + n \in Nat
  OBVIOUS
<1>2. ((g % UINT) + n) % UINT = (g + n) % UINT
  BY <1>1, Sizes, ModPlus, Zenon
<1>3. (nread + n) % UINT = (g + n) % UINT
  BY <1>2, Zenon DEF InRing
<1>4. s - (g + n) <= PIPESIZE
  BY Sizes DEF InRing
<1>5. \A j \in (g + n)..(s - 1) : j \in g..(s - 1)
  OBVIOUS
<1> QED  BY <1>1, <1>3, <1>4, <1>5, Zenon DEF InRing

\* Who has an end of the pipe open finds the pipe there.
LEMMA Holding ==
    ASSUME TypeOK, Kinds, Held, Ends, NEW p \in Procs, NEW d \in Fd, ofile[p][d] \in {2, 3}
    PROVE  /\ file[ofile[p][d]].ref > 0 /\ ip["sh"] > 1
           /\ pipe.alloc
<1>1. PICK f \in {2, 3} : f = ofile[p][d]
  OBVIOUS
<1>2. f \in File
  BY DEF File
<1>3. file[f].ref > 0 /\ ip["sh"] > 1
  BY <1>1, <1>2 DEF Kinds, Held
<1>4. f = 2 => pipe.readopen
  BY <1>3 DEF Ends, EndOK
<1>5. f = 3 => pipe.writeopen
  BY <1>3 DEF Ends, EndOK
<1>6. f = 2 \/ f = 3
  OBVIOUS
<1> QED  BY <1>1, <1>3, <1>4, <1>5, <1>6, Zenon DEF Ends

\* A step that neither writes nor reads.
LEMMA StreamSame ==
    ASSUME DataType, Stream, UNCHANGED <<sent, got, eof>>, pipe' \in PipeType, todo' \in Nat,
           pipe'.alloc => pipe.alloc, pipe'.nread = pipe.nread, pipe'.nwrite = pipe.nwrite,
           pipe'.data = pipe.data, ip["sh"] \in Nat, ip'["sh"] \in Nat, ip'["sh"] >= ip["sh"],
           ip["sh"] >= 1
    PROVE  DataType' /\ Stream'
<1>1. DataType'
  BY DEF DataType
<1>2. ip'["sh"] = 1 => ip["sh"] = 1
  OBVIOUS
<1> QED  BY <1>1, <1>2, Zenon DEF Stream

\* pipe makes an empty pipe, before anything is written.
LEMMA StreamPipe ==
    ASSUME TypeOK, Control, Kinds, Held, Stream, NEW p \in Procs, Pipe(p)
    PROVE  DataType' /\ Stream'
<1>1. p = "sh" /\ ip[p] = 1
  BY PipeArgs, Zenon
<1>2. /\ pipe' = [pipe EXCEPT !.alloc = TRUE, !.nread = 0, !.nwrite = 0, !.readopen = TRUE,
                              !.writeopen = TRUE]
      /\ UNCHANGED <<todo, sent, got, eof>> /\ ip' = [ip EXCEPT ![p] = @ + 1]
  BY DEF Pipe, Return
<1>3. pipe' \in PipeType /\ pipe'.nread = 0 /\ pipe'.nwrite = 0
  <2>1. 0 \in 0..(UINT - 1)
    BY Sizes
  <2> QED  BY <1>2, <2>1, Zenon DEF TypeOK, DataType, PipeType
<1>4. DataType'
  BY <1>2, <1>3 DEF TypeOK, DataType
<1>5. sent = 0 /\ Len(got) = 0
  BY <1>1 DEF Stream, TypeOK, DataType
<1>6. 0 % UINT = 0
  <2>1. 0 \in 0..(UINT - 1)
    BY Sizes
  <2> QED  BY <2>1, Sizes, ModSmall, Zenon
<1>7. InRing(0, 0, 0, 0, pipe'.data)
  <2>1. 0 - 0 <= PIPESIZE /\ \A j \in 0..(0 - 1) : pipe'.data[j % PIPESIZE] = j + 1
    BY Sizes
  <2> QED  BY <1>6, <2>1, Zenon DEF InRing
<1>8. ip'["sh"] = 2
  BY <1>1, <1>2 DEF TypeOK, ProcType
<1> QED  BY <1>2, <1>3, <1>4, <1>5, <1>7, <1>8 DEF Stream

\* pipewrite is a step of left, which has the write end open.
LEMMA Writer ==
    ASSUME TypeOK, Control, NEW p \in Procs, PipeWrite(p)
    PROVE  p = "left" /\ 1 \in Fd /\ ofile[p][1] = 3
<1>1. state[p] = "RUNNABLE" /\ pc[p] = "write"
  BY DEF PipeWrite, Running
<1>2. Alive(p) /\ Follows(p)
  BY <1>1 DEF Alive, Closing, Control
<1>3. p = "left" /\ ip[p] = 5
  BY <1>1, <1>2 DEF Follows, Writing
<1>4. 1 \in Fd /\ Opens("left", 5, 1) = 3
  BY DEF Opens, Fd
<1> QED  BY <1>2, <1>3, <1>4, Zenon DEF Follows

\* Count is how much has been sent and not got.
LEMMA CountIs ==
    ASSUME DataType, Stream, pipe.alloc
    PROVE  Count = sent - Len(got) /\ Count \in 0..PIPESIZE /\ Count \in Nat
<1>1. sent \in Nat /\ Len(got) \in Nat /\ Len(got) <= sent
  BY DEF DataType, Stream
<1>2. InRing(Len(got), sent, pipe.nread, pipe.nwrite, pipe.data)
  BY Zenon DEF Stream
<1>3. (pipe.nwrite - pipe.nread) % UINT = sent - Len(got) /\ sent - Len(got) \in 0..PIPESIZE
  BY <1>1, <1>2, RingCount, Zenon
<1> QED  BY <1>1, <1>3 DEF Count

\* pipewrite.
LEMMA StreamWrite ==
    ASSUME TypeOK, Control, Kinds, Held, Ends, Stream, AtEnd, NEW p \in Procs, PipeWrite(p)
    PROVE  DataType' /\ Stream' /\ AtEnd'
<1>1. p = "left" /\ 1 \in Fd /\ ofile[p][1] = 3
  BY Writer, Zenon
<1>2. file[3].ref > 0 /\ ip["sh"] > 1 /\ pipe.alloc
  BY <1>1, Holding
<1>3. Count = sent - Len(got) /\ Count \in 0..PIPESIZE
  BY <1>2, CountIs, Zenon DEF TypeOK
<1>4. PICK g \in Nat : g = Len(got)
  BY DEF TypeOK, DataType
<1>5. PICK n : n = IF todo < PIPESIZE - Count THEN todo ELSE PIPESIZE - Count
  OBVIOUS
<1>6. sent \in Nat /\ todo \in Nat /\ g <= sent
  BY <1>4 DEF TypeOK, DataType, Stream
<1>7. n \in Nat /\ n <= todo /\ n <= PIPESIZE - (sent - g)
  BY <1>3, <1>4, <1>5, <1>6, Sizes
<1>8. /\ pipe' = [pipe EXCEPT !.nwrite = (@ + n) % UINT,
                              !.data = [k \in DOMAIN @ |->
                                  IF \E i \in 0..(n - 1) : Slot(i) = k
                                  THEN sent + 1 + CHOOSE i \in 0..(n - 1) : Slot(i) = k
                                  ELSE @[k]]]
      /\ sent' = sent + n /\ todo' = todo - n /\ UNCHANGED <<got, eof, file, ip>>
  BY <1>5 DEF PipeWrite
<1>9. PICK new : new = Copied(sent, pipe.nwrite, pipe.data, n)
  OBVIOUS
<1>10. pipe' = [pipe EXCEPT !.nwrite = (@ + n) % UINT, !.data = new]
  <2>1. DOMAIN pipe.data = 0..(PIPESIZE - 1)
    BY DEF TypeOK, DataType, PipeType
  <2>2. PICK old : old = pipe.data
    OBVIOUS
  <2>3. new = [k \in DOMAIN old |->
                  IF \E i \in 0..(n - 1) : Slot(i) = k
                  THEN sent + 1 + CHOOSE i \in 0..(n - 1) : Slot(i) = k
                  ELSE old[k]]
    BY <1>9, <2>1, <2>2, Zenon DEF Copied, Slot
  <2> QED  BY <1>8, <2>2, <2>3, Zenon
<1>11. pipe.data \in [0..(PIPESIZE - 1) -> Nat]
  BY DEF TypeOK, DataType, PipeType
<1>12. InRing(g, sent, pipe.nread, pipe.nwrite, pipe.data)
  BY <1>2, <1>4, Zenon DEF Stream
<1>13. /\ InRing(g, sent + n, pipe.nread, (pipe.nwrite + n) % UINT, new)
       /\ new \in [0..(PIPESIZE - 1) -> Nat]
  BY <1>6, <1>7, <1>9, <1>11, <1>12, RingWrite, Zenon
<1>14. (pipe.nwrite + n) % UINT \in 0..(UINT - 1)
  <2>1. pipe.nwrite + n \in Int
    BY <1>7, Sizes DEF TypeOK, DataType, PipeType
  <2> QED  BY <2>1, Sizes, DivMod, Zenon
<1>15. /\ pipe' \in PipeType /\ pipe'.nread = pipe.nread /\ pipe'.data = new
       /\ pipe'.nwrite = (pipe.nwrite + n) % UINT
  <2>1. PICK m \in 0..(UINT - 1) : m = (pipe.nwrite + n) % UINT
    BY <1>14
  <2>2. pipe' = [pipe EXCEPT !.nwrite = m, !.data = new]
    BY <1>10, <2>1, Zenon
  <2> QED  BY <1>13, <2>1, <2>2, Zenon DEF TypeOK, DataType, PipeType
<1>16. DataType'
  BY <1>6, <1>7, <1>8, <1>15 DEF TypeOK, DataType
<1>17. Len(got') = g /\ g <= sent' /\ ip'["sh"] # 1
  BY <1>2, <1>4, <1>6, <1>7, <1>8
<1>18. InRing(Len(got'), sent', pipe'.nread, pipe'.nwrite, pipe'.data)
  BY <1>8, <1>13, <1>15, <1>17, Zenon
<1>19. \A i \in 1..Len(got') : got'[i] = i
  BY <1>8, Zenon DEF Stream
<1>20. Stream'
  BY <1>17, <1>18, <1>19, Zenon DEF Stream
<1>21. ~eof
  BY <1>2 DEF AtEnd
<1> QED  BY <1>8, <1>16, <1>20, <1>21 DEF AtEnd

\* The bytes that piperead appends.
LEMMA BufferedIs ==
    ASSUME DataType, Stream, pipe.alloc
    PROVE  /\ Buffered \in Seq(Nat) /\ Len(Buffered) = Count
           /\ \A i \in 1..Count : Buffered[i] = Len(got) + i
<1>1. Count = sent - Len(got) /\ Count \in Nat
  BY CountIs, Zenon
<1>2. sent \in Nat /\ Len(got) \in Nat /\ Len(got) <= sent
  BY DEF DataType, Stream
<1>3. InRing(Len(got), sent, pipe.nread, pipe.nwrite, pipe.data)
  BY Zenon DEF Stream
<1>4. ASSUME NEW i \in 1..Count
      PROVE  pipe.data[(pipe.nread + i - 1) % PIPESIZE] = Len(got) + i
  <2>1. PICK g \in Nat, s \in Nat : g = Len(got) /\ s = sent
    BY <1>2
  <2>2. PICK nr, nw, dt : nr = pipe.nread /\ nw = pipe.nwrite /\ dt = pipe.data
    OBVIOUS
  <2>3. i \in 1..(s - g) /\ g <= s /\ InRing(g, s, nr, nw, dt)
    BY <1>1, <1>2, <1>3, <2>1, <2>2, Zenon
  <2>4. dt[(nr + i - 1) % PIPESIZE] = g + i
    BY <2>3, RingBytes
  <2> QED  BY <2>1, <2>2, <2>4, Zenon
<1>5. \A i \in 1..Count : Buffered[i] = Len(got) + i
  BY <1>4, Zenon DEF Buffered
<1>6. Buffered = [i \in 1..Count |-> Len(got) + i]
  BY <1>4, Zenon DEF Buffered
<1>7. PICK c \in Nat : c = Count
  BY <1>1
<1>8. PICK g \in Nat : g = Len(got)
  BY <1>2
<1>9. Buffered = [i \in 1..c |-> g + i]
  BY <1>6, <1>7, <1>8, Zenon
<1>10. [i \in 1..c |-> g + i] \in Seq(Nat) /\ Len([i \in 1..c |-> g + i]) = c
  OBVIOUS
<1> QED  BY <1>5, <1>7, <1>9, <1>10, Zenon

\* piperead.
LEMMA StreamRead ==
    ASSUME TypeOK, Control, Kinds, Held, Ends, Stream, AtEnd, NEW p \in Procs, PipeRead(p)
    PROVE  DataType' /\ Stream' /\ AtEnd'
<1>1. p = "right" /\ ofile[p][0] = 2 /\ 0 \in Fd
  BY Reader DEF Fd
<1>2. file[2].ref > 0 /\ ip["sh"] > 1 /\ pipe.alloc
  BY <1>1, Holding
<1>3. Count = sent - Len(got) /\ Count \in Nat
  BY <1>2, CountIs, Zenon DEF TypeOK
<1>4. PICK g \in Nat : g = Len(got)
  BY DEF TypeOK, DataType
<1>5. sent \in Nat /\ todo \in Nat /\ g <= sent
  BY <1>4 DEF TypeOK, DataType, Stream
<1>6. PICK n : n = IF Count < ReadSize THEN Count ELSE ReadSize
  OBVIOUS
<1>7. n \in Nat /\ n <= Count /\ (n = 0 => Count = 0)
  <2>1. ReadSize \in Nat \ {0}
    BY PipeAssumption, Zenon
  <2> QED  BY <1>3, <1>6, <2>1
<1>8. UNCHANGED <<file, ip, sent, todo>>
  BY DEF PipeRead
<1>9. CASE UNCHANGED <<pipe, got, eof>>
  BY <1>8, <1>9 DEF TypeOK, DataType, Stream, AtEnd
<1>10. CASE /\ ~MustWait /\ got' = got \o SubSeq(Buffered, 1, n)
            /\ pipe' = [pipe EXCEPT !.nread = (@ + n) % UINT] /\ eof' = (n = 0)
  <2>1. /\ Buffered \in Seq(Nat) /\ Len(Buffered) = Count
        /\ \A i \in 1..Count : Buffered[i] = g + i
    BY <1>2, <1>4, BufferedIs, Zenon DEF TypeOK
  <2>2. PICK b \in Seq(Nat) : b = Buffered
    BY <2>1
  <2>3. PICK new : new = SubSeq(b, 1, n)
    BY Zenon
  <2>4. new \in Seq(Nat) /\ Len(new) = n /\ \A i \in 1..n : new[i] = g + i
    BY <1>3, <1>7, <2>1, <2>2, <2>3
  <2>5. PICK old \in Seq(Nat) : old = got
    BY DEF TypeOK, DataType
  <2>6. got' = old \o new
    BY <1>10, <2>2, <2>3, <2>5, Zenon
  <2>7. /\ old \o new \in Seq(Nat) /\ Len(old \o new) = Len(old) + Len(new)
        /\ \A i \in 1..Len(old) : (old \o new)[i] = old[i]
        /\ \A i \in (Len(old) + 1)..(Len(old) + Len(new)) : (old \o new)[i] = new[i - Len(old)]
    BY <2>4, Concat, Zenon
  <2>8. Len(old) = g /\ \A i \in 1..g : old[i] = i
    BY <1>4, <2>5, Zenon DEF Stream
  <2>9. got' \in Seq(Nat) /\ Len(got') = g + n
    BY <2>4, <2>6, <2>7, <2>8, Zenon
  <2>10. \A i \in 1..(g + n) : got'[i] = i
    <3> SUFFICES ASSUME NEW i \in 1..(g + n)
                 PROVE  got'[i] = i
      OBVIOUS
    <3>1. CASE i <= g
      <4>1. i \in 1..g
        BY <3>1
      <4> QED  BY <2>6, <2>7, <2>8, <4>1, Zenon
    <3>2. CASE i > g
      <4>1. i \in (g + 1)..(g + n) /\ i - g \in 1..n /\ g + (i - g) = i
        BY <1>7, <3>2
      <4>2. got'[i] = new[i - g]
        BY <2>4, <2>6, <2>7, <2>8, <4>1, Zenon
      <4> QED  BY <2>4, <4>1, <4>2, Zenon
    <3>3. i <= g \/ i > g
      BY <1>7
    <3> QED  BY <3>1, <3>2, <3>3, Zenon
  <2>11. InRing(g, sent, pipe.nread, pipe.nwrite, pipe.data)
    BY <1>2, <1>4, Zenon DEF Stream
  <2>12. n <= sent - g
    BY <1>3, <1>4, <1>7
  <2>13. InRing(g + n, sent, (pipe.nread + n) % UINT, pipe.nwrite, pipe.data) /\ g + n <= sent
    BY <1>5, <1>7, <2>11, <2>12, RingRead, Zenon
  <2>14. PICK m \in 0..(UINT - 1) : m = (pipe.nread + n) % UINT
    <3>1. pipe.nread + n \in Int
      BY <1>7, Sizes DEF TypeOK, DataType, PipeType
    <3> QED  BY <3>1, Sizes, DivMod, Zenon
  <2>15. /\ pipe' \in PipeType /\ pipe'.nread = m /\ pipe'.nwrite = pipe.nwrite
         /\ pipe'.data = pipe.data
    <3>1. pipe' = [pipe EXCEPT !.nread = m]
      BY <1>10, <2>14, Zenon
    <3> QED  BY <3>1, Zenon DEF TypeOK, DataType, PipeType
  <2>16. DataType'
    BY <1>8, <1>10, <2>9, <2>15 DEF TypeOK, DataType
  <2>17. Stream'
    <3>1. Len(got') <= sent' /\ \A i \in 1..Len(got') : got'[i] = i
      BY <1>8, <2>9, <2>10, <2>13, Zenon
    <3>2. InRing(Len(got'), sent', pipe'.nread, pipe'.nwrite, pipe'.data)
      BY <1>8, <2>9, <2>13, <2>14, <2>15, Zenon
    <3>3. ip'["sh"] # 1
      BY <1>2, <1>8
    <3> QED  BY <3>1, <3>2, <3>3, Zenon DEF Stream
  <2>18. AtEnd'
    <3> SUFFICES ASSUME n = 0
                 PROVE  Len(got') = sent /\ file[3].ref = 0 /\ ip["sh"] > 1
      BY <1>8, <1>10, Zenon DEF AtEnd
    <3>1. Len(got') = sent
      BY <1>3, <1>4, <1>5, <1>7, <2>9
    <3>2. ~pipe.writeopen
      BY <1>7, <1>10 DEF MustWait
    <3>3. ~(file[3].ref > 0)
      BY <3>2, Zenon DEF Ends, EndOK
    <3>4. file[3].ref \in Nat
      BY DEF TypeOK, FileType, FileRec, File
    <3> QED  BY <1>2, <3>1, <3>3, <3>4
  <2> QED  BY <2>16, <2>17, <2>18
<1>11. \/ UNCHANGED <<pipe, got, eof>>
       \/ /\ ~MustWait /\ got' = got \o SubSeq(Buffered, 1, n)
          /\ pipe' = [pipe EXCEPT !.nread = (@ + n) % UINT] /\ eof' = (n = 0)
  BY <1>6, Zenon DEF PipeRead
<1> QED  BY <1>9, <1>10, <1>11, Zenon

\* Once all descriptors of the write end are closed, none is opened again.
LEMMA StaysClosed ==
    ASSUME TypeOK, Control, Kinds, Held, NEW p \in Procs, PipeStep(p) \/ Kill(p),
           file[3].ref = 0, ip["sh"] > 1
    PROVE  file'[3].ref = 0
<1>1. 3 \in File /\ 3 \in {2, 3}
  BY DEF File
<1>2. \A q \in Procs, d \in Fd : ofile[q][d] # 3
  BY <1>1 DEF Held
<1>3. ASSUME NEW d \in Fd, NEW l, FileClose(p, d, l)
      PROVE  file'[3].ref = 0
  <2>1. PICK f : f = ofile[p][d] /\ f # 3
    BY <1>2
  <2>2. PICK k, y : file' = [file EXCEPT ![f].ref = k, ![f].type = y]
    BY <1>3, <2>1, Zenon DEF FileClose
  <2>3. file'[3] = file[3]
    BY <1>1, <2>1, <2>2 DEF TypeOK, FileType
  <2> QED  BY <2>3
<1>4. CASE Close(p)
  <2>1. Calls(p, "close") /\ FileClose(p, Arg(p), "user")
    BY <1>4, Zenon DEF Close
  <2>2. Arg(p) \in Fd
    BY <2>1, CloseArg, Zenon
  <2> QED  BY <1>3, <2>1, <2>2, Zenon
<1>5. CASE ExitClose(p)
  <2>1. OpenFds(p) # {} /\ FileClose(p, First(OpenFds(p)), "exit")
    BY <1>5, Zenon DEF ExitClose
  <2>2. First(OpenFds(p)) \in Fd
    BY <2>1, ExitFd, Zenon
  <2> QED  BY <1>3, <2>1, <2>2, Zenon
<1>6. CASE Pipe(p)
  <2>1. p = "sh" /\ ip[p] = 1
    BY <1>6, PipeArgs, Zenon
  <2> QED  BY <2>1
<1>7. CASE Dup(p)
  <2>1. PICK g : g = argfd(p)
    OBVIOUS
  <2>2. Arg(p) \in Fd /\ ofile[p][Arg(p)] = g
    BY <1>7, <2>1, DupArg, Zenon
  <2>3. g # 3 /\ file' = [file EXCEPT ![g].ref = @ + 1]
    BY <1>2, <1>7, <2>1, <2>2 DEF Dup, filedup
  <2> QED  BY <1>1, <2>3 DEF TypeOK, FileType, FileRec
<1>8. CASE Fork(p)
  <2>1. Counted(p, 3) \in Nat /\ (Counted(p, 3) > 0 => file[3].ref > 0)
    BY <1>1, Zenon DEF Held
  <2>2. file'[3].ref = file[3].ref + Counted(p, 3)
    BY <1>1, <1>8 DEF Fork, TypeOK, FileType, FileRec
  <2> QED  BY <2>1, <2>2
<1>9. CASE file' = file
  BY <1>9
<1>10. Pipe(p) \/ Fork(p) \/ Dup(p) \/ Close(p) \/ ExitClose(p) \/ file' = file
  BY Zenon DEF PipeStep, CallFails, PipeClose, StartWrite, PipeWrite, PipeRead, Sleep1, Sleep2, Wait,
         StartExit, Exit, Kill
<1> QED  BY <1>4, <1>5, <1>6, <1>7, <1>8, <1>9, <1>10, Zenon

\* Every step keeps the stream.
LEMMA StreamNext ==
    ASSUME TypeOK, Control, Kinds, Held, Ends, Stream, AtEnd, NEW p \in Procs, PipeStep(p) \/ Kill(p)
    PROVE  DataType' /\ Stream' /\ AtEnd'
<1>1. ip["sh"] \in Nat /\ ip'["sh"] \in Nat /\ ip'["sh"] >= ip["sh"]
  BY GoesOn, Zenon
<1>2. ip["sh"] >= 1
  BY DEF TypeOK, ProcType, Procs
<1>3. CASE PipeWrite(p) \/ PipeRead(p)
  BY <1>3, StreamWrite, StreamRead, Zenon
<1>4. ASSUME UNCHANGED <<sent, got, eof>>
      PROVE  AtEnd'
  <2> SUFFICES ASSUME eof
               PROVE  Len(got) = sent /\ file'[3].ref = 0 /\ ip'["sh"] > 1
    BY <1>4 DEF AtEnd
  <2>1. Len(got) = sent /\ file[3].ref = 0 /\ ip["sh"] > 1
    BY Zenon DEF AtEnd
  <2>2. file'[3].ref = 0
    BY <2>1, StaysClosed, Zenon
  <2> QED  BY <1>1, <2>1, <2>2
<1>5. CASE Pipe(p)
  <2>1. UNCHANGED <<sent, got, eof>>
    BY <1>5 DEF Pipe
  <2> QED  BY <1>4, <1>5, <2>1, StreamPipe, Zenon
<1>6. CASE PipeClose(p)
  <2>1. UNCHANGED <<sent, got, eof, todo>>
    BY <1>6 DEF PipeClose
  <2>2. PICK r \in BOOLEAN, w \in BOOLEAN, a \in BOOLEAN :
          /\ pipe' = [[pipe EXCEPT !.readopen = r, !.writeopen = w] EXCEPT !.alloc = a]
          /\ a => pipe.alloc
    <3>1. pipe.readopen \in BOOLEAN /\ pipe.writeopen \in BOOLEAN
      BY DEF TypeOK, DataType, PipeType
    <3>2. PICK r \in BOOLEAN, w \in BOOLEAN :
            /\ r => pipe.readopen
            /\ w => pipe.writeopen
            /\ pipe' = [pipe EXCEPT !.readopen = r, !.writeopen = w, !.alloc = r \/ w]
      <4>1. CASE pc[p] = "closew"
        <5>1. pipe' = [pipe EXCEPT !.readopen = pipe.readopen, !.writeopen = FALSE,
                                   !.alloc = pipe.readopen \/ FALSE]
          BY <1>6, <4>1, Zenon DEF PipeClose, TypeOK, DataType, PipeType
        <5> QED  BY <3>1, <5>1, Zenon
      <4>2. CASE pc[p] # "closew"
        <5>1. pipe' = [pipe EXCEPT !.readopen = FALSE, !.writeopen = pipe.writeopen,
                                   !.alloc = FALSE \/ pipe.writeopen]
          BY <1>6, <4>2, Zenon DEF PipeClose, TypeOK, DataType, PipeType
        <5> QED  BY <3>1, <5>1, Zenon
      <4> QED  BY <4>1, <4>2, Zenon
    <3>3. r \/ w => pipe.alloc
      BY <3>2, Zenon DEF Ends
    <3> QED  BY <3>2, <3>3, Zenon
  <2>3. pipe' \in PipeType /\ pipe'.alloc = a /\ pipe'.nread = pipe.nread
        /\ pipe'.nwrite = pipe.nwrite /\ pipe'.data = pipe.data
    BY <2>2, Zenon DEF TypeOK, DataType, PipeType
  <2>4. todo' \in Nat
    BY <2>1 DEF TypeOK, DataType
  <2>5. DataType' /\ Stream'
    BY <1>1, <1>2, <2>1, <2>2, <2>3, <2>4, StreamSame, Zenon DEF TypeOK
  <2> QED  BY <1>4, <2>1, <2>5
<1>7. CASE pipe' = pipe /\ UNCHANGED <<sent, got, eof>> /\ todo' \in Nat
  <2>1. DataType' /\ Stream'
    BY <1>1, <1>2, <1>7, StreamSame DEF TypeOK, DataType
  <2> QED  BY <1>4, <1>7, <2>1
<1>8. CASE StartWrite(p)
  <2>1. /\ pipe' = pipe /\ UNCHANGED <<sent, got, eof>>
        /\ todo' = todo \/ (sent < NBYTES /\ todo' = NBYTES - sent) \/ todo' = WriteSize
    BY <1>8 DEF StartWrite
  <2>2. todo' \in Nat
    BY <2>1, PipeAssumption DEF TypeOK, DataType
  <2> QED  BY <1>7, <2>1, <2>2
<1>9. \/ PipeWrite(p) \/ PipeRead(p) \/ Pipe(p) \/ PipeClose(p) \/ StartWrite(p)
      \/ pipe' = pipe /\ UNCHANGED <<sent, got, eof, todo>>
  BY DEF PipeStep, Fork, CallFails, Dup, Close, Sleep1, Sleep2, Wait, StartExit, ExitClose, Exit,
         Kill
<1> QED  BY <1>3, <1>5, <1>6, <1>7, <1>8, <1>9 DEF TypeOK, DataType
=============================================================================
