------------------------------- MODULE Piping -------------------------------
(***************************************************************************)
(* The pipeline "left | right" that the shell runs: runcmd of sh.c with    *)
(* the calls pipe, fork, dup, close, wait and exit, the file table of      *)
(* file.c, the pipe of pipe.c, and sleep, wakeup and kill of proc.c        *)
(* underneath.  init is the parent of sh and waits for ever.  left writes, *)
(* right is cat.                                                           *)
(* A step is what happens between taking and leaving pipe->lock, except    *)
(* that sleep is split where it hands that lock over to ptable.lock.       *)
(***************************************************************************)
EXTENDS Integers, Sequences, FiniteSets

CONSTANTS PIPESIZE,
          UINT,        \* 2^32, the range of nread and nwrite
          NBYTES,      \* how much left writes,
          WriteSize,   \* in how large pieces,
          ReadSize,    \* and the buffer of cat
          LeftStays,   \* left does not exit when it has written
          Victims      \* the processes that kill may be called for

ASSUME PipeAssumption ==
    /\ PIPESIZE \in Nat \ {0} /\ UINT \in Nat /\ UINT > PIPESIZE /\ UINT % PIPESIZE = 0
    /\ WriteSize \in Nat \ {0} /\ ReadSize \in Nat \ {0} /\ NBYTES \in Nat

Procs == {"init", "sh", "left", "right"}
NoProc == "none"
Fd == 0..4
NoFile == 0
File == 1..3

VARIABLES file,      \* ftable: ref, type and writable of each file
          ofile,     \* the open files of each process
          pipe,      \* the struct pipe; alloc when it has a page
          plock,     \* pipe->lock
          ptlock,    \* ptable.lock
          state, chan, killed, parent,
          pc,        \* where each process is in the kernel
          ip,        \* the next call of each process
          ret,       \* where it goes on after pipeclose
          todo,      \* what is left of the current write
          sent,      \* how many bytes pipewrite has taken
          got,       \* the bytes that right has read
          eof        \* right has seen the end of the file

procVars == <<state, chan, killed, parent>>
pipeVars == <<file, ofile, pipe, plock, ptlock, procVars, pc, ip, ret, todo, sent, got, eof>>

Call(c, a) == [call |-> c, arg |-> a]

\* The right side of runcmd's PIPE, with p[0] = 3 and p[1] = 4, and cat(0) of cat.c.
Right ==
    <<Call("close", 0), Call("dup", 3), Call("close", 3), Call("close", 4), Call("read", 0)>>

Left ==
    <<Call("close", 1), Call("dup", 4), Call("close", 3), Call("close", 4), Call("write", 1)>>

\* The process that executes runcmd.
Runcmd ==
    <<Call("pipe", 0), Call("fork", "left"), Call("fork", "right"), Call("close", 3),
      Call("close", 4), Call("wait", 0), Call("wait", 0)>>

Script(p) ==
    CASE p = "init"  -> <<Call("wait", 0)>>
      [] p = "sh"    -> Runcmd
      [] p = "left"  -> Left
      [] p = "right" -> Right

\* init has started sh; both have the console as files 0, 1 and 2.
PipeInit ==
    /\ file = [f \in File |-> [ref |-> IF f = 1 THEN 6 ELSE 0,
                               type |-> IF f = 1 THEN "dev" ELSE "none", writable |-> f = 1]]
    /\ ofile = [p \in Procs |-> [d \in Fd |-> IF p \in {"init", "sh"} /\ d < 3 THEN 1 ELSE NoFile]]
    /\ pipe = [alloc |-> FALSE, data |-> [i \in 0..(PIPESIZE - 1) |-> 0], nread |-> 0,
               nwrite |-> 0, readopen |-> FALSE, writeopen |-> FALSE]
    /\ plock = NoProc /\ ptlock = NoProc
    /\ state = [p \in Procs |-> IF p \in {"init", "sh"} THEN "RUNNABLE" ELSE "UNUSED"]
    /\ chan = [p \in Procs |-> "none"]
    /\ killed = [p \in Procs |-> FALSE]
    /\ parent = [p \in Procs |-> IF p = "sh" THEN "init" ELSE NoProc]
    /\ pc = [p \in Procs |-> "user"]
    /\ ip = [p \in Procs |-> 1]
    /\ ret = [p \in Procs |-> "user"]
    /\ todo = 0 /\ sent = 0
    /\ got = <<>>
    /\ eof = FALSE

Running(p, l) == state[p] = "RUNNABLE" /\ pc[p] = l

\* The process makes call c; one that has been killed exits instead (trap).
Calls(p, c) ==
    /\ Running(p, "user") /\ ~killed[p]
    /\ ip[p] <= Len(Script(p)) /\ Script(p)[ip[p]].call = c
Arg(p) == Script(p)[ip[p]].arg
Return(p) == pc' = [pc EXCEPT ![p] = "user"] /\ ip' = [ip EXCEPT ![p] = @ + 1]

\* spinlock.c
acquire(l, p) == l = NoProc /\ l' = p
release(l) == l' = NoProc

\* filealloc and fdalloc take the first that is free.
First(S) == CHOOSE x \in S : \A y \in S : x <= y
FreeFiles == {f \in File : file[f].ref = 0}
fdalloc(p) == First({d \in Fd : ofile[p][d] = NoFile})

\* sys_pipe, with pipealloc.
Pipe(p) ==
    /\ Calls(p, "pipe")
    /\ LET rf == First(FreeFiles)
           wf == First(FreeFiles \ {rf})
           d0 == fdalloc(p)
           d1 == First({d \in Fd : ofile[p][d] = NoFile} \ {d0})
       IN  /\ file' = [file EXCEPT ![rf] = [ref |-> 1, type |-> "pipe", writable |-> FALSE],
                                   ![wf] = [ref |-> 1, type |-> "pipe", writable |-> TRUE]]
           /\ ofile' = [ofile EXCEPT ![p][d0] = rf, ![p][d1] = wf]
    /\ pipe' = [pipe EXCEPT !.alloc = TRUE, !.nread = 0, !.nwrite = 0, !.readopen = TRUE,
                            !.writeopen = TRUE]
    /\ Return(p)
    /\ UNCHANGED <<plock, ptlock, procVars, ret, todo, sent, got, eof>>

\* Variant: fork stops one descriptor short.
CountedShort(p, f) == Cardinality({d \in Fd : d < 4 /\ ofile[p][d] = f})

\* How often fork's loop over ofile calls filedup for f.
Counted(p, f) == Cardinality({d \in Fd : ofile[p][d] = f})

\* fork, as far as files and the process table go.
Fork(p) ==
    /\ Calls(p, "fork")
    /\ ptlock = NoProc
    /\ LET np == Arg(p)
       IN  /\ ofile' = [ofile EXCEPT ![np] = ofile[p]]
           /\ file' = [f \in File |-> [file[f] EXCEPT !.ref = @ + Counted(p, f)]]
           /\ parent' = [parent EXCEPT ![np] = p]
           /\ state' = [state EXCEPT ![np] = "RUNNABLE"]
    /\ Return(p)
    /\ UNCHANGED <<pipe, plock, ptlock, chan, killed, ret, todo, sent, got, eof>>

\* pipe or fork fails for want of memory or of a table entry; runcmd then exits.
CallFails(p) ==
    /\ Calls(p, "pipe") \/ Calls(p, "fork")
    /\ pc' = [pc EXCEPT ![p] = "exit"]
    /\ UNCHANGED <<file, ofile, pipe, plock, ptlock, procVars, ip, ret, todo, sent, got, eof>>

\* The file of the call's descriptor, and one more reference to it.
argfd(p) == ofile[p][Arg(p)]
filedup(f) == [file EXCEPT ![f].ref = @ + 1]

\* sys_dup
Dup(p) ==
    /\ Calls(p, "dup")
    /\ ofile' = [ofile EXCEPT ![p][fdalloc(p)] = argfd(p)]
    /\ file' = filedup(argfd(p))
    /\ Return(p)
    /\ UNCHANGED <<pipe, plock, ptlock, procVars, ret, todo, sent, got, eof>>

\* fileclose of descriptor d, up to pipeclose; l is where the process goes on.
FileClose(p, d, l) ==
    LET f == ofile[p][d]
        last == file[f].ref = 1
    IN  /\ ofile' = [ofile EXCEPT ![p][d] = NoFile]
        /\ file' = [file EXCEPT ![f].ref = @ - 1, ![f].type = IF last THEN "none" ELSE @]
        /\ pc' = [pc EXCEPT ![p] = IF ~last \/ file[f].type # "pipe" THEN l
                                   ELSE IF file[f].writable THEN "closew" ELSE "closer"]
        /\ ret' = [ret EXCEPT ![p] = l]

\* sys_close
Close(p) ==
    /\ Calls(p, "close")
    /\ FileClose(p, Arg(p), "user")
    /\ ip' = [ip EXCEPT ![p] = @ + 1]
    /\ UNCHANGED <<pipe, plock, ptlock, procVars, todo, sent, got, eof>>

\* wakeup1, and wakeup where ptable.lock is free.
Woken(c) == [p \in Procs |-> IF state[p] = "SLEEPING" /\ chan[p] = c THEN "RUNNABLE" ELSE state[p]]
wakeup(c) == ptlock = NoProc /\ state' = Woken(c)

PipeClose(p) ==
    /\ Running(p, "closew") \/ Running(p, "closer")
    /\ plock = NoProc
    /\ LET writable == pc[p] = "closew"
           q == IF writable THEN [pipe EXCEPT !.writeopen = FALSE]
                            ELSE [pipe EXCEPT !.readopen = FALSE]
       IN  /\ pipe' = [q EXCEPT !.alloc = q.readopen \/ q.writeopen]
           /\ wakeup(IF writable THEN "nread" ELSE "nwrite")
    /\ pc' = [pc EXCEPT ![p] = ret[p]]
    /\ UNCHANGED <<file, ofile, plock, ptlock, chan, killed, parent, ip, ret, todo, sent, got, eof>>

\* The bytes between nread and nwrite, in the order of writing.
Count == (pipe.nwrite - pipe.nread) % UINT
Buffered == [i \in 1..Count |-> pipe.data[(pipe.nread + i - 1) % PIPESIZE]]

\* sys_write of left begins; it stops when all is written.
StartWrite(p) ==
    /\ Calls(p, "write")
    /\ IF sent < NBYTES
       THEN /\ todo' = IF NBYTES - sent < WriteSize THEN NBYTES - sent ELSE WriteSize
            /\ pc' = [pc EXCEPT ![p] = "write"]
            /\ UNCHANGED ip
       ELSE Return(p) /\ UNCHANGED todo
    /\ UNCHANGED <<file, ofile, pipe, plock, ptlock, procVars, ret, sent, got, eof>>

\* Variant: the index of the buffer is taken from the number of bytes in it.
SlotFromCount(i) == (Count + i) % PIPESIZE

\* p->nwrite++ % PIPESIZE
Slot(i) == (pipe.nwrite + i) % PIPESIZE

Sleep(p, c) ==
    /\ acquire(plock, p)
    /\ pc' = [pc EXCEPT ![p] = IF c = "nread" THEN "sleepr" ELSE "sleepw"]

\* pipewrite from acquire to sleep or to release: what fits is copied, byte i has value i.
\* The call that fails ends the program.
PipeWrite(p) ==
    LET room == PIPESIZE - Count
        n == IF todo < room THEN todo ELSE room
    IN  /\ Running(p, "write")
        /\ pipe' = [pipe EXCEPT !.nwrite = (@ + n) % UINT,
                                !.data = [k \in DOMAIN @ |->
                                    IF \E i \in 0..(n - 1) : Slot(i) = k
                                    THEN sent + 1 + CHOOSE i \in 0..(n - 1) : Slot(i) = k
                                    ELSE @[k]]]
        /\ sent' = sent + n
        /\ todo' = todo - n
        /\ \/ n = todo
              /\ pc' = [pc EXCEPT ![p] = "user"]
              /\ plock = NoProc /\ wakeup("nread") /\ UNCHANGED plock
           \/ n < todo /\ (~pipe.readopen \/ killed[p])
              /\ pc' = [pc EXCEPT ![p] = "exit"]
              /\ plock = NoProc /\ UNCHANGED <<plock, state>>
           \/ n < todo /\ pipe.readopen /\ ~killed[p]
              /\ wakeup("nread") /\ Sleep(p, "nwrite")
        /\ UNCHANGED <<file, ofile, ptlock, chan, killed, parent, ip, ret, got, eof>>

\* Variant: an empty pipe ends the call.
NoWait == FALSE

\* piperead: the condition of the loop that sleeps.
MustWait == Count = 0 /\ pipe.writeopen

\* sys_read of right, and piperead from acquire to sleep or to release.
PipeRead(p) ==
    LET n == IF Count < ReadSize THEN Count ELSE ReadSize
    IN  /\ Calls(p, "read") \/ Running(p, "read")
        /\ \/ MustWait /\ killed[p]
              /\ pc' = [pc EXCEPT ![p] = "exit"]
              /\ plock = NoProc /\ UNCHANGED <<pipe, plock, state, got, eof>>
           \/ MustWait /\ ~killed[p]
              /\ Sleep(p, "nread") /\ UNCHANGED <<pipe, state, got, eof>>
           \/ /\ ~MustWait
              /\ got' = got \o SubSeq(Buffered, 1, n)
              /\ pipe' = [pipe EXCEPT !.nread = (@ + n) % UINT]
              /\ plock = NoProc /\ wakeup("nwrite")
              /\ eof' = (n = 0)
              /\ pc' = [pc EXCEPT ![p] = IF n = 0 THEN "exit" ELSE "user"]
              /\ UNCHANGED plock
        /\ UNCHANGED <<file, ofile, ptlock, chan, killed, parent, ip, ret, todo, sent>>

\* Variant: sleep releases lk before it acquires ptable.lock.
Sleep1Early(p) ==
    /\ Running(p, "sleepr") \/ Running(p, "sleepw")
    /\ plock = p /\ release(plock)
    /\ pc' = [pc EXCEPT ![p] = IF @ = "sleepr" THEN "sleepr2" ELSE "sleepw2"]
    /\ UNCHANGED <<file, ofile, pipe, ptlock, procVars, ip, ret, todo, sent, got, eof>>

\* sleep: acquire(&ptable.lock), then release(lk).
Sleep1(p) ==
    /\ Running(p, "sleepr") \/ Running(p, "sleepw")
    /\ acquire(ptlock, p)
    /\ release(plock)
    /\ pc' = [pc EXCEPT ![p] = IF @ = "sleepr" THEN "sleepr2" ELSE "sleepw2"]
    /\ UNCHANGED <<file, ofile, pipe, procVars, ip, ret, todo, sent, got, eof>>

\* sleep: the state changes, and the scheduler releases ptable.lock; the process goes on
\* with the test of its loop.
Sleep2(p) ==
    /\ Running(p, "sleepr2") \/ Running(p, "sleepw2")
    /\ chan' = [chan EXCEPT ![p] = IF pc[p] = "sleepr2" THEN "nread" ELSE "nwrite"]
    /\ state' = [state EXCEPT ![p] = "SLEEPING"]
    /\ release(ptlock)
    /\ pc' = [pc EXCEPT ![p] = IF @ = "sleepr2" THEN "read" ELSE "write"]
    /\ UNCHANGED <<file, ofile, pipe, plock, killed, parent, ip, ret, todo, sent, got, eof>>

\* wait, under ptable.lock: reap a zombie, return -1, or sleep.  init goes on for ever.
Wait(p) ==
    /\ Calls(p, "wait")
    /\ ptlock = NoProc
    /\ LET kids == {k \in Procs : parent[k] = p}
           zombies == {k \in kids : state[k] = "ZOMBIE"}
           done == ip' = [ip EXCEPT ![p] = IF p = "init" THEN @ ELSE @ + 1]
       IN  \/ \E k \in zombies :
                /\ state' = [state EXCEPT ![k] = "UNUSED"]
                /\ killed' = [killed EXCEPT ![k] = FALSE]
                /\ parent' = [parent EXCEPT ![k] = NoProc]
                /\ done /\ UNCHANGED chan
           \/ kids = {} /\ p # "init" /\ done /\ UNCHANGED procVars
           \/ /\ zombies = {} /\ kids # {}
              /\ chan' = [chan EXCEPT ![p] = p]
              /\ state' = [state EXCEPT ![p] = "SLEEPING"]
              /\ UNCHANGED <<killed, parent, ip>>
    /\ UNCHANGED <<file, ofile, pipe, plock, ptlock, pc, ret, todo, sent, got, eof>>

\* A process exits at the end of its program, or in trap once it has been killed.
StartExit(p) ==
    /\ Running(p, "user")
    /\ killed[p] \/ (ip[p] > Len(Script(p)) /\ ~(p = "left" /\ LeftStays))
    /\ pc' = [pc EXCEPT ![p] = "exit"]
    /\ UNCHANGED <<file, ofile, pipe, plock, ptlock, procVars, ip, ret, todo, sent, got, eof>>

OpenFds(p) == {d \in Fd : ofile[p][d] # NoFile}

\* exit, the loop that closes all open files.
ExitClose(p) ==
    /\ Running(p, "exit")
    /\ OpenFds(p) # {}
    /\ FileClose(p, First(OpenFds(p)), "exit")
    /\ UNCHANGED <<pipe, plock, ptlock, procVars, ip, todo, sent, got, eof>>

\* The processes that exit wakes: the parent, and init when it gets a zombie.
WokenByExit(p, orphans) ==
    [q \in Procs |->
        IF state[q] = "SLEEPING" /\ chan[q] = q
           /\ (q = parent[p] \/ (q = "init" /\ \E k \in orphans : state[k] = "ZOMBIE"))
        THEN "RUNNABLE" ELSE state[q]]

\* exit, under ptable.lock.
Exit(p) ==
    /\ Running(p, "exit")
    /\ OpenFds(p) = {}
    /\ ptlock = NoProc
    /\ LET orphans == {k \in Procs : parent[k] = p}
       IN  /\ parent' = [k \in Procs |-> IF k \in orphans THEN "init" ELSE parent[k]]
           /\ state' = [WokenByExit(p, orphans) EXCEPT ![p] = "ZOMBIE"]
    /\ pc' = [pc EXCEPT ![p] = "dead"]
    /\ UNCHANGED <<file, ofile, pipe, plock, ptlock, chan, killed, ip, ret, todo, sent, got, eof>>

\* Any other process calls kill.
Kill(p) ==
    /\ p \in Victims
    /\ state[p] # "UNUSED" /\ ~killed[p]
    /\ ptlock = NoProc
    /\ killed' = [killed EXCEPT ![p] = TRUE]
    /\ state' = [state EXCEPT ![p] = IF @ = "SLEEPING" THEN "RUNNABLE" ELSE @]
    /\ UNCHANGED <<file, ofile, pipe, plock, ptlock, chan, parent, pc, ip, ret, todo, sent, got,
                   eof>>

PipeStep(p) ==
    \/ Pipe(p) \/ Fork(p) \/ CallFails(p) \/ Dup(p) \/ Close(p) \/ PipeClose(p)
    \/ StartWrite(p) \/ PipeWrite(p) \/ PipeRead(p) \/ Sleep1(p) \/ Sleep2(p)
    \/ Wait(p) \/ StartExit(p) \/ ExitClose(p) \/ Exit(p)

PipeNext == \E p \in Procs : PipeStep(p) \/ Kill(p)

PipeSpec == PipeInit /\ [][PipeNext]_pipeVars

-----------------------------------------------------------------------------
Iota(n) == [i \in 1..n |-> i]

\* Nothing is lost, repeated or reordered in the pipe, also when nread and nwrite wrap
\* round: the bytes read so far, and then those in the buffer while it is there, are the
\* bytes pipewrite has taken, in their order.
StreamOrder ==
    /\ Len(got) <= sent /\ got = Iota(Len(got))
    /\ pipe.alloc => got \o Buffered = Iota(sent)

\* piperead reports the end of the file only when no process has the write end open any
\* more, and everything that was written has been read.
EofMeansEnd ==
    eof => /\ got = Iota(sent)
           /\ \A p \in Procs, d \in Fd :
                LET f == ofile[p][d] IN f = NoFile \/ file[f].type # "pipe" \/ ~file[f].writable

\* ftable and the pipe agree with the descriptors, whatever fork, dup, close and exit do
\* at the same time: ref counts the descriptors of a file, an end of the pipe is open while
\* a file stands for it or its pipeclose is still to come, and the page of the pipe is
\* freed with the second end.
RefsExact ==
    LET ends(w) == {f \in File : file[f].ref > 0 /\ file[f].type = "pipe" /\ file[f].writable = w}
    IN  /\ \A f \in File :
             file[f].ref = Cardinality({x \in Procs \X Fd : ofile[x[1]][x[2]] = f})
        /\ pipe.writeopen <=> (ends(TRUE) # {} \/ \E p \in Procs : pc[p] = "closew")
        /\ pipe.readopen <=> (ends(FALSE) # {} \/ \E p \in Procs : pc[p] = "closer")
        /\ pipe.alloc <=> (pipe.readopen \/ pipe.writeopen)
=============================================================================
