-------------------------------- MODULE Log --------------------------------
(***************************************************************************)
(* The write-ahead log of log.c: operations of several processes that are  *)
(* committed together, with a crash between any two disk writes and the    *)
(* recovery at the next boot.  bwrite is synchronous, so a disk write is   *)
(* one step; a block is its contents, a member of Vals.                    *)
(***************************************************************************)
EXTENDS Integers, Sequences, FiniteSets, Functions

CONSTANTS Procs, Blocks, Vals, Zero,
          MAXOPBLOCKS,       \* param.h:10
          NLOG,              \* sb.nlog of mkfs.c, the header block included
          OPBLOCKS,          \* how many different blocks an operation logs
          MaxOps, MaxCrash   \* bounds of the behaviours

\* param.h:11
LOGSIZE == MAXOPBLOCKS * 3

ASSUME LogAssumption ==
    /\ IsFiniteSet(Procs)
    /\ Zero \in Vals
    /\ MAXOPBLOCKS \in Nat \ {0} /\ NLOG \in Nat \ {0} /\ OPBLOCKS \in Nat
    /\ NLOG <= LOGSIZE + 1
    /\ MaxOps \in Nat /\ MaxCrash \in Nat

VARIABLES disk,         \* the home locations
          logdata,      \* the blocks of the log
          head,         \* the header block on disk
          lh,           \* log.lh
          cache,        \* the blocks as bread returns them
          outstanding,  \* log.outstanding
          committing,   \* log.committing
          phase,        \* where commit or recover_from_log is
          tail,         \* its loop counter, from 1
          pc,           \* where each process is
          wrote,        \* the blocks logged by the operation of each process
          ops, crashes, panic

diskVars == <<disk, logdata, head>>
logVars == <<lh, outstanding, committing>>
vars == <<disk, logdata, head, lh, cache, outstanding, committing, phase, tail, pc, wrote,
          ops, crashes, panic>>

LogBlocks == 1..LOGSIZE

\* The disk as mkfs.c leaves it.
Init ==
    /\ disk = [b \in Blocks |-> Zero]
    /\ logdata = [i \in LogBlocks |-> Zero]
    /\ head = <<>>
    /\ lh = <<>>
    /\ cache = disk
    /\ outstanding = 0
    /\ committing = FALSE
    /\ phase = "boot"
    /\ tail = 1
    /\ pc = [p \in Procs |-> "idle"]
    /\ wrote = [p \in Procs |-> {}]
    /\ ops = 0
    /\ crashes = 0
    /\ panic = FALSE

\* Variant: the space of the operation that begins is not counted.
Full_outstanding == Len(lh) + outstanding * MAXOPBLOCKS > LOGSIZE

Full == Len(lh) + (outstanding + 1) * MAXOPBLOCKS > LOGSIZE

\* forkret of the first process, and so initlog, has returned.
Up == phase # "boot" /\ (phase = "install" => committing)

MustWait == committing \/ Full

BeginOp(p) ==
    /\ Up
    /\ \/ pc[p] = "begin" /\ UNCHANGED ops
       \/ pc[p] = "idle" /\ ops < MaxOps /\ ops' = ops + 1
    /\ IF MustWait
       THEN pc' = [pc EXCEPT ![p] = "asleep"] /\ UNCHANGED outstanding
       ELSE pc' = [pc EXCEPT ![p] = "op"] /\ outstanding' = outstanding + 1
    /\ UNCHANGED <<diskVars, lh, cache, committing, phase, tail, wrote, crashes, panic>>

\* bread, a change of the data, log_write and brelse.
LogWrite(p, b, v) ==
    /\ pc[p] = "op"
    /\ b \in wrote[p] \/ Cardinality(wrote[p]) < OPBLOCKS
    /\ wrote' = [wrote EXCEPT ![p] = @ \cup {b}]
    /\ cache' = [cache EXCEPT ![b] = v]
    /\ IF Len(lh) >= LOGSIZE \/ Len(lh) >= NLOG - 1
       THEN panic' = TRUE /\ UNCHANGED lh
       ELSE /\ lh' = IF b \in Range(lh) THEN lh ELSE Append(lh, b)
            /\ UNCHANGED panic
    /\ UNCHANGED <<diskVars, outstanding, committing, phase, tail, pc, ops, crashes>>

\* Variant: no sleeper is woken.
WokenNone(f) == f

\* wakeup(&log)
Woken(f) == [p \in Procs |-> IF f[p] = "asleep" THEN "begin" ELSE f[p]]

\* Variant: commit takes a transaction of one block for an empty one.
NothingLogged_one == Len(lh) <= 1

NothingLogged == Len(lh) = 0

\* end_op, up to the call of commit; an empty transaction is not written.
EndOp(p) ==
    /\ pc[p] = "op"
    /\ outstanding' = outstanding - 1
    /\ wrote' = [wrote EXCEPT ![p] = {}]
    /\ panic' = committing
    /\ IF outstanding = 1
       THEN /\ committing' = TRUE
            /\ pc' = [pc EXCEPT ![p] = "commit"]
            /\ phase' = IF NothingLogged THEN "done" ELSE "write_log"
            /\ tail' = 1
       ELSE /\ pc' = Woken([pc EXCEPT ![p] = "idle"])
            /\ UNCHANGED <<committing, phase, tail>>
    /\ UNCHANGED <<diskVars, lh, cache, ops, crashes>>

\* An iteration of write_log.
WriteLog ==
    /\ phase = "write_log"
    /\ tail <= Len(lh)
    /\ logdata' = [logdata EXCEPT ![tail] = cache[lh[tail]]]
    /\ tail' = tail + 1
    /\ UNCHANGED <<disk, head, logVars, cache, phase, pc, wrote, ops, crashes, panic>>

\* Variant: the header is written before the last block of the log.
WriteHeadEarly ==
    /\ phase = "write_log"
    /\ tail >= Len(lh)
    /\ head' = lh
    /\ phase' = "install"
    /\ tail' = 1
    /\ UNCHANGED <<disk, logdata, logVars, cache, pc, wrote, ops, crashes, panic>>

\* The first write_head of commit, the real commit.
WriteHead ==
    /\ phase = "write_log"
    /\ tail > Len(lh)
    /\ head' = lh
    /\ phase' = "install"
    /\ tail' = 1
    /\ UNCHANGED <<disk, logdata, logVars, cache, pc, wrote, ops, crashes, panic>>

\* An iteration of install_trans, of a commit or of the recovery.
Install ==
    /\ phase = "install"
    /\ tail <= Len(lh)
    /\ disk' = [disk EXCEPT ![lh[tail]] = logdata[tail]]
    /\ cache' = [cache EXCEPT ![lh[tail]] = logdata[tail]]
    /\ tail' = tail + 1
    /\ UNCHANGED <<logdata, head, logVars, phase, pc, wrote, ops, crashes, panic>>

\* log.lh.n = 0 and the second write_head.
ClearHead ==
    /\ phase = "install"
    /\ tail > Len(lh)
    /\ lh' = <<>>
    /\ head' = <<>>
    /\ phase' = IF committing THEN "done" ELSE "run"
    /\ UNCHANGED <<disk, logdata, outstanding, committing, cache, tail, pc, wrote, ops, crashes,
                   panic>>

\* end_op, after commit has returned.
EndCommit(p) ==
    /\ pc[p] = "commit"
    /\ phase = "done"
    /\ committing' = FALSE
    /\ phase' = "run"
    /\ pc' = Woken([pc EXCEPT ![p] = "idle"])
    /\ UNCHANGED <<diskVars, lh, outstanding, cache, tail, wrote, ops, crashes, panic>>

\* The machine stops at any point and boots again: what is in memory is lost.
Crash ==
    /\ crashes < MaxCrash
    /\ crashes' = crashes + 1
    /\ lh' = <<>>
    /\ cache' = disk
    /\ outstanding' = 0
    /\ committing' = FALSE
    /\ phase' = "boot"
    /\ tail' = 1
    /\ pc' = [p \in Procs |-> "idle"]
    /\ wrote' = [p \in Procs |-> {}]
    /\ panic' = FALSE
    /\ UNCHANGED <<diskVars, ops>>

\* initlog and the read_head of recover_from_log.
ReadHead ==
    /\ phase = "boot"
    /\ lh' = head
    /\ phase' = "install"
    /\ tail' = 1
    /\ UNCHANGED <<diskVars, cache, outstanding, committing, pc, wrote, ops, crashes, panic>>

Commit == WriteLog \/ WriteHead \/ Install \/ ClearHead \/ ReadHead

Step(p) ==
    \/ pc[p] # "idle" /\ BeginOp(p)
    \/ EndOp(p)
    \/ EndCommit(p)

\* Every operation has returned and no more may begin.
Done ==
    /\ Up /\ ops = MaxOps
    /\ \A p \in Procs : pc[p] = "idle"
    /\ UNCHANGED vars

\* After a panic only a new boot helps.
Next ==
    \/ /\ ~panic
       /\ \/ \E p \in Procs : BeginOp(p) \/ EndOp(p) \/ EndCommit(p)
          \/ \E p \in Procs, b \in Blocks, v \in Vals : LogWrite(p, b, v)
          \/ Commit
          \/ Done
    \/ Crash

Spec == Init /\ [][Next]_vars

\* A process runs on and ends its operation; the disk answers.
FairSpec ==
    /\ Spec
    /\ WF_vars(~panic /\ Commit)
    /\ \A p \in Procs : WF_vars(~panic /\ Step(p))
-----------------------------------------------------------------------------
TypeOK ==
    /\ disk \in [Blocks -> Vals] /\ cache \in [Blocks -> Vals]
    /\ logdata \in [LogBlocks -> Vals]
    /\ head \in Seq(Blocks) /\ Len(head) <= LOGSIZE
    /\ lh \in Seq(Blocks) /\ Len(lh) <= LOGSIZE
    /\ outstanding \in Nat
    /\ committing \in BOOLEAN /\ panic \in BOOLEAN
    /\ phase \in {"boot", "run", "write_log", "install", "done"}
    /\ tail \in 1..(LOGSIZE + 1)
    /\ pc \in [Procs -> {"idle", "begin", "asleep", "op", "commit"}]
    /\ wrote \in [Procs -> SUBSET Blocks]
    /\ ops \in Nat /\ crashes \in Nat

\* What recover_from_log makes of the disk as it is now.
Recovered ==
    [b \in Blocks |-> IF b \in Range(head)
                      THEN logdata[CHOOSE i \in DOMAIN head : head[i] = b]
                      ELSE disk[b]]

Recovering == ~Up

Abs == INSTANCE AtomicDisk
       WITH mem <- IF Recovering THEN Recovered ELSE cache,
            durable <- Recovered,
            active <- {p \in Procs : pc[p] = "op"}

\* Whatever the moment of a crash, also a second one during the recovery, the next boot
\* finds the blocks as they were at a moment when no operation was active: all writes of an
\* operation or none of them (begin_op, log_write, end_op, commit, recover_from_log).
ImplementsAtomicDisk == Abs!Spec

\* An operation that finds the log close to full waits in begin_op, so that log_write never
\* runs out of log blocks, and no operation ends during a commit: no panic of log.c.
LogFits == ~panic

\* When the last outstanding operation has returned from end_op everything is on the disk:
\* a crash loses nothing.
CommittedOnReturn ==
    Up /\ ~committing /\ outstanding = 0 /\ ~panic => Recovered = cache

\* The inductive invariant.
Active == {p \in Procs : pc[p] = "op"}
Injective(s) == \A i, j \in DOMAIN s : s[i] = s[j] => i = j
OnlyLoggedDiffer == \A b \in Blocks \ Range(lh) : cache[b] = disk[b]
LogInv ==
    /\ TypeOK
    /\ outstanding = Cardinality(Active)
    /\ Injective(lh) /\ Injective(head)
    /\ Active # {} => phase = "run"
    /\ panic => phase = "run" /\ Active # {}
    /\ phase \in {"boot", "run"} => ~committing
    /\ phase \in {"write_log", "done"} => committing
    /\ phase = "boot" => cache = disk
    /\ phase = "run" => head = <<>> /\ (Active = {} => lh = <<>>)
                       /\ (~panic => OnlyLoggedDiffer)
    /\ phase = "write_log" => head = <<>> /\ OnlyLoggedDiffer
                             /\ \A i \in 1..(tail - 1) : logdata[i] = cache[lh[i]]
    /\ phase = "install" => /\ head = lh
                            /\ \A i \in 1..(tail - 1) : disk[lh[i]] = logdata[i]
                            /\ IF committing
                               THEN OnlyLoggedDiffer
                                    /\ \A i \in DOMAIN lh : cache[lh[i]] = logdata[i]
                               ELSE cache = disk
    /\ phase = "done" => head = <<>> /\ lh = <<>> /\ cache = disk

\* The log blocks that begin_op has reserved and the operation has not used yet.
Unused ==
    {r \in Active \X (1..MAXOPBLOCKS) : r[2] > Cardinality(wrote[r[1]])}

\* What begin_op has reserved is enough: the blocks in the log and those that the outstanding
\* operations may still log, up to MAXOPBLOCKS each, fit into the log.
ReservationHolds == Len(lh) + Cardinality(Unused) <= LOGSIZE

\* An operation that waits in begin_op, or that commits for the others in end_op, returns.
OperationsReturn == \A p \in Procs : pc[p] # "idle" ~> pc[p] = "idle"
=============================================================================
