---------------------------- MODULE BufferCache ----------------------------
(***************************************************************************)
(* The buffer cache of bio.c with the sleep lock of each buffer            *)
(* (sleeplock.c) and the disk driver: the request queue and the interrupt  *)
(* handler of ide.c, or the memory disk of memide.c.  A process reads a    *)
(* block, reads and writes it, overwrites it without reading it (writeswap *)
(* of fs.c), or changes it and leaves it pinned for the log (log_write).   *)
(* There is one device; a block is its contents, a member of Vals.         *)
(***************************************************************************)
EXTENDS Integers, Sequences, Functions, FiniteSets

CONSTANTS Procs, Blocks, Vals, Zero, NoBlock, NoProc, NBUF,
          MaxOps   \* bound of the behaviours

ASSUME CacheAssumption ==
    /\ NBUF \in Nat \ {0} /\ IsFiniteSet(Procs)
    /\ NoProc \notin Procs /\ NoBlock \notin Blocks /\ Zero \in Vals

Buf == 1..NBUF

VARIABLES buf,     \* blockno, flags, data and refcnt of each buffer
          mru,     \* the list of all buffers, most recently used first
          lock,    \* the owner of each buffer's sleep lock
          queue,   \* idequeue; the first request is the one the disk works on
          sent,    \* the data that outsl gave to the disk for it
          disk, driver, pc,
          op,      \* kind, buffer and what follows iderw, for each process
          ops, panic

vars == <<buf, mru, lock, queue, sent, disk, driver, pc, op, ops, panic>>

Kinds == {"read", "write", "overwrite", "pin"}
NoOp == [kind |-> "read", b |-> 0, next |-> "have"]

\* binit
Init ==
    /\ buf = [b \in Buf |-> [blockno |-> NoBlock, valid |-> FALSE, dirty |-> FALSE,
                             data |-> Zero, refcnt |-> 0]]
    /\ mru = [i \in Buf |-> NBUF + 1 - i]
    /\ lock = [b \in Buf |-> NoProc]
    /\ queue = <<>>
    /\ sent = Zero
    /\ disk = [k \in Blocks |-> Zero]
    /\ driver \in {"ide", "memide"}
    /\ pc = [p \in Procs |-> "idle"]
    /\ op = [p \in Procs |-> NoOp]
    /\ ops = 0
    /\ panic = FALSE

Goto(p, l) == pc' = [pc EXCEPT ![p] = l]

\* Variant: a buffer that the log has pinned is recycled.
RecyclablePinned(b) == buf[b].refcnt = 0

\* Variant: only buffers without any flag are recycled.
RecyclableNoFlags(b) == buf[b].refcnt = 0 /\ ~buf[b].dirty /\ ~buf[b].valid

Recyclable(b) == buf[b].refcnt = 0 /\ ~buf[b].dirty

Cached(k) == {b \in Buf : buf[b].blockno = k}

\* The blocks that are being used, or pinned by the log.
InUse == {buf[op[p].b].blockno : p \in {q \in Procs : pc[q] # "idle"}}
             \cup {buf[b].blockno : b \in {c \in Buf : buf[c].dirty}}

\* Variant: a hit is not counted.
HitUncounted(b) == buf

Hit(b) == [buf EXCEPT ![b].refcnt = @ + 1]

\* bget, up to the release of bcache.lock.  The callers use at most NBUF blocks at a time.
Bget(p, kind, k) ==
    /\ pc[p] = "idle" /\ ops < MaxOps /\ ops' = ops + 1
    /\ Cardinality(InUse \cup {k}) <= NBUF
    /\ \/ \E b \in Cached(k) :
            /\ buf' = Hit(b)
            /\ op' = [op EXCEPT ![p] = [kind |-> kind, b |-> b, next |-> "have"]]
            /\ Goto(p, "lock") /\ UNCHANGED panic
       \/ /\ Cached(k) = {} /\ \E b \in Buf : Recyclable(b)
          /\ LET b == mru[CHOOSE i \in Buf : /\ Recyclable(mru[i])
                                             /\ \A j \in Buf : Recyclable(mru[j]) => j <= i]
             IN  /\ buf' = [buf EXCEPT ![b].blockno = k, ![b].valid = FALSE, ![b].dirty = FALSE,
                                       ![b].refcnt = 1]
                 /\ op' = [op EXCEPT ![p] = [kind |-> kind, b |-> b, next |-> "have"]]
          /\ Goto(p, "lock") /\ UNCHANGED panic
       \/ /\ Cached(k) = {} /\ ~\E b \in Buf : Recyclable(b)
          /\ panic' = TRUE /\ UNCHANGED <<buf, op, pc>>
    /\ UNCHANGED <<mru, lock, queue, sent, disk, driver>>

\* acquiresleep, an iteration of its loop; bread then tests the flags, writeswap, which
\* calls bget alone, does not.
AcquireSleep(p) ==
    LET b == op[p].b
    IN  /\ pc[p] = "lock"
        /\ IF lock[b] # NoProc
           THEN Goto(p, "locksleep") /\ UNCHANGED lock
           ELSE /\ lock' = [lock EXCEPT ![b] = p]
                /\ Goto(p, IF op[p].kind = "overwrite" \/ buf[b].valid THEN "have" ELSE "iderw")
        /\ UNCHANGED <<buf, mru, queue, sent, disk, driver, op, ops, panic>>

\* The caller of bread changes the data, then bwrite or log_write; a reader does nothing.
Use(p) ==
    /\ pc[p] = "have"
    /\ IF op[p].kind = "read"
       THEN Goto(p, "release") /\ UNCHANGED <<buf, op>>
       ELSE /\ \E v \in Vals \ {buf[op[p].b].data} : buf' = [buf EXCEPT ![op[p].b].data = v, ![op[p].b].dirty = TRUE]
            /\ Goto(p, IF op[p].kind = "pin" THEN "release" ELSE "iderw")
            /\ op' = [op EXCEPT ![p].next = "release"]
    /\ UNCHANGED <<mru, lock, queue, sent, disk, driver, ops, panic>>

\* iderw of ide.c, up to sleep: append the request, start the disk if it is the first.
Iderw(p) ==
    LET b == op[p].b
    IN  /\ pc[p] = "iderw" /\ driver = "ide"
        /\ IF lock[b] # p \/ (buf[b].valid /\ ~buf[b].dirty)
           THEN panic' = TRUE /\ UNCHANGED <<queue, sent, pc>>
           ELSE /\ queue' = Append(queue, b)
                /\ sent' = IF queue = <<>> THEN buf[b].data ELSE sent
                /\ Goto(p, "rwsleep") /\ UNCHANGED panic
        /\ UNCHANGED <<buf, mru, lock, disk, driver, op, ops>>

\* iderw of memide.c
MemIderw(p) ==
    LET b == op[p].b
    IN  /\ pc[p] = "iderw" /\ driver = "memide"
        /\ IF lock[b] # p \/ (buf[b].valid /\ ~buf[b].dirty)
           THEN panic' = TRUE /\ UNCHANGED <<buf, disk, pc>>
           ELSE /\ disk' = IF buf[b].dirty THEN [disk EXCEPT ![buf[b].blockno] = buf[b].data]
                                           ELSE disk
                /\ buf' = [buf EXCEPT ![b].data = disk'[buf[b].blockno], ![b].valid = TRUE,
                                      ![b].dirty = FALSE]
                /\ Goto(p, op[p].next) /\ UNCHANGED panic
        /\ UNCHANGED <<mru, lock, queue, sent, driver, op, ops>>

\* idestart of the first request: outsl copies the data to the disk.
Started(q) == IF q = <<>> THEN sent ELSE buf[Head(q)].data

\* Variant: the handler wakes nobody.
WokenNone(l, m, b) == pc

\* wakeup of the processes that sleep at l for buffer b.
Woken(l, m, b) == [p \in Procs |-> IF pc[p] = l /\ op[p].b = b THEN m ELSE pc[p]]

\* The disk has finished the first request: ideintr.
Ideintr ==
    /\ queue # <<>>
    /\ LET b == Head(queue)
       IN  /\ disk' = IF buf[b].dirty THEN [disk EXCEPT ![buf[b].blockno] = sent] ELSE disk
           /\ buf' = [buf EXCEPT ![b].data = IF buf[b].dirty THEN @ ELSE disk[buf[b].blockno],
                                 ![b].valid = TRUE, ![b].dirty = FALSE]
           /\ pc' = Woken("rwsleep", "rwtest", b)
    /\ queue' = Tail(queue)
    /\ sent' = Started(queue')
    /\ UNCHANGED <<mru, lock, driver, op, ops, panic>>

\* iderw after a wakeup.
RwTest(p) ==
    /\ pc[p] = "rwtest"
    /\ Goto(p, IF buf[op[p].b].valid /\ ~buf[op[p].b].dirty THEN op[p].next ELSE "rwsleep")
    /\ UNCHANGED <<buf, mru, lock, queue, sent, disk, driver, op, ops, panic>>

\* brelse: releasesleep.
ReleaseSleep(p) ==
    LET b == op[p].b
    IN  /\ pc[p] = "release"
        /\ lock' = [lock EXCEPT ![b] = NoProc]
        /\ pc' = [Woken("locksleep", "lock", b) EXCEPT ![p] = "unref"]
        /\ UNCHANGED <<buf, mru, queue, sent, disk, driver, op, ops, panic>>

\* Buffer b moves to the front of the list.
ToFront(b) ==
    LET k == CHOOSE i \in Buf : mru[i] = b
    IN  [i \in Buf |-> IF i = 1 THEN b ELSE IF i <= k THEN mru[i - 1] ELSE mru[i]]

\* brelse: refcnt, and the front of the list if nobody waits.
Brelse(p) ==
    LET b == op[p].b
    IN  /\ pc[p] = "unref"
        /\ buf' = [buf EXCEPT ![b].refcnt = @ - 1]
        /\ mru' = IF buf[b].refcnt = 1 THEN ToFront(b) ELSE mru
        /\ Goto(p, "idle")
        /\ op' = [op EXCEPT ![p] = NoOp]
        /\ UNCHANGED <<lock, queue, sent, disk, driver, ops, panic>>

Step(p) ==
    \/ AcquireSleep(p) \/ Use(p) \/ Iderw(p) \/ MemIderw(p) \/ RwTest(p)
    \/ ReleaseSleep(p) \/ Brelse(p)

\* scheduler finds nobody to run, or the kernel has stopped.
Idle ==
    /\ panic \/ \A p \in Procs : pc[p] \in {"idle", "locksleep", "rwsleep"}
    /\ UNCHANGED vars

Next ==
    \/ /\ ~panic
       /\ \/ \E p \in Procs : Step(p) \/ \E kind \in Kinds, k \in Blocks : Bget(p, kind, k)
          \/ Ideintr
    \/ Idle

Spec == Init /\ [][Next]_vars

\* A process in the kernel runs on, the disk answers.
FairSpec == Spec /\ WF_vars(~panic /\ Ideintr) /\ \A p \in Procs : WF_vars(~panic /\ Step(p))
-----------------------------------------------------------------------------
\* The processes between bget and the end of brelse.
Users(b) == {p \in Procs : pc[p] # "idle" /\ op[p].b = b}

\* refcnt counts exactly the processes that hold or wait for a buffer; every request in the
\* queue is there once and belongs to a process that holds the lock (bget, brelse, iderw).
CountsExact ==
    /\ \A b \in Buf : buf[b].refcnt = Cardinality(Users(b))
    /\ \A i, j \in DOMAIN queue : queue[i] = queue[j] => i = j
    /\ \A b \in Range(queue) : lock[b] # NoProc /\ pc[lock[b]] = "rwsleep"

\* As long as no more than NBUF blocks are used or pinned bget always finds a buffer, and iderw is called only with something to do: no panic of bio.c and ide.c.
BuffersSuffice == ~panic

Content ==
    [k \in Blocks |-> IF \E b \in Cached(k) : buf[b].valid \/ buf[b].dirty
                      THEN buf[CHOOSE b \in Cached(k) : buf[b].valid \/ buf[b].dirty].data
                      ELSE disk[k]]
Holder ==
    [k \in Blocks |-> IF \E b \in Cached(k) : lock[b] # NoProc
                      THEN lock[CHOOSE b \in Cached(k) : lock[b] # NoProc]
                      ELSE NoProc]
Abs == INSTANCE BlockStore WITH content <- Content, holder <- Holder

\* Every block has one current copy, whatever is cached, recycled, pinned or on its way to
\* the disk: it changes only while a process holds the block, by that process (bget, bread,
\* bwrite, brelse, ideintr).
ImplementsBlockStore == Abs!Spec

\* Every bread, bwrite and brelse returns: no process sleeps for a lock or for the disk for
\* ever (acquiresleep, releasesleep, iderw, ideintr).
RequestsEnd == \A p \in Procs : pc[p] # "idle" ~> pc[p] = "idle"
=============================================================================
