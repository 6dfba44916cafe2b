------------------------- MODULE BufferCacheProofs --------------------------
(***************************************************************************)
(* The buffer cache for any number of processes, buffers and blocks: the   *)
(* invariant CacheInv is inductive, refcnt counts the users of a buffer,   *)
(* bget never runs out of buffers, and the cache implements BlockStore.    *)
(***************************************************************************)
EXTENDS BufferCache, FiniteSetTheorems, TLAPS

\* The time the provers get for a leaf that does not choose one.
USE SMTT(30), ZenonT(30)

BufType == [blockno : Blocks \cup {NoBlock}, valid : BOOLEAN, dirty : BOOLEAN, data : Vals,
            refcnt : Nat]

\* Where a process holds the lock of its buffer.
Holding == {"have", "iderw", "rwsleep", "rwtest", "release"}

Labels == {"idle", "lock", "locksleep", "unref"} \cup Holding
OpType == [kind : Kinds, b : Buf \cup {0}, next : {"have", "release"}]

TypeOK ==
    /\ buf \in [Buf -> BufType]
    /\ mru \in [Buf -> Buf] /\ \A b \in Buf : \E i \in Buf : mru[i] = b
    /\ lock \in [Buf -> Procs \cup {NoProc}]
    /\ queue \in Seq(Buf) /\ sent \in Vals /\ disk \in [Blocks -> Vals]
    /\ pc \in [Procs -> Labels] /\ op \in [Procs -> OpType]

\* The sleep lock of a buffer belongs to the one process that is working with it.
LockOK ==
    /\ \A p \in Procs : pc[p] # "idle" => op[p].b \in Buf /\ buf[op[p].b].blockno # NoBlock
    /\ \A p \in Procs : pc[p] \in Holding => lock[op[p].b] = p
    /\ \A b \in Buf : lock[b] # NoProc => pc[lock[b]] \in Holding /\ op[lock[b]].b = b

\* A block is in one buffer.
CachedOnce ==
    \A b, c \in Buf : buf[b].blockno = buf[c].blockno /\ buf[b].blockno # NoBlock => b = c

\* What B_VALID and B_DIRTY say about the data of a buffer that nobody is changing.
DataOK ==
    \A b \in Buf :
        /\ buf[b].valid \/ buf[b].dirty => buf[b].blockno # NoBlock
        /\ buf[b].dirty => buf[b].valid \/ lock[b] # NoProc
        /\ buf[b].valid /\ ~buf[b].dirty => buf[b].data = disk[buf[b].blockno]

\* The flags that process p finds in its buffer.
Flags(p) ==
    /\ pc[p] \in {"lock", "locksleep"} => op[p].next = "have"
    /\ pc[p] = "have" => buf[op[p].b].valid \/ op[p].kind = "overwrite"
    /\ pc[p] \in {"iderw", "rwsleep"} /\ op[p].next = "have" =>
          ~buf[op[p].b].valid /\ ~buf[op[p].b].dirty
    /\ pc[p] \in {"iderw", "rwsleep"} /\ op[p].next # "have" => buf[op[p].b].dirty
    /\ pc[p] = "rwtest" => buf[op[p].b].valid /\ ~buf[op[p].b].dirty
    /\ pc[p] = "release" => buf[op[p].b].valid

FlagsOK == \A p \in Procs : Flags(p)

\* The requests in the queue of the disk driver.
QueueOK ==
    /\ \A i, j \in 1..Len(queue) : queue[i] = queue[j] => i = j
    /\ \A i \in 1..Len(queue) : lock[queue[i]] # NoProc /\ pc[lock[queue[i]]] = "rwsleep"
    /\ queue # <<>> => sent = buf[queue[1]].data

Counted == \A b \in Buf : buf[b].refcnt = Cardinality(Users(b))

\* The inductive invariant of the buffer cache.
CacheInv ==
    TypeOK /\ LockOK /\ CachedOnce /\ DataOK /\ FlagsOK /\ QueueOK /\ Counted /\ ~panic

-----------------------------------------------------------------------------
\* A step in which no process takes or gives back a buffer keeps the counts right.
LEMMA SameUsers ==
    ASSUME Counted,
           \A q \in Procs : (pc'[q] = "idle" <=> pc[q] = "idle") /\ op'[q].b = op[q].b,
           \A b \in Buf : buf'[b].refcnt = buf[b].refcnt
    PROVE  Counted'
<1>1. \A b : Users(b)' = Users(b)
  BY DEF Users
<1> QED  BY <1>1 DEF Counted

\* A step in which no buffer changes its owner or its block.
LEMMA SameLocks ==
    ASSUME CacheInv, UNCHANGED lock,
           \A q \in Procs : /\ op'[q].b = op[q].b /\ (pc'[q] = "idle" <=> pc[q] = "idle")
                            /\ (pc'[q] \in Holding <=> pc[q] \in Holding),
           \A c \in Buf : buf'[c].blockno = buf[c].blockno
    PROVE  LockOK'
<1>1. LockOK /\ \A c \in Buf : lock[c] # NoProc => lock[c] \in Procs
  BY DEF CacheInv, TypeOK
<1>2. ASSUME NEW q \in Procs, pc'[q] # "idle"
      PROVE  op'[q].b \in Buf /\ buf'[op'[q].b].blockno # NoBlock
  <2>1. op[q].b \in Buf /\ buf[op[q].b].blockno # NoBlock
    BY <1>1, <1>2, Zenon DEF LockOK
  <2> QED  BY <2>1, Zenon
<1>3. ASSUME NEW q \in Procs, pc'[q] \in Holding PROVE lock'[op'[q].b] = q
  BY <1>1, <1>3, Zenon DEF LockOK
<1>4. ASSUME NEW c \in Buf, lock'[c] # NoProc
      PROVE  pc'[lock'[c]] \in Holding /\ op'[lock'[c]].b = c
  BY <1>1, <1>4, Zenon DEF LockOK
<1> QED  BY <1>2, <1>3, <1>4, Zenon DEF LockOK

\* A step that does not change what process q finds in its buffer.
LEMMA SameFlags ==
    ASSUME CacheInv, NEW q \in Procs, pc'[q] = pc[q], op'[q] = op[q],
           pc[q] \in Holding => /\ buf'[op[q].b].valid = buf[op[q].b].valid
                                /\ buf'[op[q].b].dirty = buf[op[q].b].dirty
    PROVE  Flags(q)'
<1>1. Flags(q)
  BY DEF CacheInv, FlagsOK
<1>2. CASE pc[q] \in Holding
  BY <1>1, <1>2, Zenon DEF Flags
<1>3. CASE pc[q] \notin Holding
  BY <1>1, <1>3 DEF Flags, Holding
<1> QED  BY <1>2, <1>3

\* A process that holds the lock of its buffer is the only one that works with it.
LEMMA Owner ==
    ASSUME CacheInv, NEW p \in Procs, pc[p] \in Holding
    PROVE  /\ op[p].b \in Buf /\ lock[op[p].b] = p /\ lock[op[p].b] # NoProc
           /\ buf[op[p].b].blockno \in Blocks /\ buf[op[p].b].blockno # NoBlock
           /\ \A q \in Procs \ {p} : pc[q] \in Holding => op[q].b # op[p].b
<1>1. LockOK /\ buf \in [Buf -> BufType]
  BY DEF CacheInv, TypeOK
<1>2. op[p].b \in Buf /\ buf[op[p].b].blockno # NoBlock /\ lock[op[p].b] = p
  BY <1>1 DEF LockOK, Holding
<1>3. buf[op[p].b].blockno \in Blocks
  BY <1>1, <1>2 DEF BufType
<1>4. \A q \in Procs \ {p} : pc[q] \in Holding => op[q].b # op[p].b
  BY <1>1, <1>2, Zenon DEF LockOK
<1> QED  BY <1>2, <1>3, <1>4, CacheAssumption DEF CacheAssumption

\* The buffers in the queue of the driver, and their owners.
LEMMA Queued ==
    ASSUME CacheInv, NEW i \in 1..Len(queue)
    PROVE  /\ queue[i] \in Buf /\ lock[queue[i]] \in Procs /\ lock[queue[i]] # NoProc
           /\ pc[lock[queue[i]]] = "rwsleep" /\ op[lock[queue[i]]].b = queue[i]
<1>1. queue[i] \in Buf /\ lock \in [Buf -> Procs \cup {NoProc}]
  BY DEF CacheInv, TypeOK
<1>2. lock[queue[i]] # NoProc /\ pc[lock[queue[i]]] = "rwsleep"
  BY DEF CacheInv, QueueOK
<1>3. op[lock[queue[i]]].b = queue[i]
  BY <1>1, <1>2, Zenon DEF CacheInv, LockOK
<1> QED  BY <1>1, <1>2, <1>3

\* A process that does not wait for the disk has no request in the queue.
LEMMA NotQueued ==
    ASSUME CacheInv, NEW p \in Procs, pc[p] # "rwsleep", NEW i \in 1..Len(queue)
    PROVE  lock[queue[i]] \in Procs \ {p} /\ (pc[p] \in Holding => queue[i] # op[p].b)
<1>1. queue[i] \in Buf /\ lock[queue[i]] \in Procs /\ pc[lock[queue[i]]] = "rwsleep"
  BY Queued, Zenon
<1>2. pc[p] \in Holding => lock[op[p].b] = p
  BY Owner, Zenon
<1> QED  BY <1>1, <1>2, Zenon

\* A step that leaves the queue, the data in it and its owners alone.
LEMMA SameQueue ==
    ASSUME CacheInv, UNCHANGED <<queue, sent>>,
           \A i \in 1..Len(queue) : /\ lock'[queue[i]] = lock[queue[i]]
                                    /\ pc'[lock[queue[i]]] = pc[lock[queue[i]]]
                                    /\ buf'[queue[i]].data = buf[queue[i]].data
    PROVE  QueueOK'
<1>1. QueueOK /\ queue' = queue /\ sent' = sent
  BY DEF CacheInv
<1>2. queue # <<>> => 1 \in 1..Len(queue)
  BY DEF CacheInv, TypeOK
<1>3. \A i \in 1..Len(queue) : lock'[queue[i]] # NoProc /\ pc'[lock'[queue[i]]] = "rwsleep"
  BY <1>1, Zenon DEF QueueOK
<1>4. queue # <<>> => sent = buf'[queue[1]].data
  BY <1>1, <1>2, Zenon DEF QueueOK
<1>5. \A i, j \in 1..Len(queue') : queue'[i] = queue'[j] => i = j
  BY <1>1 DEF QueueOK
<1>6. \A i \in 1..Len(queue') : lock'[queue'[i]] # NoProc /\ pc'[lock'[queue'[i]]] = "rwsleep"
  BY <1>1, <1>3
<1>7. queue' # <<>> => sent' = buf'[queue'[1]].data
  BY <1>1, <1>4
<1> QED  BY <1>5, <1>6, <1>7, Zenon DEF QueueOK

\* A process goes from one label to another.
LEMMA Goes ==
    ASSUME CacheInv, NEW p \in Procs, NEW l \in Labels, pc' = [pc EXCEPT ![p] = l]
    PROVE  pc' \in [Procs -> Labels] /\ pc'[p] = l /\ \A q \in Procs \ {p} : pc'[q] = pc[q]
<1>1. pc \in [Procs -> Labels]
  BY DEF CacheInv, TypeOK
<1> QED  BY <1>1, Zenon

\* acquiresleep preserves the invariant.
LEMMA AcquireSleepStep ==
    ASSUME CacheInv, NEW p \in Procs, AcquireSleep(p)
    PROVE  CacheInv'
<1>0. PICK b : b = op[p].b
  OBVIOUS
<1>1. pc[p] = "lock" /\ UNCHANGED <<buf, mru, queue, sent, disk, op>>
  BY Zenon DEF AcquireSleep
<1>2. b \in Buf /\ op[p].next = "have" /\ lock \in [Buf -> Procs \cup {NoProc}]
  BY <1>0, <1>1 DEF CacheInv, LockOK, FlagsOK, Flags, TypeOK
<1>3. PICK l \in {"locksleep", "have", "iderw"} :
        /\ pc' = [pc EXCEPT ![p] = l]
        /\ l = "locksleep" => lock' = lock
        /\ l # "locksleep" => lock[b] = NoProc /\ lock' = [lock EXCEPT ![b] = p]
        /\ l = "have" => op[p].kind = "overwrite" \/ buf[b].valid
        /\ l = "iderw" => ~buf[b].valid
  BY <1>0 DEF AcquireSleep, Goto
<1>4. /\ pc' \in [Procs -> Labels] /\ pc'[p] = l /\ \A q \in Procs \ {p} : pc'[q] = pc[q]
  <2>1. l \in Labels
    BY DEF Labels, Holding
  <2> QED  BY <1>3, <2>1, Goes, Zenon
<1>5. /\ lock' \in [Buf -> Procs \cup {NoProc}] /\ \A c \in Buf \ {b} : lock'[c] = lock[c]
      /\ l = "locksleep" => lock'[b] = lock[b]
      /\ l # "locksleep" => lock[b] = NoProc /\ lock'[b] = p
  BY <1>2, <1>3
<1>6. TypeOK'
  BY <1>1, <1>4, <1>5, Zenon DEF CacheInv, TypeOK
<1>7. LockOK'
  <2>1. LockOK
    BY DEF CacheInv
  <2>2. CASE l = "locksleep"
    <3>1. \A q \in Procs : /\ op'[q].b = op[q].b /\ (pc'[q] = "idle" <=> pc[q] = "idle")
                           /\ (pc'[q] \in Holding <=> pc[q] \in Holding)
      BY <1>1, <1>4, <2>2 DEF Holding
    <3> QED  BY <1>1, <1>3, <2>2, <3>1, SameLocks, Zenon
  <2>3. CASE l # "locksleep"
    <3>1. l \in Holding /\ l # "idle"
      BY <2>3 DEF Holding
    <3>2. \A q \in Procs \ {p} : pc[q] \in Holding => op[q].b # b /\ op[q].b \in Buf
      BY <1>5, <2>1, <2>3, CacheAssumption DEF CacheAssumption, LockOK, Holding
    <3>3. \A q \in Procs : pc'[q] # "idle" => op[q].b \in Buf /\ buf[op[q].b].blockno # NoBlock
      BY <1>1, <1>4, <2>1 DEF LockOK
    <3>4. \A q \in Procs : pc'[q] \in Holding => lock'[op[q].b] = q
      BY <1>0, <1>4, <1>5, <2>1, <2>3, <3>2, ZenonT(30) DEF LockOK
    <3>5. \A c \in Buf : lock[c] # NoProc => lock[c] \in Procs \ {p}
      BY <1>1, <1>2, <2>1 DEF LockOK, Holding
    <3>6. \A c \in Buf : lock'[c] # NoProc => pc'[lock'[c]] \in Holding /\ op[lock'[c]].b = c
      <4> SUFFICES ASSUME NEW c \in Buf, lock'[c] # NoProc
                   PROVE  pc'[lock'[c]] \in Holding /\ op[lock'[c]].b = c
        OBVIOUS
      <4>1. CASE c = b
        BY <1>0, <1>4, <1>5, <2>3, <3>1, <4>1, Zenon
      <4>2. CASE c # b
        <5>1. lock'[c] = lock[c] /\ lock[c] \in Procs \ {p}
          BY <1>5, <3>5, <4>2, Zenon
        <5>2. pc[lock[c]] \in Holding /\ op[lock[c]].b = c
          BY <2>1, <5>1, Zenon DEF LockOK
        <5> QED  BY <1>4, <5>1, <5>2, Zenon
      <4> QED  BY <4>1, <4>2
    <3>7. buf' = buf /\ op' = op
      BY <1>1
    <3> QED  BY <3>3, <3>4, <3>6, <3>7, Zenon DEF LockOK
  <2> QED  BY <2>2, <2>3
<1>8. CachedOnce'
  BY <1>1 DEF CacheInv, CachedOnce
<1>9. DataOK'
  <2>1. \A c \in Buf : lock[c] # NoProc => lock'[c] # NoProc
    BY <1>2, <1>5, CacheAssumption DEF CacheAssumption
  <2> QED  BY <1>1, <2>1, Zenon DEF CacheInv, DataOK
<1>10. FlagsOK'
  <2>1. \A q \in Procs \ {p} : Flags(q)'
    BY <1>1, <1>4, SameFlags, Zenon
  <2>2. l = "iderw" => ~buf[b].dirty
    BY <1>2, <1>3, <1>5 DEF CacheInv, DataOK
  <2>3. Flags(p)'
    BY <1>0, <1>1, <1>2, <1>3, <1>4, <2>2 DEF Flags
  <2> QED  BY <2>1, <2>3, Zenon DEF FlagsOK
<1>11. QueueOK'
  <2>1. \A i \in 1..Len(queue) : /\ lock'[queue[i]] = lock[queue[i]]
                                 /\ lock[queue[i]] \in Procs \ {p}
    BY <1>1, <1>2, <1>5, Queued, NotQueued
  <2> QED  BY <1>1, <1>4, <2>1, SameQueue, Zenon
<1>12. Counted'
  <2>1. \A q \in Procs : (pc'[q] = "idle" <=> pc[q] = "idle") /\ op'[q].b = op[q].b
    BY <1>1, <1>4
  <2> QED  BY <1>1, <2>1, SameUsers, Zenon DEF CacheInv
<1>13. ~panic'
  BY Zenon DEF AcquireSleep, CacheInv
<1> QED  BY <1>6, <1>7, <1>8, <1>9, <1>10, <1>11, <1>12, <1>13, Zenon DEF CacheInv

\* The caller of bread preserves the invariant when it changes the data.
LEMMA UseStep ==
    ASSUME CacheInv, NEW p \in Procs, Use(p)
    PROVE  CacheInv'
<1>0. PICK b : b = op[p].b
  OBVIOUS
<1>1. pc[p] = "have" /\ pc[p] \in Holding /\ UNCHANGED <<mru, lock, queue, sent, disk>>
  BY Zenon DEF Use, Holding
<1>2. /\ b \in Buf /\ lock[b] # NoProc /\ buf[b].blockno \in Blocks /\ buf[b].blockno # NoBlock
      /\ \A q \in Procs \ {p} : pc[q] \in Holding => op[q].b # b
  BY <1>0, <1>1, Owner, Zenon
<1>3. buf[b].valid \/ op[p].kind = "overwrite"
  BY <1>0, <1>1, Zenon DEF CacheInv, FlagsOK, Flags
<1>4. PICK l \in {"release", "iderw"} :
        /\ pc' = [pc EXCEPT ![p] = l]
        /\ l = "release" => op[p].kind \in {"read", "pin"}
        /\ l = "iderw" => op[p].kind # "read"
  BY DEF Use, Goto
<1>5. /\ pc' \in [Procs -> Labels] /\ pc'[p] = l /\ \A q \in Procs \ {p} : pc'[q] = pc[q]
      /\ l \in Holding /\ l # "idle"
  <2>1. l \in Labels /\ l \in Holding /\ l # "idle"
    BY DEF Labels, Holding
  <2> QED  BY <1>4, <2>1, Goes, Zenon
<1>6. /\ op' \in [Procs -> OpType] /\ \A q \in Procs \ {p} : op'[q] = op[q]
      /\ op'[p].b = b /\ (l = "iderw" => op'[p].next = "release")
  <2>1. op \in [Procs -> OpType]
    BY DEF CacheInv, TypeOK
  <2>2. CASE op[p].kind = "read"
    <3>1. op' = op
      BY <2>2, Zenon DEF Use
    <3> QED  BY <1>0, <1>4, <2>1, <2>2, <3>1, Zenon
  <2>3. CASE op[p].kind # "read"
    <3>1. op' = [op EXCEPT ![p].next = "release"]
      BY <2>3, Zenon DEF Use
    <3> QED  BY <1>0, <2>1, <3>1 DEF OpType
  <2> QED  BY <2>2, <2>3
<1>7. /\ buf' \in [Buf -> BufType] /\ \A c \in Buf \ {b} : buf'[c] = buf[c]
      /\ \A c \in Buf : /\ buf'[c].blockno = buf[c].blockno /\ buf'[c].refcnt = buf[c].refcnt
                        /\ buf'[c].valid = buf[c].valid
      /\ buf'[b] = buf[b] \/ buf'[b].dirty
      /\ l = "iderw" => buf'[b].dirty
  <2>1. buf \in [Buf -> BufType]
    BY DEF CacheInv, TypeOK
  <2>2. CASE buf' = buf /\ op[p].kind = "read"
    BY <1>4, <2>1, <2>2
  <2>3. ASSUME NEW v \in Vals, buf' = [buf EXCEPT ![b].data = v, ![b].dirty = TRUE]
        PROVE  <1>7!:
    <3> DEFINE e == [buf[b] EXCEPT !.data = v, !.dirty = TRUE]
    <3>1. /\ e \in BufType /\ e.dirty = TRUE /\ e.blockno = buf[b].blockno
          /\ e.refcnt = buf[b].refcnt /\ e.valid = buf[b].valid
      BY <1>2, <2>1, ZenonT(30) DEF BufType
    <3>2. buf' = [buf EXCEPT ![b] = e]
      BY <1>2, <2>1, <2>3, Zenon DEF BufType
    <3> HIDE DEF e
    <3>3. buf' \in [Buf -> BufType] /\ buf'[b] = e /\ \A c \in Buf \ {b} : buf'[c] = buf[c]
      BY <1>2, <2>1, <3>1, <3>2, Zenon
    <3> QED  BY <3>1, <3>3, Zenon
  <2> QED  BY <1>0, <2>2, <2>3, Zenon DEF Use
<1>8. TypeOK'
  BY <1>1, <1>5, <1>6, <1>7, Zenon DEF CacheInv, TypeOK
<1>9. \A q \in Procs : /\ op'[q].b = op[q].b /\ (pc'[q] = "idle" <=> pc[q] = "idle")
                       /\ (pc'[q] \in Holding <=> pc[q] \in Holding)
  BY <1>0, <1>1, <1>5, <1>6
<1>10. LockOK'
  BY <1>1, <1>7, <1>9, SameLocks, Zenon
<1>11. CachedOnce'
  BY <1>7 DEF CacheInv, CachedOnce
<1>12. DataOK'
  <2>1. DataOK /\ lock' = lock /\ disk' = disk
    BY <1>1 DEF CacheInv
  <2>2. ASSUME NEW c \in Buf \ {b}, buf'[c] = buf[c]
        PROVE  /\ buf'[c].valid \/ buf'[c].dirty => buf'[c].blockno # NoBlock
               /\ buf'[c].dirty => buf'[c].valid \/ lock'[c] # NoProc
               /\ buf'[c].valid /\ ~buf'[c].dirty => buf'[c].data = disk'[buf'[c].blockno]
    BY <2>1, <2>2, Zenon DEF DataOK
  <2>3. /\ buf'[b].blockno # NoBlock /\ lock'[b] # NoProc
        /\ buf'[b].valid /\ ~buf'[b].dirty => buf'[b].data = disk'[buf'[b].blockno]
    BY <1>2, <1>7, <2>1, Zenon DEF DataOK
  <2> QED  BY <1>7, <2>2, <2>3, ZenonT(30) DEF DataOK
<1>13. FlagsOK'
  <2>1. ASSUME NEW q \in Procs \ {p} PROVE Flags(q)'
    <3>1. pc[q] \in Holding => op[q].b \in Buf \ {b}
      BY <1>2, Owner, Zenon
    <3> QED  BY <1>5, <1>6, <1>7, <3>1, SameFlags, Zenon
  <2>2. l = "release" => buf'[b].valid
    BY <1>2, <1>3, <1>4, <1>7
  <2>3. Flags(p)'
    BY <1>4, <1>5, <1>6, <1>7, <2>2 DEF Flags
  <2> QED  BY <2>1, <2>3, Zenon DEF FlagsOK
<1>14. QueueOK'
  <2>1. \A i \in 1..Len(queue) : queue[i] \in Buf \ {b} /\ lock[queue[i]] \in Procs \ {p}
    BY <1>0, <1>1, Queued, NotQueued
  <2> QED  BY <1>1, <1>5, <1>7, <2>1, SameQueue, Zenon
<1>15. Counted'
  BY <1>7, <1>9, SameUsers, Zenon DEF CacheInv
<1>16. ~panic'
  BY Zenon DEF Use, CacheInv
<1> QED  BY <1>8, <1>10, <1>11, <1>12, <1>13, <1>14, <1>15, <1>16, Zenon DEF CacheInv

\* iderw is called only with something to do.
LEMMA IderwHasWork ==
    ASSUME CacheInv, NEW p \in Procs, pc[p] = "iderw"
    PROVE  lock[op[p].b] = p /\ ~(buf[op[p].b].valid /\ ~buf[op[p].b].dirty)
<1>1. pc[p] \in Holding
  BY DEF Holding
<1>2. Flags(p)
  BY DEF CacheInv, FlagsOK
<1>3. lock[op[p].b] = p
  BY <1>1, Owner, Zenon
<1> QED  BY <1>2, <1>3, Zenon DEF Flags

\* iderw of ide.c preserves the invariant: the request that it appends is a new one.
LEMMA IderwStep ==
    ASSUME CacheInv, NEW p \in Procs, Iderw(p)
    PROVE  CacheInv'
<1>0. PICK b : b = op[p].b
  OBVIOUS
<1> DEFINE n == Len(queue)
<1>1. pc[p] = "iderw" /\ pc[p] \in Holding
  BY DEF Iderw, Holding
<1>2. /\ queue' = Append(queue, b) /\ sent' = IF queue = <<>> THEN buf[b].data ELSE sent
      /\ pc' = [pc EXCEPT ![p] = "rwsleep"] /\ panic' = panic
      /\ UNCHANGED <<buf, mru, lock, disk, op>>
  <2>1. ~(lock[b] # p \/ (buf[b].valid /\ ~buf[b].dirty))
    BY <1>0, <1>1, IderwHasWork
  <2> QED  BY <1>0, <2>1, Zenon DEF Iderw, Goto
<1>3. b \in Buf /\ lock[b] = p /\ lock[b] # NoProc
  BY <1>0, <1>1, Owner, Zenon
<1>4. /\ pc' \in [Procs -> Labels] /\ pc'[p] = "rwsleep" /\ \A q \in Procs \ {p} : pc'[q] = pc[q]
  <2>1. "rwsleep" \in Labels
    BY DEF Labels, Holding
  <2> QED  BY <1>2, <2>1, Goes, Zenon
<1>5. /\ queue \in Seq(Buf) /\ n \in Nat /\ queue' \in Seq(Buf) /\ Len(queue') = n + 1
      /\ queue'[n + 1] = b /\ \A i \in 1..n : queue'[i] = queue[i]
  <2>1. queue \in Seq(Buf)
    BY DEF CacheInv, TypeOK
  <2> QED  BY <1>2, <1>3, <2>1
<1>6. TypeOK'
  <2>1. sent \in Vals /\ buf[b].data \in Vals
    BY <1>3 DEF CacheInv, TypeOK, BufType
  <2>2. sent' \in Vals
    BY <1>2, <2>1, Zenon
  <2> QED  BY <1>2, <1>4, <1>5, <2>2, Zenon DEF CacheInv, TypeOK
<1>7. \A q \in Procs : /\ op'[q].b = op[q].b /\ (pc'[q] = "idle" <=> pc[q] = "idle")
                       /\ (pc'[q] \in Holding <=> pc[q] \in Holding)
  BY <1>1, <1>2, <1>4 DEF Holding
<1>8. LockOK'
  BY <1>2, <1>7, SameLocks, Zenon
<1>9. CachedOnce' /\ DataOK'
  BY <1>2, Zenon DEF CacheInv, CachedOnce, DataOK
<1>10. FlagsOK'
  <2>1. \A q \in Procs \ {p} : Flags(q)'
    BY <1>2, <1>4, SameFlags, Zenon
  <2>2. Flags(p) /\ buf' = buf /\ op' = op
    BY <1>2 DEF CacheInv, FlagsOK
  <2>3. Flags(p)'
    BY <1>1, <1>4, <2>2 DEF Flags
  <2> QED  BY <2>1, <2>3, Zenon DEF FlagsOK
<1>11. QueueOK'
  <2>1. \A i \in 1..n : /\ queue[i] \in Buf \ {b} /\ lock[queue[i]] \in Procs \ {p}
                        /\ pc[lock[queue[i]]] = "rwsleep" /\ lock[queue[i]] # NoProc
    BY <1>0, <1>1, Queued, NotQueued
  <2>2. \A i, j \in 1..n : queue[i] = queue[j] => i = j
    BY DEF CacheInv, QueueOK
  <2>3. queue # <<>> => 1 \in 1..n /\ sent = buf[queue[1]].data
    BY <1>5 DEF CacheInv, QueueOK
  <2>4. queue = <<>> => n = 0
    BY <1>5
  <2> HIDE DEF n
  <2>5. \A i \in 1..(n + 1) : i = n + 1 \/ i \in 1..n
    BY <1>5
  <2>6. \A i, j \in 1..(n + 1) : queue'[i] = queue'[j] => i = j
    BY <1>5, <2>1, <2>2, <2>5
  <2>7. \A i \in 1..(n + 1) : lock'[queue'[i]] # NoProc /\ pc'[lock'[queue'[i]]] = "rwsleep"
    <3>1. lock' = lock
      BY <1>2
    <3> SUFFICES ASSUME NEW i \in 1..(n + 1)
                 PROVE  lock[queue'[i]] # NoProc /\ pc'[lock[queue'[i]]] = "rwsleep"
      BY <3>1, Zenon
    <3>2. CASE i = n + 1
      BY <1>3, <1>4, <1>5, <3>2, Zenon
    <3>3. CASE i \in 1..n
      BY <1>4, <1>5, <2>1, <3>3, ZenonT(30)
    <3> QED  BY <2>5, <3>2, <3>3, Zenon
  <2>8. sent' = buf'[queue'[1]].data
    <3>1. buf' = buf
      BY <1>2
    <3>2. CASE queue = <<>>
      <4>1. sent' = buf[b].data /\ queue'[1] = b
        BY <1>2, <1>5, <2>4, <3>2
      <4> QED  BY <3>1, <4>1
    <3>3. CASE queue # <<>>
      BY <1>2, <1>5, <2>3, <3>1, <3>3, Zenon
    <3> QED  BY <3>2, <3>3
  <2> QED  BY <1>5, <2>6, <2>7, <2>8, Zenon DEF QueueOK
<1>12. Counted'
  BY <1>2, <1>7, SameUsers, Zenon DEF CacheInv
<1>13. ~panic'
  BY <1>2, Zenon DEF CacheInv
<1> QED  BY <1>6, <1>8, <1>9, <1>10, <1>11, <1>12, <1>13, Zenon DEF CacheInv

\* The end of a request of process p, for both drivers: the buffer becomes valid and clean,
\* and agrees with the disk on v.
EndsRequest(p, v) ==
    LET b == op[p].b
        k == buf[b].blockno
    IN  /\ v = IF buf[b].dirty THEN buf[b].data ELSE disk[k]
        /\ buf' = [buf EXCEPT ![b] = [buf[b] EXCEPT !.data = v, !.valid = TRUE, !.dirty = FALSE]]
        /\ disk' = IF buf[b].dirty THEN [disk EXCEPT ![k] = v] ELSE disk
        /\ UNCHANGED lock

\* iderw of memide.c ends the request of its caller.
LEMMA MemIderwEnds ==
    ASSUME CacheInv, NEW p \in Procs, MemIderw(p)
    PROVE  \E v \in Vals : EndsRequest(p, v)
<1> DEFINE b == op[p].b
           k == buf[b].blockno
           v == IF buf[b].dirty THEN buf[b].data ELSE disk[k]
<1>1. pc[p] = "iderw"
  BY DEF MemIderw
<1>2. /\ disk' = IF buf[b].dirty THEN [disk EXCEPT ![k] = buf[b].data] ELSE disk
      /\ buf' = [buf EXCEPT ![b].data = disk'[k], ![b].valid = TRUE, ![b].dirty = FALSE]
      /\ UNCHANGED lock
  <2>1. ~(lock[b] # p \/ (buf[b].valid /\ ~buf[b].dirty))
    BY <1>1, IderwHasWork
  <2> QED  BY <2>1, ZenonT(30) DEF MemIderw
<1>3. /\ b \in Buf /\ k \in Blocks
      /\ buf \in [Buf -> BufType] /\ disk \in [Blocks -> Vals] /\ buf[b] \in BufType
  BY <1>1, Owner DEF Holding, CacheInv, TypeOK
<1>4. v \in Vals /\ disk'[k] = v
  BY <1>2, <1>3, Zenon DEF BufType
<1>5. buf' = [buf EXCEPT ![b] = [buf[b] EXCEPT !.data = v, !.valid = TRUE, !.dirty = FALSE]]
  <2> HIDE DEF b, k, v
  <2> QED  BY <1>2, <1>3, <1>4, ZenonT(30) DEF BufType
<1>6. disk' = IF buf[b].dirty THEN [disk EXCEPT ![k] = v] ELSE disk
  BY <1>2, Zenon
<1>7. EndsRequest(p, v)
  BY <1>2, <1>5, <1>6, Zenon DEF EndsRequest
<1> HIDE DEF v
<1> QED  BY <1>4, <1>7, ZenonT(30)

\* ideintr ends the first request in the queue.
LEMMA IdeintrEnds ==
    ASSUME CacheInv, Ideintr
    PROVE  /\ lock[Head(queue)] \in Procs /\ op[lock[Head(queue)]].b = Head(queue)
           /\ pc[lock[Head(queue)]] = "rwsleep"
           /\ \E v \in Vals : EndsRequest(lock[Head(queue)], v)
<1> DEFINE b == Head(queue)
           p == lock[b]
           k == buf[b].blockno
           v == IF buf[b].dirty THEN buf[b].data ELSE disk[k]
<1>1. queue # <<>> /\ queue \in Seq(Buf) /\ 1 \in 1..Len(queue) /\ b = queue[1]
  BY DEF Ideintr, CacheInv, TypeOK
<1>2. p \in Procs /\ op[p].b = b /\ pc[p] = "rwsleep" /\ sent = buf[b].data
  BY <1>1, Queued DEF CacheInv, QueueOK
<1>3. /\ b \in Buf /\ k \in Blocks
      /\ buf \in [Buf -> BufType] /\ disk \in [Blocks -> Vals] /\ buf[b] \in BufType
  BY <1>2, Owner DEF Holding, CacheInv, TypeOK
<1>4. /\ disk' = IF buf[b].dirty THEN [disk EXCEPT ![k] = sent] ELSE disk
      /\ buf' = [buf EXCEPT ![b].data = IF buf[b].dirty THEN @ ELSE disk[k],
                            ![b].valid = TRUE, ![b].dirty = FALSE]
      /\ UNCHANGED lock
  BY Zenon DEF Ideintr
<1>5. v \in Vals /\ disk' = IF buf[b].dirty THEN [disk EXCEPT ![k] = v] ELSE disk
  BY <1>2, <1>3, <1>4, Zenon DEF BufType
<1>6. buf' = [buf EXCEPT ![b] = [buf[b] EXCEPT !.data = v, !.valid = TRUE, !.dirty = FALSE]]
  <2> HIDE DEF b, k
  <2> QED  BY <1>3, <1>4, ZenonT(30) DEF BufType
<1>7. v = IF buf[b].dirty THEN buf[b].data ELSE disk[k]
  OBVIOUS
<1> HIDE DEF b, p, v
<1>8. EndsRequest(p, v)
  BY <1>2, <1>4, <1>5, <1>6, <1>7, Zenon DEF EndsRequest
<1>9. p = lock[Head(queue)] /\ b = Head(queue)
  BY DEF p, b
<1> QED  BY <1>2, <1>5, <1>8, <1>9, ZenonT(30)

\* What the end of a request does to the buffer and to the disk.
LEMMA Finished ==
    ASSUME CacheInv, NEW p \in Procs, pc[p] \in {"iderw", "rwsleep"},
           NEW v \in Vals, EndsRequest(p, v)
    PROVE  /\ buf' \in [Buf -> BufType] /\ disk' \in [Blocks -> Vals] /\ UNCHANGED lock
           /\ \A c \in Buf \ {op[p].b} : buf'[c] = buf[c]
           /\ \A c \in Buf : buf'[c].blockno = buf[c].blockno /\ buf'[c].refcnt = buf[c].refcnt
           /\ buf'[op[p].b].valid /\ ~buf'[op[p].b].dirty /\ buf'[op[p].b].data = v
           /\ v = IF buf[op[p].b].dirty THEN buf[op[p].b].data ELSE disk[buf[op[p].b].blockno]
           /\ \A j \in Blocks \ {buf[op[p].b].blockno} : disk'[j] = disk[j]
           /\ CachedOnce' /\ DataOK'
<1> DEFINE b == op[p].b
           e == [buf[b] EXCEPT !.data = v, !.valid = TRUE, !.dirty = FALSE]
           k == buf[b].blockno
<1>1. /\ b \in Buf /\ lock[b] # NoProc /\ k \in Blocks /\ k # NoBlock
  <2>1. pc[p] \in Holding
    BY DEF Holding
  <2> QED  BY <2>1, Owner, Zenon
<1>2. buf \in [Buf -> BufType] /\ disk \in [Blocks -> Vals]
  BY DEF CacheInv, TypeOK
<1>3. /\ e \in BufType /\ e.valid = TRUE /\ e.dirty = FALSE /\ e.data = v
      /\ e.blockno = k /\ e.refcnt = buf[b].refcnt
  BY <1>1, <1>2, ZenonT(30) DEF BufType
<1>4. /\ buf' = [buf EXCEPT ![b] = e]
      /\ disk' = IF buf[b].dirty THEN [disk EXCEPT ![k] = v] ELSE disk
      /\ v = IF buf[b].dirty THEN buf[b].data ELSE disk[k]
      /\ UNCHANGED lock
  BY Zenon DEF EndsRequest
<1> HIDE DEF b, e, k
<1>5. /\ buf' \in [Buf -> BufType] /\ buf'[b] = e
      /\ \A c \in Buf \ {b} : buf'[c] = buf[c]
  BY <1>1, <1>2, <1>3, <1>4, Zenon
<1>6. disk' \in [Blocks -> Vals] /\ disk'[k] = v /\ \A j \in Blocks \ {k} : disk'[j] = disk[j]
  <2>1. CASE buf[b].dirty
    BY <1>1, <1>2, <1>4, <2>1, Zenon
  <2>2. CASE ~buf[b].dirty
    BY <1>1, <1>2, <1>4, <2>2, Zenon
  <2> QED  BY <2>1, <2>2, Zenon
<1>7. \A c \in Buf : buf'[c].blockno = buf[c].blockno /\ buf'[c].refcnt = buf[c].refcnt
  BY <1>3, <1>5, ZenonT(30) DEF k
<1>8. CachedOnce'
  <2>1. CachedOnce
    BY DEF CacheInv
  <2> QED  BY <1>7, <2>1 DEF CachedOnce
<1>9. DataOK'
  <2>1. \A c \in Buf \ {b} : buf[c].blockno # k
    BY <1>1 DEF CacheInv, CachedOnce, k
  <2>2. DataOK /\ \A c \in Buf \ {b} : buf[c].valid => buf[c].blockno \in Blocks
    BY <1>2 DEF CacheInv, DataOK, BufType
  <2>3. ASSUME NEW c \in Buf \ {b}
        PROVE  /\ buf'[c].valid \/ buf'[c].dirty => buf'[c].blockno # NoBlock
               /\ buf'[c].dirty => buf'[c].valid \/ lock'[c] # NoProc
               /\ buf'[c].valid /\ ~buf'[c].dirty => buf'[c].data = disk'[buf'[c].blockno]
    <3>1. buf'[c] = buf[c] /\ (buf[c].valid => disk'[buf[c].blockno] = disk[buf[c].blockno])
      BY <1>5, <1>6, <2>1, <2>2, Zenon
    <3> QED  BY <1>4, <2>2, <3>1, Zenon DEF DataOK
  <2>4. /\ buf'[b].valid /\ ~buf'[b].dirty /\ buf'[b].blockno # NoBlock
        /\ buf'[b].data = disk'[buf'[b].blockno]
    BY <1>1, <1>3, <1>5, <1>6, Zenon
  <2> QED  BY <2>3, <2>4, ZenonT(30) DEF DataOK
<1>10. buf'[b].valid /\ ~buf'[b].dirty /\ buf'[b].data = v
  BY <1>3, <1>5, Zenon
<1> QED  BY <1>4, <1>5, <1>6, <1>7, <1>8, <1>9, <1>10, ZenonT(30) DEF b, k

\* The end of the request of process p preserves the invariant, but for the queue.
LEMMA FinishedStep ==
    ASSUME CacheInv, NEW p \in Procs, pc[p] \in {"iderw", "rwsleep"},
           NEW v \in Vals, EndsRequest(p, v),
           pc' \in [Procs -> Labels], \A q \in Procs \ {p} : pc'[q] = pc[q],
           pc'[p] = "rwtest" \/ (pc'[p] \in {"have", "release"} /\ pc'[p] = op[p].next),
           queue' \in Seq(Buf), sent' \in Vals, UNCHANGED <<mru, op, panic>>, QueueOK'
    PROVE  CacheInv'
<1>0. PICK b : b = op[p].b
  OBVIOUS
<1>1. /\ buf' \in [Buf -> BufType] /\ disk' \in [Blocks -> Vals] /\ UNCHANGED lock
      /\ \A c \in Buf \ {b} : buf'[c] = buf[c]
      /\ \A c \in Buf : buf'[c].blockno = buf[c].blockno /\ buf'[c].refcnt = buf[c].refcnt
      /\ buf'[b].valid /\ ~buf'[b].dirty
      /\ CachedOnce' /\ DataOK'
  BY <1>0, Finished, Zenon
<1>2. pc[p] \in Holding /\ pc'[p] \in Holding /\ pc[p] # "idle" /\ pc'[p] # "idle"
  BY DEF Holding
<1>3. /\ b \in Buf /\ \A q \in Procs \ {p} : pc[q] \in Holding => op[q].b \in Buf \ {b}
  BY <1>0, <1>2, Owner, Zenon
<1>4. \A q \in Procs : /\ op'[q].b = op[q].b /\ (pc'[q] = "idle" <=> pc[q] = "idle")
                       /\ (pc'[q] \in Holding <=> pc[q] \in Holding)
  BY <1>2
<1>5. TypeOK'
  BY <1>1, Zenon DEF CacheInv, TypeOK
<1>6. LockOK'
  BY <1>1, <1>4, SameLocks, Zenon
<1>7. FlagsOK'
  <2>1. op' = op
    OBVIOUS
  <2>2. ASSUME NEW q \in Procs \ {p} PROVE Flags(q)'
    BY <1>1, <1>3, <2>1, SameFlags, Zenon
  <2>3. pc'[p] \in {"have", "rwtest", "release"}
    OBVIOUS
  <2>4. Flags(p)'
    BY <1>0, <1>1, <2>1, <2>3 DEF Flags
  <2> QED  BY <2>2, <2>4, Zenon DEF FlagsOK
<1>8. Counted'
  BY <1>1, <1>4, SameUsers, Zenon DEF CacheInv
<1>9. ~panic'
  BY Zenon DEF CacheInv
<1> QED  BY <1>1, <1>5, <1>6, <1>7, <1>8, <1>9, Zenon DEF CacheInv

\* iderw of memide.c preserves the invariant.
LEMMA MemIderwStep ==
    ASSUME CacheInv, NEW p \in Procs, MemIderw(p)
    PROVE  CacheInv'
<1>0. PICK b : b = op[p].b
  OBVIOUS
<1>1. pc[p] = "iderw" /\ pc[p] \in Holding /\ pc[p] \in {"iderw", "rwsleep"}
  BY DEF MemIderw, Holding
<1>2. pc' = [pc EXCEPT ![p] = op[p].next] /\ UNCHANGED <<mru, lock, queue, sent, op, panic>>
  <2>1. ~(lock[b] # p \/ (buf[b].valid /\ ~buf[b].dirty))
    BY <1>0, <1>1, IderwHasWork
  <2> QED  BY <1>0, <2>1, ZenonT(30) DEF MemIderw, Goto
<1>3. PICK v \in Vals : EndsRequest(p, v)
  BY MemIderwEnds, Zenon
<1>4. /\ pc' \in [Procs -> Labels] /\ \A q \in Procs \ {p} : pc'[q] = pc[q]
      /\ pc'[p] \in {"have", "release"} /\ pc'[p] = op[p].next
  <2>1. op[p].next \in {"have", "release"}
    BY DEF CacheInv, TypeOK, OpType
  <2>2. op[p].next \in Labels
    BY <2>1 DEF Labels, Holding
  <2> QED  BY <1>2, <2>1, <2>2, Goes, Zenon
<1>5. QueueOK'
  <2>1. \A c \in Buf \ {b} : buf'[c] = buf[c]
    BY <1>0, <1>1, <1>3, Finished, Zenon
  <2>2. \A i \in 1..Len(queue) : queue[i] \in Buf \ {b} /\ lock[queue[i]] \in Procs \ {p}
    BY <1>0, <1>1, Queued, NotQueued
  <2> QED  BY <1>2, <1>4, <2>1, <2>2, SameQueue, Zenon
<1>6. queue' \in Seq(Buf) /\ sent' \in Vals
  BY <1>2 DEF CacheInv, TypeOK
<1> QED  BY <1>1, <1>2, <1>3, <1>4, <1>5, <1>6, FinishedStep, ZenonT(30)

\* ideintr preserves the invariant.
LEMMA IdeintrStep ==
    ASSUME CacheInv, Ideintr
    PROVE  CacheInv'
<1>0. PICK b, p : b = Head(queue) /\ p = lock[b]
  OBVIOUS
<1> DEFINE n == Len(queue)
<1>1. queue # <<>> /\ queue \in Seq(Buf) /\ n \in Nat /\ 1 \in 1..n /\ b = queue[1]
  <2>1. queue # <<>> /\ queue \in Seq(Buf)
    BY Zenon DEF Ideintr, CacheInv, TypeOK
  <2> QED  BY <1>0, <2>1
<1>2. PICK v \in Vals : /\ p \in Procs /\ op[p].b = b /\ pc[p] = "rwsleep"
                        /\ EndsRequest(p, v)
  BY <1>0, IdeintrEnds, Zenon
<1>3. /\ pc' = Woken("rwsleep", "rwtest", b)
      /\ queue' = Tail(queue) /\ sent' = Started(queue')
      /\ UNCHANGED <<mru, lock, op, panic>>
  BY <1>0, Zenon DEF Ideintr
<1>4. pc[p] \in Holding /\ pc[p] \in {"iderw", "rwsleep"}
  BY <1>2 DEF Holding
<1>5. b \in Buf /\ \A q \in Procs \ {p} : pc[q] \in Holding => op[q].b # b
  BY <1>2, <1>4, Owner, Zenon
<1>6. \A c \in Buf \ {b} : buf'[c] = buf[c]
  BY <1>2, <1>4, Finished, Zenon
<1>7. pc'[p] = "rwtest" /\ \A q \in Procs \ {p} : pc'[q] = pc[q]
  BY <1>2, <1>3, <1>5 DEF Woken, Holding
<1>8. pc' \in [Procs -> Labels]
  <2>1. pc \in [Procs -> Labels] /\ "rwtest" \in Labels
    BY DEF CacheInv, TypeOK, Labels, Holding
  <2> QED  BY <1>3, <2>1 DEF Woken
<1>9. /\ queue' \in Seq(Buf) /\ Len(queue') = n - 1 /\ \A i \in 1..(n - 1) : queue'[i] = queue[i + 1]
  BY <1>1, <1>3
<1>10. \A i \in 1..n : queue[i] \in Buf /\ lock[queue[i]] \in Procs /\ lock[queue[i]] # NoProc
                       /\ pc[lock[queue[i]]] = "rwsleep" /\ op[lock[queue[i]]].b = queue[i]
  BY Queued, Zenon
<1>11. \A i, j \in 1..n : queue[i] = queue[j] => i = j
  BY DEF CacheInv, QueueOK
<1> HIDE DEF n
<1>12. \A i \in 1..(n - 1) : i + 1 \in 1..n /\ i + 1 # 1
  BY <1>1
<1>13. ASSUME NEW i \in 1..(n - 1)
       PROVE  /\ queue[i + 1] \in Buf \ {b} /\ lock[queue[i + 1]] \in Procs \ {p}
              /\ lock[queue[i + 1]] # NoProc /\ pc[lock[queue[i + 1]]] = "rwsleep"
  <2>1. i + 1 \in 1..n /\ queue[i + 1] # b
    BY <1>1, <1>11, <1>12, Zenon
  <2> QED  BY <1>2, <1>10, <2>1, Zenon
<1>14. queue' # <<>> => 1 \in 1..(n - 1) /\ 1 + 1 = 2 /\ sent' = buf[queue[2]].data
  <2> SUFFICES ASSUME queue' # <<>> PROVE 1 \in 1..(n - 1) /\ sent' = buf[queue[2]].data
    OBVIOUS
  <2>1. 1 \in 1..(n - 1) /\ Head(queue') = queue'[1]
    BY <1>1, <1>9
  <2>2. queue'[1] = queue[2]
    BY <1>9, <2>1
  <2> QED  BY <1>3, <2>1, <2>2 DEF Started
<1>15. sent' \in Vals
  <2>1. CASE queue' = <<>>
    BY <1>3, <2>1, Zenon DEF Started, CacheInv, TypeOK
  <2>2. CASE queue' # <<>>
    <3>1. queue[2] \in Buf
      BY <1>13, <1>14, <2>2
    <3> QED  BY <1>14, <2>2, <3>1 DEF CacheInv, TypeOK, BufType
  <2> QED  BY <2>1, <2>2
<1>16. QueueOK'
  <2>1. \A i, j \in 1..(n - 1) : queue'[i] = queue'[j] => i = j
    BY <1>1, <1>9, <1>11, <1>12
  <2>2. ASSUME NEW i \in 1..(n - 1)
        PROVE  lock'[queue'[i]] # NoProc /\ pc'[lock'[queue'[i]]] = "rwsleep"
    <3>1. lock' = lock /\ queue'[i] = queue[i + 1]
      BY <1>3, <1>9
    <3> QED  BY <1>7, <1>13, <3>1, Zenon
  <2>3. queue' # <<>> => sent' = buf'[queue'[1]].data
    <3> SUFFICES ASSUME queue' # <<>> PROVE sent' = buf'[queue'[1]].data
      OBVIOUS
    <3>1. queue'[1] = queue[2] /\ queue[2] \in Buf \ {b}
      BY <1>9, <1>13, <1>14
    <3> QED  BY <1>6, <1>14, <3>1, Zenon
  <2> QED  BY <1>9, <2>1, <2>2, <2>3, Zenon DEF QueueOK
<1>17. UNCHANGED <<mru, op, panic>>
  BY <1>3
<1> QED  BY <1>2, <1>4, <1>7, <1>8, <1>9, <1>15, <1>16, <1>17, FinishedStep, Zenon

\* The test after a wakeup in iderw preserves the invariant.
LEMMA RwTestStep ==
    ASSUME CacheInv, NEW p \in Procs, RwTest(p)
    PROVE  CacheInv'
<1>1. /\ pc[p] = "rwtest" /\ pc[p] \in Holding
      /\ UNCHANGED <<buf, mru, lock, queue, sent, disk, op, panic>>
  BY Zenon DEF RwTest, Holding
<1>2. buf[op[p].b].valid /\ ~buf[op[p].b].dirty
  BY <1>1, Zenon DEF CacheInv, FlagsOK, Flags
<1>3. /\ pc' \in [Procs -> Labels] /\ \A q \in Procs \ {p} : pc'[q] = pc[q]
      /\ pc'[p] \in {"have", "release"} /\ pc'[p] \in Holding /\ pc'[p] # "idle"
  <2>1. op[p].next \in {"have", "release"}
    BY DEF CacheInv, TypeOK, OpType
  <2>2. op[p].next \in Labels /\ op[p].next \in Holding /\ op[p].next # "idle"
    BY <2>1 DEF Labels, Holding
  <2>3. pc' = [pc EXCEPT ![p] = op[p].next]
    BY <1>2 DEF RwTest, Goto
  <2> QED  BY <2>1, <2>2, <2>3, Goes, Zenon
<1>4. \A q \in Procs : /\ op'[q].b = op[q].b /\ (pc'[q] = "idle" <=> pc[q] = "idle")
                       /\ (pc'[q] \in Holding <=> pc[q] \in Holding)
  BY <1>1, <1>3
<1>5. TypeOK'
  BY <1>1, <1>3, Zenon DEF CacheInv, TypeOK
<1>6. CachedOnce' /\ DataOK'
  BY <1>1, Zenon DEF CacheInv, CachedOnce, DataOK
<1>7. LockOK'
  BY <1>1, <1>4, SameLocks, Zenon
<1>8. FlagsOK'
  <2>1. buf' = buf /\ op' = op
    BY <1>1
  <2>2. \A q \in Procs \ {p} : Flags(q)'
    BY <1>3, <2>1, SameFlags, ZenonT(30)
  <2>3. Flags(p)'
    BY <1>2, <1>3, <2>1 DEF Flags
  <2> QED  BY <2>2, <2>3, Zenon DEF FlagsOK
<1>9. QueueOK'
  <2>1. \A i \in 1..Len(queue) : lock[queue[i]] \in Procs \ {p}
    BY <1>1, NotQueued
  <2> QED  BY <1>1, <1>3, <2>1, SameQueue, Zenon
<1>10. Counted'
  BY <1>1, <1>4, SameUsers, Zenon DEF CacheInv
<1>11. ~panic'
  BY <1>1, Zenon DEF CacheInv
<1> QED  BY <1>5, <1>6, <1>7, <1>8, <1>9, <1>10, <1>11, Zenon DEF CacheInv

\* releasesleep preserves the invariant.
LEMMA ReleaseSleepStep ==
    ASSUME CacheInv, NEW p \in Procs, ReleaseSleep(p)
    PROVE  CacheInv'
<1>0. PICK b : b = op[p].b
  OBVIOUS
<1>1. /\ pc[p] = "release" /\ pc[p] \in Holding /\ lock' = [lock EXCEPT ![b] = NoProc]
      /\ pc' = [Woken("locksleep", "lock", b) EXCEPT ![p] = "unref"]
      /\ UNCHANGED <<buf, mru, queue, sent, disk, op, panic>>
  BY <1>0, Zenon DEF ReleaseSleep, Holding
<1>2. b \in Buf /\ lock[b] = p /\ \A q \in Procs \ {p} : pc[q] \in Holding => op[q].b # b
  BY <1>0, <1>1, Owner, Zenon
<1>3. buf[b].valid
  BY <1>0, <1>1, Zenon DEF CacheInv, FlagsOK, Flags
<1>4. /\ pc'[p] = "unref"
      /\ \A q \in Procs \ {p} : pc'[q] = pc[q] \/ (pc[q] = "locksleep" /\ pc'[q] = "lock")
  BY <1>1 DEF Woken
<1>5. pc' \in [Procs -> Labels]
  <2>1. pc \in [Procs -> Labels] /\ "lock" \in Labels /\ "unref" \in Labels
    BY DEF CacheInv, TypeOK, Labels
  <2> QED  BY <1>1, <2>1 DEF Woken
<1>6. /\ lock' \in [Buf -> Procs \cup {NoProc}] /\ lock'[b] = NoProc
      /\ \A c \in Buf \ {b} : lock'[c] = lock[c]
  <2>1. lock \in [Buf -> Procs \cup {NoProc}]
    BY DEF CacheInv, TypeOK
  <2> QED  BY <1>1, <1>2, <2>1
<1>7. TypeOK'
  BY <1>1, <1>5, <1>6, Zenon DEF CacheInv, TypeOK
<1>8. CachedOnce'
  BY <1>1, Zenon DEF CacheInv, CachedOnce
<1>9. DataOK'
  <2>1. DataOK /\ buf' = buf /\ disk' = disk
    BY <1>1 DEF CacheInv
  <2>2. \A c \in Buf : lock[c] # NoProc => lock'[c] # NoProc \/ buf[c].valid
    BY <1>3, <1>6, Zenon
  <2> QED  BY <2>1, <2>2, Zenon DEF DataOK
<1>10. LockOK'
  <2>1. LockOK /\ buf' = buf /\ op' = op
    BY <1>1 DEF CacheInv
  <2>2. \A q \in Procs \ {p} : (pc'[q] \in Holding <=> pc[q] \in Holding) /\ (pc'[q] = "idle" <=> pc[q] = "idle")
    BY <1>4 DEF Holding
  <2>3. pc'[p] \notin Holding /\ pc[p] # "idle"
    BY <1>1, <1>4 DEF Holding
  <2>4. \A c \in Buf \ {b} : lock[c] # NoProc => lock[c] \in Procs \ {p}
    BY <1>0, <2>1 DEF CacheInv, TypeOK, LockOK
  <2>5. \A q \in Procs : pc'[q] # "idle" => op[q].b \in Buf /\ buf[op[q].b].blockno # NoBlock
    BY <2>1, <2>2, <2>3, Zenon DEF LockOK
  <2>6. ASSUME NEW q \in Procs, pc'[q] \in Holding PROVE lock'[op[q].b] = q
    <3>1. q # p /\ pc[q] \in Holding
      BY <2>2, <2>3, <2>6, Zenon
    <3>2. op[q].b \in Buf \ {b} /\ lock[op[q].b] = q
      BY <1>2, <3>1, Owner, Zenon
    <3> QED  BY <1>6, <3>2
  <2>7. ASSUME NEW c \in Buf, lock'[c] # NoProc PROVE pc'[lock'[c]] \in Holding /\ op[lock'[c]].b = c
    <3>1. c # b /\ lock'[c] = lock[c]
      BY <1>6, <2>7, Zenon
    <3>2. lock[c] \in Procs \ {p} /\ pc[lock[c]] \in Holding /\ op[lock[c]].b = c
      BY <2>1, <2>4, <2>7, <3>1, Zenon DEF LockOK
    <3> QED  BY <2>2, <3>1, <3>2, Zenon
  <2> QED  BY <2>1, <2>5, <2>6, <2>7, Zenon DEF LockOK
<1>11. FlagsOK'
  <2>1. buf' = buf /\ op' = op
    BY <1>1
  <2>2. ASSUME NEW q \in Procs \ {p} PROVE Flags(q)'
    <3>1. CASE pc'[q] = pc[q]
      BY <2>1, <3>1, SameFlags, Zenon
    <3>2. CASE pc[q] = "locksleep" /\ pc'[q] = "lock"
      <4>1. Flags(q)
        BY DEF CacheInv, FlagsOK
      <4> QED  BY <2>1, <3>2, <4>1 DEF Flags
    <3> QED  BY <1>4, <3>1, <3>2, Zenon
  <2>3. Flags(p)'
    BY <1>4 DEF Flags
  <2> QED  BY <2>2, <2>3, Zenon DEF FlagsOK
<1>12. QueueOK'
  <2>1. ASSUME NEW i \in 1..Len(queue)
        PROVE  /\ lock'[queue[i]] = lock[queue[i]] /\ pc'[lock[queue[i]]] = pc[lock[queue[i]]]
               /\ buf'[queue[i]].data = buf[queue[i]].data
    <3>1. queue[i] \in Buf \ {b} /\ lock[queue[i]] \in Procs \ {p} /\ pc[lock[queue[i]]] = "rwsleep"
      BY <1>0, <1>1, Queued, NotQueued
    <3>2. pc'[lock[queue[i]]] = pc[lock[queue[i]]]
      BY <1>4, <3>1
    <3>3. buf' = buf
      BY <1>1
    <3> QED  BY <1>6, <3>1, <3>2, <3>3, Zenon
  <2> QED  BY <1>1, <2>1, SameQueue, Zenon
<1>13. Counted'
  <2>1. \A q \in Procs : (pc'[q] = "idle" <=> pc[q] = "idle") /\ op'[q].b = op[q].b
    BY <1>1, <1>4
  <2> QED  BY <1>1, <2>1, SameUsers, Zenon DEF CacheInv
<1>14. ~panic'
  BY <1>1, Zenon DEF CacheInv
<1> QED  BY <1>7, <1>8, <1>9, <1>10, <1>11, <1>12, <1>13, <1>14, Zenon DEF CacheInv

\* The list still holds every buffer after brelse has moved one to the front.
LEMMA ToFrontAll ==
    ASSUME TypeOK, NEW b \in Buf
    PROVE  ToFront(b) \in [Buf -> Buf] /\ \A c \in Buf : \E i \in Buf : ToFront(b)[i] = c
<1> DEFINE k == CHOOSE i \in Buf : mru[i] = b
<1>1. k \in Buf /\ mru[k] = b
  BY DEF TypeOK
<1>2. ToFront(b) = [i \in Buf |-> IF i = 1 THEN b ELSE IF i <= k THEN mru[i - 1] ELSE mru[i]]
  BY DEF ToFront
<1> HIDE DEF k
<1>3. \A i \in Buf : i # 1 => i - 1 \in Buf
  BY CacheAssumption DEF CacheAssumption, Buf
<1>4. ToFront(b) \in [Buf -> Buf]
  BY <1>2, <1>3 DEF TypeOK
<1>5. ASSUME NEW c \in Buf PROVE \E i \in Buf : ToFront(b)[i] = c
  <2>1. PICK j \in Buf : mru[j] = c
    BY DEF TypeOK
  <2>2. CASE j = k
    <3>1. 1 \in Buf /\ ToFront(b)[1] = b
      BY <1>2, CacheAssumption DEF CacheAssumption, Buf
    <3> QED  BY <1>1, <2>1, <2>2, <3>1
  <2>3. CASE j < k
    <3>1. j + 1 \in Buf /\ j + 1 <= k /\ j + 1 # 1 /\ (j + 1) - 1 = j
      BY <1>1, <2>3, CacheAssumption DEF CacheAssumption, Buf
    <3>2. ToFront(b)[j + 1] = c
      BY <1>2, <2>1, <3>1
    <3> QED  BY <3>1, <3>2
  <2>4. CASE j > k
    <3>1. j # 1 /\ ~(j <= k)
      BY <1>1, <2>4, CacheAssumption DEF CacheAssumption, Buf
    <3> QED  BY <1>2, <2>1, <3>1
  <2> QED  BY <1>1, <2>2, <2>3, <2>4, CacheAssumption DEF CacheAssumption, Buf
<1> QED  BY <1>4, <1>5

\* brelse preserves the invariant if it uncounts the process.
LEMMA BrelseStep ==
    ASSUME CacheInv, NEW p \in Procs, Brelse(p), Counted', buf'[op[p].b].refcnt \in Nat
    PROVE  CacheInv'
<1>0. PICK b : b = op[p].b
  OBVIOUS
<1>1. /\ pc[p] = "unref" /\ pc' = [pc EXCEPT ![p] = "idle"] /\ op' = [op EXCEPT ![p] = NoOp]
      /\ buf' = [buf EXCEPT ![b].refcnt = @ - 1] /\ (mru' = mru \/ mru' = ToFront(b))
      /\ UNCHANGED <<lock, queue, sent, disk, panic>>
  BY <1>0 DEF Brelse, Goto
<1>2. b \in Buf /\ buf \in [Buf -> BufType] /\ op \in [Procs -> OpType] /\ TypeOK
  BY <1>0, <1>1 DEF CacheInv, LockOK, TypeOK
<1>3. /\ pc' \in [Procs -> Labels] /\ pc'[p] = "idle" /\ \A q \in Procs \ {p} : pc'[q] = pc[q]
  <2>1. "idle" \in Labels
    BY DEF Labels
  <2> QED  BY <1>1, <2>1, Goes, Zenon
<1>4. op' \in [Procs -> OpType] /\ \A q \in Procs \ {p} : op'[q] = op[q]
  <2>1. NoOp \in OpType
    BY DEF NoOp, OpType, Kinds
  <2> QED  BY <1>1, <1>2, <2>1, Zenon
<1>5. /\ buf' \in [Buf -> BufType] /\ \A c \in Buf \ {b} : buf'[c] = buf[c]
      /\ \A c \in Buf : /\ buf'[c].blockno = buf[c].blockno /\ buf'[c].data = buf[c].data
                        /\ buf'[c].valid = buf[c].valid /\ buf'[c].dirty = buf[c].dirty
  <2> DEFINE r == buf[b].refcnt - 1
             e == [buf[b] EXCEPT !.refcnt = r]
  <2>1. r \in Nat
    BY <1>0, <1>1, <1>2 DEF BufType
  <2>2. buf' = [buf EXCEPT ![b] = e]
    BY <1>1, <1>2, Zenon DEF BufType
  <2> HIDE DEF r
  <2>3. /\ e \in BufType /\ e.blockno = buf[b].blockno /\ e.data = buf[b].data
        /\ e.valid = buf[b].valid /\ e.dirty = buf[b].dirty
    BY <1>2, <2>1, Zenon DEF BufType
  <2> HIDE DEF e
  <2>4. buf' \in [Buf -> BufType] /\ buf'[b] = e /\ \A c \in Buf \ {b} : buf'[c] = buf[c]
    BY <1>2, <2>2, <2>3, Zenon
  <2> QED  BY <2>3, <2>4, Zenon
<1>6. TypeOK'
  <2>1. mru' \in [Buf -> Buf] /\ \A c \in Buf : \E i \in Buf : mru'[i] = c
    <3>1. CASE mru' = mru
      BY <1>2, <3>1, Zenon DEF TypeOK
    <3>2. CASE mru' = ToFront(b)
      BY <1>2, <3>2, ToFrontAll, Zenon
    <3> QED  BY <1>1, <3>1, <3>2
  <2> QED  BY <1>1, <1>2, <1>3, <1>4, <1>5, <2>1, Zenon DEF TypeOK
<1>7. LockOK'
  <2>1. LockOK /\ lock' = lock
    BY <1>1 DEF CacheInv
  <2>2. pc[p] \notin Holding /\ pc'[p] \notin Holding
    BY <1>1, <1>3 DEF Holding
  <2>3. \A c \in Buf : lock[c] # NoProc => lock[c] \in Procs \ {p}
    BY <2>1, <2>2 DEF CacheInv, TypeOK, LockOK
  <2>4. ASSUME NEW q \in Procs, pc'[q] # "idle"
        PROVE  op'[q].b \in Buf /\ buf'[op'[q].b].blockno # NoBlock
    <3>1. op'[q] = op[q] /\ pc[q] # "idle"
      BY <1>3, <1>4, <2>4
    <3>2. op[q].b \in Buf /\ buf[op[q].b].blockno # NoBlock
      BY <2>1, <3>1, Zenon DEF LockOK
    <3> QED  BY <1>5, <3>1, <3>2
  <2>5. ASSUME NEW q \in Procs, pc'[q] \in Holding PROVE lock'[op'[q].b] = q
    <3>1. op'[q] = op[q] /\ pc[q] \in Holding
      BY <1>3, <1>4, <2>2, <2>5, Zenon
    <3> QED  BY <2>1, <3>1, Zenon DEF LockOK
  <2>6. ASSUME NEW c \in Buf, lock'[c] # NoProc PROVE pc'[lock'[c]] \in Holding /\ op'[lock'[c]].b = c
    <3>1. lock'[c] \in Procs \ {p} /\ lock'[c] = lock[c]
      BY <2>1, <2>3, <2>6, Zenon
    <3>2. pc[lock[c]] \in Holding /\ op[lock[c]].b = c
      BY <2>1, <2>6, Zenon DEF LockOK
    <3> QED  BY <1>3, <1>4, <3>1, <3>2, Zenon
  <2> QED  BY <2>4, <2>5, <2>6, Zenon DEF LockOK
<1>8. CachedOnce'
  BY <1>5 DEF CacheInv, CachedOnce
<1>9. DataOK'
  <2>1. DataOK /\ lock' = lock /\ disk' = disk
    BY <1>1 DEF CacheInv
  <2> QED  BY <1>5, <2>1, ZenonT(30) DEF DataOK
<1>10. FlagsOK'
  <2>1. ASSUME NEW q \in Procs \ {p} PROVE Flags(q)'
    <3>1. pc[q] \in Holding => op[q].b \in Buf
      BY Owner, Zenon
    <3> QED  BY <1>3, <1>4, <1>5, <3>1, SameFlags, Zenon
  <2>2. Flags(p)'
    BY <1>3 DEF Flags
  <2> QED  BY <2>1, <2>2, Zenon DEF FlagsOK
<1>11. QueueOK'
  <2>1. \A i \in 1..Len(queue) : queue[i] \in Buf /\ lock[queue[i]] \in Procs \ {p}
    BY <1>1, Queued, NotQueued
  <2> QED  BY <1>1, <1>3, <1>5, <2>1, SameQueue, Zenon
<1>12. ~panic'
  BY <1>1, Zenon DEF CacheInv
<1> QED  BY <1>6, <1>7, <1>8, <1>9, <1>10, <1>11, <1>12, Zenon DEF CacheInv

-----------------------------------------------------------------------------
\* What a buffer says of its block.
Copy(b) == IF buf[b].valid \/ buf[b].dirty THEN buf[b].data ELSE disk[buf[b].blockno]

\* Content and Holder by the one buffer that a block is in.
View ==
    /\ Content = [k \in Blocks |-> Content[k]] /\ Holder = [k \in Blocks |-> Holder[k]]
    /\ \A b \in Buf : buf[b].blockno \in Blocks =>
          Content[buf[b].blockno] = Copy(b) /\ Holder[buf[b].blockno] = lock[b]
    /\ \A k \in Blocks : (\A b \in Buf : buf[b].blockno # k) =>
          Content[k] = disk[k] /\ Holder[k] = NoProc

\* A block is in at most one buffer, so that the refinement mapping has nothing to choose.
LEMMA ViewHolds == CacheInv => View
<1> SUFFICES ASSUME CacheInv PROVE View
  OBVIOUS
<1>1. Content = [k \in Blocks |-> Content[k]] /\ Holder = [k \in Blocks |-> Holder[k]]
  BY DEF Content, Holder
<1>2. ASSUME NEW b \in Buf, buf[b].blockno \in Blocks
      PROVE  Content[buf[b].blockno] = Copy(b) /\ Holder[buf[b].blockno] = lock[b]
  <2> DEFINE k == buf[b].blockno
  <2>1. Cached(k) = {b}
    BY <1>2, CacheAssumption DEF CacheAssumption, CacheInv, CachedOnce, Cached
  <2>2. Content[k] = Copy(b)
    BY <1>2, <2>1 DEF Content, Copy
  <2>3. Holder[k] = lock[b]
    BY <1>2, <2>1 DEF Holder
  <2> QED  BY <2>2, <2>3
<1>3. ASSUME NEW k \in Blocks, \A b \in Buf : buf[b].blockno # k
      PROVE  Content[k] = disk[k] /\ Holder[k] = NoProc
  <2>1. Cached(k) = {}
    BY <1>3 DEF Cached
  <2> QED  BY <2>1 DEF Content, Holder
<1> QED  BY <1>1, <1>2, <1>3, Zenon DEF View

\* The same in the next state.
LEMMA ViewNext == CacheInv' => View'
BY ViewHolds, PTL

\* A buffer that a step does not touch keeps its copy.
LEMMA SameCopy ==
    ASSUME NEW b \in Buf, buf'[b] = buf[b], disk'[buf[b].blockno] = disk[buf[b].blockno]
    PROVE  Copy(b)' = Copy(b)
BY ZenonT(30) DEF Copy

\* A step that leaves the buffers where they are, their copies and the rest of the disk alone
\* does not change the contents.
LEMMA SameContent ==
    ASSUME View, View',
           \A b \in Buf : buf'[b].blockno = buf[b].blockno,
           \A b \in Buf : buf[b].blockno \in Blocks => Copy(b)' = Copy(b),
           \A k \in Blocks : (\A b \in Buf : buf[b].blockno # k) => disk'[k] = disk[k]
    PROVE  Content' = Content
<1>1. ASSUME NEW k \in Blocks PROVE Content'[k] = Content[k]
  <2>1. CASE \A b \in Buf : buf[b].blockno # k
    BY <2>1 DEF View
  <2>2. ASSUME NEW b \in Buf, buf[b].blockno = k PROVE Content'[k] = Content[k]
    BY <2>2 DEF View
  <2> QED  BY <2>1, <2>2
<1> QED  BY <1>1, Zenon DEF View

\* A step that leaves the buffers and their locks where they are does not change who holds
\* which block.
LEMMA SameHolder ==
    ASSUME View, View',
           \A b \in Buf : buf'[b].blockno = buf[b].blockno /\ lock'[b] = lock[b]
    PROVE  Holder' = Holder
<1>1. ASSUME NEW k \in Blocks PROVE Holder'[k] = Holder[k]
  <2>1. CASE \A b \in Buf : buf[b].blockno # k
    BY <2>1 DEF View
  <2>2. ASSUME NEW b \in Buf, buf[b].blockno = k PROVE Holder'[k] = Holder[k]
    <3>1. buf[b].blockno = k /\ buf'[b].blockno = k /\ lock'[b] = lock[b]
      BY <2>2
    <3>2. Holder[k] = lock[b]
      BY <3>1, ZenonT(30) DEF View
    <3>3. Holder'[k] = lock'[b]
      BY <3>1 DEF View
    <3> QED  BY <3>1, <3>2, <3>3
  <2> QED  BY <2>1, <2>2
<1> QED  BY <1>1 DEF View

\* acquiresleep and releasesleep: the holder of one block changes.
LEMMA OneHolder ==
    ASSUME CacheInv, View, View', NEW b \in Buf, buf[b].blockno \in Blocks, NEW o,
           UNCHANGED <<buf, disk>>, lock' = [lock EXCEPT ![b] = o]
    PROVE  Content' = Content /\ Holder' = [Holder EXCEPT ![buf[b].blockno] = o]
<1> DEFINE j == buf[b].blockno
<1>1. Content' = Content
  BY DEF Content, Cached
<1>2. lock'[b] = o /\ \A c \in Buf \ {b} : lock'[c] = lock[c]
  BY DEF CacheInv, TypeOK
<1>3. ASSUME NEW k \in Blocks PROVE Holder'[k] = IF k = j THEN o ELSE Holder[k]
  <2>1. CASE \A c \in Buf : buf[c].blockno # k
    BY <2>1 DEF View
  <2>2. ASSUME NEW c \in Buf, buf[c].blockno = k PROVE Holder'[k] = IF k = j THEN o ELSE Holder[k]
    <3>1. k = j <=> c = b
      BY <2>2, CacheAssumption DEF CacheAssumption, CacheInv, CachedOnce
    <3>2. Holder'[k] = lock'[c] /\ Holder[k] = lock[c]
      BY <2>2, ZenonT(30) DEF View
    <3> QED  BY <1>2, <3>1, <3>2
  <2> QED  BY <2>1, <2>2
<1> QED  BY <1>1, <1>3 DEF View

\* The end of a request changes neither the contents nor the holder of any block.
LEMMA FinishedRefines ==
    ASSUME CacheInv, View, View', NEW p \in Procs, pc[p] \in {"iderw", "rwsleep"},
           NEW v \in Vals, EndsRequest(p, v)
    PROVE  Content' = Content /\ Holder' = Holder
<1>0. PICK b \in Buf, k \in Blocks : b = op[p].b /\ k = buf[b].blockno
  BY Owner, ZenonT(30) DEF Holding
<1>1. ~(buf[b].valid /\ ~buf[b].dirty)
  BY <1>0 DEF CacheInv, FlagsOK, Flags
<1>2. /\ \A c \in Buf \ {b} : buf'[c] = buf[c]
      /\ \A c \in Buf : buf'[c].blockno = buf[c].blockno
      /\ buf'[b].valid /\ buf'[b].data = v /\ v = IF buf[b].dirty THEN buf[b].data ELSE disk[k]
      /\ \A j \in Blocks \ {k} : disk'[j] = disk[j]
      /\ UNCHANGED lock
  BY <1>0, Finished, ZenonT(30)
<1>3. Copy(b)' = Copy(b)
  BY <1>0, <1>1, <1>2, Zenon DEF Copy
<1>4. ASSUME NEW c \in Buf \ {b}, buf[c].blockno \in Blocks PROVE Copy(c)' = Copy(c)
  <2>1. buf[c].blockno # k
    BY <1>0, <1>4, CacheAssumption DEF CacheAssumption, CacheInv, CachedOnce
  <2>2. buf'[c] = buf[c] /\ disk'[buf[c].blockno] = disk[buf[c].blockno]
    BY <1>2, <1>4, <2>1, Zenon
  <2> QED  BY <2>2, SameCopy, Zenon
<1>5. Content' = Content
  <2>1. \A c \in Buf : buf[c].blockno \in Blocks => Copy(c)' = Copy(c)
    BY <1>3, <1>4, Zenon
  <2>2. \A j \in Blocks : (\A c \in Buf : buf[c].blockno # j) => disk'[j] = disk[j]
    BY <1>0, <1>2, Zenon
  <2> QED  BY <1>2, <2>1, <2>2, SameContent, Zenon
<1>6. Holder' = Holder
  BY <1>2, SameHolder, Zenon
<1> QED  BY <1>5, <1>6

\* A step of the cache alone.
LEMMA Unseen ==
    ASSUME UNCHANGED <<buf, lock, disk>>
    PROVE  Content' = Content /\ Holder' = Holder
BY Zenon DEF Content, Holder, Cached

\* acquiresleep takes the block, or waits for it.
LEMMA AcquireSleepRefines ==
    ASSUME CacheInv, View, View', NEW p \in Procs, AcquireSleep(p)
    PROVE  Abs!Next \/ (Content' = Content /\ Holder' = Holder)
<1> DEFINE b == op[p].b
           k == buf[b].blockno
<1>1. b \in Buf /\ k \in Blocks /\ UNCHANGED <<buf, disk>>
  <2>1. pc[p] = "lock" /\ UNCHANGED <<buf, disk>>
    BY ZenonT(30) DEF AcquireSleep
  <2>2. b \in Buf /\ k # NoBlock
    BY <2>1 DEF CacheInv, LockOK
  <2>3. buf[b] \in BufType
    BY <2>2 DEF CacheInv, TypeOK
  <2> QED  BY <2>1, <2>2, <2>3, Zenon DEF BufType
<1>2. CASE lock[b] # NoProc
  BY <1>1, <1>2, Unseen, Zenon DEF AcquireSleep
<1>3. CASE lock[b] = NoProc
  <2>1. lock' = [lock EXCEPT ![b] = p]
    BY <1>3 DEF AcquireSleep
  <2>2. Content' = Content /\ Holder' = [Holder EXCEPT ![k] = p]
    BY <1>1, <2>1, OneHolder, Zenon
  <2>3. Holder[k] = NoProc
    BY <1>1, <1>3, ZenonT(30) DEF View
  <2>4. Abs!Hold(p, k)
    BY <2>2, <2>3 DEF Abs!Hold
  <2> HIDE DEF k
  <2> QED  BY <1>1, <2>4 DEF Abs!Next
<1> QED  BY <1>2, <1>3

\* The caller of bread or bget changes the block that it holds.
LEMMA UseRefines ==
    ASSUME CacheInv, View, View', NEW p \in Procs, Use(p)
    PROVE  Abs!Next \/ (Content' = Content /\ Holder' = Holder)
<1>0. PICK b \in Buf, k \in Blocks : b = op[p].b /\ k = buf[b].blockno
  BY Owner DEF Use, Holding
<1>1. lock[b] # NoProc /\ UNCHANGED <<lock, disk>> /\ buf \in [Buf -> BufType]
  BY <1>0, Owner DEF Use, Holding, CacheInv, TypeOK
<1>2. CASE op[p].kind = "read"
  BY <1>1, <1>2, Unseen DEF Use
<1>3. CASE op[p].kind # "read"
  <2>1. PICK v \in Vals : buf' = [buf EXCEPT ![b].data = v, ![b].dirty = TRUE]
    BY <1>0, <1>3 DEF Use
  <2>2. /\ \A c \in Buf : buf'[c].blockno = buf[c].blockno
        /\ \A c \in Buf \ {b} : buf'[c] = buf[c]
        /\ buf'[b].data = v /\ buf'[b].dirty = TRUE
    BY <1>1, <2>1 DEF BufType
  <2>3. Copy(b)' = v
    BY <2>2 DEF Copy
  <2>4. Holder' = Holder
    BY <1>1, <2>2, SameHolder, Zenon
  <2>5. ASSUME NEW j \in Blocks PROVE Content'[j] = IF j = k THEN v ELSE Content[j]
    <3>1. CASE \A c \in Buf : buf[c].blockno # j
      <4>1. Content[j] = disk[j] /\ j # k
        BY <1>0, <3>1 DEF View
      <4>2. Content'[j] = disk'[j]
        BY <2>2, <3>1 DEF View
      <4> QED  BY <1>1, <4>1, <4>2
    <3>2. CASE j = k
      <4>1. buf'[b].blockno = j
        BY <1>0, <2>2, <3>2
      <4>2. Content'[j] = Copy(b)'
        BY <1>1, <4>1 DEF View
      <4> QED  BY <2>3, <3>2, <4>2
    <3>3. ASSUME NEW c \in Buf, buf[c].blockno = j, j # k PROVE Content'[j] = Content[j]
      <4>1. buf'[c] = buf[c] /\ Copy(c)' = Copy(c)
        BY <1>0, <1>1, <2>2, <3>3, SameCopy
      <4>2. Content[j] = Copy(c)
        BY <3>3 DEF View
      <4>3. Content'[j] = Copy(c)'
        BY <3>3, <4>1 DEF View
      <4> QED  BY <4>1, <4>2, <4>3, ZenonT(30)
    <3> QED  BY <3>1, <3>2, <3>3, Zenon
  <2>6. Content' = [Content EXCEPT ![k] = v]
    BY <2>5 DEF View
  <2>7. Holder[k] # NoProc
    BY <1>0, <1>1, Zenon DEF View
  <2>8. Abs!Change(k, v)
    BY <2>4, <2>6, <2>7 DEF Abs!Change
  <2> QED  BY <2>8 DEF Abs!Next
<1> QED  BY <1>2, <1>3

\* releasesleep gives the block up.
LEMMA ReleaseSleepRefines ==
    ASSUME CacheInv, View, View', NEW p \in Procs, ReleaseSleep(p)
    PROVE  Abs!Next
<1> DEFINE b == op[p].b
           k == buf[b].blockno
<1>1. b \in Buf /\ k \in Blocks
  BY Owner DEF ReleaseSleep, Holding
<1>2. lock' = [lock EXCEPT ![b] = NoProc] /\ UNCHANGED <<buf, disk>>
  BY DEF ReleaseSleep
<1>3. Content' = Content /\ Holder' = [Holder EXCEPT ![k] = NoProc]
  BY <1>1, <1>2, OneHolder, ZenonT(30)
<1>4. Abs!Release(k)
  BY <1>3 DEF Abs!Release
<1> HIDE DEF k
<1> QED  BY <1>1, <1>4 DEF Abs!Next

\* A request of the memory disk.
LEMMA MemIderwRefines ==
    ASSUME CacheInv, View, View', NEW p \in Procs, MemIderw(p)
    PROVE  Content' = Content /\ Holder' = Holder
<1>1. pc[p] \in {"iderw", "rwsleep"}
  BY DEF MemIderw
<1> QED  BY <1>1, MemIderwEnds, FinishedRefines, ZenonT(30)

\* A request that the disk has finished.
LEMMA IdeintrRefines ==
    ASSUME CacheInv, View, View', Ideintr
    PROVE  Content' = Content /\ Holder' = Holder
<1> DEFINE p == lock[Head(queue)]
<1>1. p \in Procs /\ pc[p] = "rwsleep" /\ \E v \in Vals : EndsRequest(p, v)
  BY IdeintrEnds, Zenon
<1>2. pc[p] \in {"iderw", "rwsleep"}
  BY <1>1
<1> QED  BY <1>1, <1>2, FinishedRefines, Zenon

\* brelse changes only the count and the list.
LEMMA BrelseRefines ==
    ASSUME CacheInv, View, View', NEW p \in Procs, Brelse(p)
    PROVE  Content' = Content /\ Holder' = Holder
<1> DEFINE b == op[p].b
<1>1. /\ b \in Buf /\ buf \in [Buf -> BufType] /\ UNCHANGED <<lock, disk>>
      /\ buf' = [buf EXCEPT ![b].refcnt = @ - 1]
  BY DEF Brelse, CacheInv, LockOK, TypeOK
<1>2. \A c \in Buf : /\ buf'[c].blockno = buf[c].blockno /\ buf'[c].data = buf[c].data
                     /\ buf'[c].valid = buf[c].valid /\ buf'[c].dirty = buf[c].dirty
  BY <1>1 DEF BufType
<1>3. \A c \in Buf : Copy(c)' = Copy(c)
  BY <1>1, <1>2 DEF Copy
<1> QED  BY <1>1, <1>2, <1>3, SameContent, SameHolder

-----------------------------------------------------------------------------
\* A set of numbers up to n has a largest element.
LEMMA Largest ==
    ASSUME NEW n \in Nat, NEW S \in SUBSET (1..n), S # {}
    PROVE  \E i \in S : \A j \in S : j <= i
<1> DEFINE T == {m \in Nat : n - m \in S}
           R == OpToRel(<, Nat)
<1>1. T \subseteq Nat /\ T # {}
  <2>1. PICK i \in S : TRUE
    BY Zenon
  <2>2. n - i \in Nat /\ n - (n - i) = i
    BY <2>1
  <2> QED  BY <2>1, <2>2, Zenon
<1>2. PICK x \in T : \A y \in T : ~ (<<y, x>> \in R)
  <2> HIDE DEF T, R
  <2> QED  BY <1>1, WFMin, NatLessThanWellFounded, Zenon DEF R
<1>3. \A y \in T : x <= y
  <2> SUFFICES ASSUME NEW y \in T, y < x PROVE FALSE
    OBVIOUS
  <2> DEFINE z == <<y, x>>
  <2>1. z \in Nat \X Nat /\ z[1] = y /\ z[2] = x
    OBVIOUS
  <2>2. z \in R
    <3> HIDE DEF z
    <3> QED  BY <2>1 DEF OpToRel
  <2> QED  BY <1>2, <2>2, Zenon
<1>4. n - x \in S
  OBVIOUS
<1>5. \A j \in S : j <= n - x
  <2> SUFFICES ASSUME NEW j \in S PROVE j <= n - x
    OBVIOUS
  <2>1. n - j \in Nat /\ n - (n - j) = j
    OBVIOUS
  <2>2. n - j \in T
    BY <2>1
  <2> QED  BY <1>3, <2>1, <2>2
<1> QED  BY <1>4, <1>5

\* The processes that hold or wait for a buffer can be counted.
LEMMA UsersFinite == ASSUME NEW b PROVE IsFiniteSet(Users(b)) /\ Cardinality(Users(b)) \in Nat
<1>1. Users(b) \in SUBSET Procs
  BY DEF Users
<1> QED  BY <1>1, CacheAssumption, FS_Subset, FS_CardinalityType DEF CacheAssumption

\* bget counts the process that takes the buffer.
LEMMA OneMore ==
    ASSUME Counted, NEW p \in Procs, NEW b \in Buf, pc[p] = "idle", pc'[p] # "idle",
           op'[p].b = b, buf'[b].refcnt = Cardinality(Users(b)) + 1,
           \A q \in Procs \ {p} : pc'[q] = pc[q] /\ op'[q] = op[q],
           \A c \in Buf \ {b} : buf'[c].refcnt = buf[c].refcnt
    PROVE  Counted'
<1>1. \A c \in Buf \ {b} : Users(c)' = Users(c)
  BY DEF Users
<1>2. Users(b)' = Users(b) \cup {p} /\ p \notin Users(b)
  BY DEF Users
<1>3. Cardinality(Users(b)') = Cardinality(Users(b)) + 1
  BY <1>2, UsersFinite, FS_AddElement, ZenonT(30)
<1> QED  BY <1>1, <1>3 DEF Counted

\* brelse uncounts the process that gives the buffer back.
LEMMA OneLess ==
    ASSUME Counted, NEW p \in Procs, NEW b \in Buf, pc[p] # "idle", pc'[p] = "idle",
           op[p].b = b, buf'[b].refcnt = buf[b].refcnt - 1,
           \A q \in Procs \ {p} : pc'[q] = pc[q] /\ op'[q] = op[q],
           \A c \in Buf \ {b} : buf'[c].refcnt = buf[c].refcnt
    PROVE  Counted' /\ buf'[b].refcnt \in Nat
<1>1. \A c \in Buf \ {b} : Users(c)' = Users(c)
  BY DEF Users
<1>2. Users(b)' = Users(b) \ {p} /\ p \in Users(b)
  BY DEF Users
<1>3. Cardinality(Users(b)') = Cardinality(Users(b)) - 1 /\ Cardinality(Users(b)') \in Nat
  BY <1>2, UsersFinite, FS_RemoveElement, FS_CardinalityType
<1> QED  BY <1>1, <1>3 DEF Counted

\* The blocks that are in use can be counted.
LEMMA InUseFinite == IsFiniteSet(InUse)
<1> DEFINE S == {q \in Procs : pc[q] # "idle"}
           D == {c \in Buf : buf[c].dirty}
           f == [q \in S |-> buf[op[q].b].blockno]
           g == [c \in D |-> buf[c].blockno]
           F == {buf[op[q].b].blockno : q \in S}
           G == {buf[c].blockno : c \in D}
<1>1. IsFiniteSet(S) /\ IsFiniteSet(D)
  BY CacheAssumption, FS_Subset, FS_Interval DEF CacheAssumption, Buf
<1>2. f \in Surjection(S, F) /\ g \in Surjection(D, G)
  BY DEF Surjection
<1>3. IsFiniteSet(F) /\ IsFiniteSet(G)
  <2> HIDE DEF S, D, f, g, F, G
  <2> QED  BY <1>1, <1>2, FS_Surjection
<1>4. IsFiniteSet(F \cup G)
  <2> HIDE DEF F, G
  <2> QED  BY <1>3, FS_Union, Zenon
<1> QED  BY <1>4 DEF InUse

\* As long as the processes and the log use at most NBUF blocks, bget finds the block or a
\* buffer that it can recycle.
LEMMA Enough ==
    ASSUME CacheInv, NEW k \in Blocks, Cardinality(InUse \cup {k}) <= NBUF, Cached(k) = {},
           ~\E b \in Buf : Recyclable(b)
    PROVE  FALSE
<1> DEFINE f == [b \in Buf |-> buf[b].blockno]
           T == InUse \ {k}
<1>1. ASSUME NEW b \in Buf PROVE buf[b].blockno \in InUse /\ buf[b].blockno # NoBlock
  <2>1. CASE buf[b].dirty
    BY <2>1 DEF CacheInv, DataOK, InUse
  <2>2. CASE buf[b].refcnt # 0
    <3>1. Users(b) # {}
      BY <2>2, FS_EmptySet DEF CacheInv, Counted
    <3>2. PICK q \in Procs : pc[q] # "idle" /\ op[q].b = b
      BY <3>1 DEF Users
    <3> QED  BY <3>2 DEF CacheInv, LockOK, InUse
  <2> QED  BY <2>1, <2>2 DEF Recyclable
<1>2. f \in Injection(Buf, T)
  <2>1. \A b \in Buf : f[b] \in T
    BY <1>1 DEF Cached
  <2>2. \A b, c \in Buf : f[b] = f[c] => b = c
    BY <1>1 DEF CacheInv, CachedOnce
  <2> QED  BY <2>1, <2>2 DEF Injection, IsInjective
<1>3. IsFiniteSet(T) /\ Cardinality(T) \in Nat
  BY InUseFinite, FS_RemoveElement, FS_CardinalityType
<1>4. Cardinality(Buf) = NBUF /\ NBUF \in Nat
  BY CacheAssumption, FS_Interval DEF CacheAssumption, Buf
<1>5. NBUF <= Cardinality(T)
  <2> HIDE DEF f, T
  <2> QED  BY <1>2, <1>3, <1>4, FS_Injection
<1>6. Cardinality(T \cup {k}) = Cardinality(T) + 1
  BY <1>3, FS_AddElement
<1>7. T \cup {k} = InUse \cup {k}
  OBVIOUS
<1> QED  BY <1>3, <1>4, <1>5, <1>6, <1>7

\* binit establishes the invariant.
LEMMA InitInv == Init => CacheInv
<1> SUFFICES ASSUME Init PROVE CacheInv
  OBVIOUS
<1> USE CacheAssumption DEF CacheAssumption
<1>1. \A b : Users(b) = {}
  BY DEF Init, Users
<1>2. Counted
  BY <1>1, FS_EmptySet, Zenon DEF Init, Counted
<1>3. buf \in [Buf -> BufType] /\ \A b \in Buf : ~buf[b].valid /\ ~buf[b].dirty /\ buf[b].blockno = NoBlock
  BY DEF Init, BufType
<1>4. mru \in [Buf -> Buf] /\ \A b \in Buf : \E i \in Buf : mru[i] = b
  <2>1. \A b \in Buf : NBUF + 1 - b \in Buf /\ mru[NBUF + 1 - b] = b
    BY DEF Init, Buf
  <2> QED  BY <2>1 DEF Init, Buf
<1>5. /\ lock \in [Buf -> Procs \cup {NoProc}] /\ queue \in Seq(Buf) /\ sent \in Vals
      /\ disk \in [Blocks -> Vals] /\ ~panic
      /\ pc \in [Procs -> Labels] /\ op \in [Procs -> OpType]
  BY DEF Init, NoOp, Kinds, Labels, OpType
<1>6. LockOK /\ CachedOnce /\ DataOK /\ FlagsOK /\ QueueOK
  BY <1>3 DEF Init, LockOK, CachedOnce, DataOK, FlagsOK, Flags, QueueOK, Holding
<1> QED  BY <1>2, <1>3, <1>4, <1>5, <1>6 DEF CacheInv, TypeOK

\* What the search of bget from the end of the list finds: a buffer that can be recycled.
LEMMA Found ==
    ASSUME CacheInv, \E b \in Buf : Recyclable(b)
    PROVE  LET i == CHOOSE i \in Buf : /\ Recyclable(mru[i])
                                       /\ \A j \in Buf : Recyclable(mru[j]) => j <= i
           IN  mru[i] \in Buf /\ Recyclable(mru[i])
<1> DEFINE S == {i \in Buf : Recyclable(mru[i])}
<1>1. S \in SUBSET (1..NBUF) /\ S # {} /\ NBUF \in Nat
  <2>1. PICK b \in Buf : Recyclable(b)
    OBVIOUS
  <2>2. PICK i \in Buf : mru[i] = b
    BY DEF CacheInv, TypeOK
  <2> QED  BY <2>1, <2>2, CacheAssumption DEF CacheAssumption, Buf
<1>2. PICK i \in S : \A j \in S : j <= i
  <2> HIDE DEF S
  <2> QED  BY <1>1, Largest, Zenon
<1>3. \E i1 \in Buf : Recyclable(mru[i1]) /\ \A j \in Buf : Recyclable(mru[j]) => j <= i1
  BY <1>2
<1> QED  BY <1>3 DEF CacheInv, TypeOK

\* Nobody uses or has locked a buffer whose refcnt is 0.
LEMMA Unused ==
    ASSUME CacheInv, NEW b \in Buf, buf[b].refcnt = 0
    PROVE  Users(b) = {} /\ lock[b] = NoProc
<1>1. Users(b) = {}
  BY UsersFinite, FS_EmptySet DEF CacheInv, Counted
<1> QED  BY <1>1, CacheAssumption DEF CacheAssumption, CacheInv, LockOK, Users, Holding, TypeOK

\* bget preserves the invariant: it counts one more user, and the buffer that it recycles has
\* none and is clean.
LEMMA BgetStep ==
    ASSUME CacheInv, NEW p \in Procs, NEW kind \in Kinds, NEW k \in Blocks, Bget(p, kind, k)
    PROVE  CacheInv'
<1> USE CacheAssumption DEF CacheAssumption
<1>1. Cached(k) # {} \/ \E b \in Buf : Recyclable(b)
  BY Enough, ZenonT(30) DEF Bget
<1>2. PICK b \in Buf :
        /\ op' = [op EXCEPT ![p] = [kind |-> kind, b |-> b, next |-> "have"]]
        /\ \/ buf[b].blockno = k /\ buf' = Hit(b)
           \/ /\ Recyclable(b) /\ Cached(k) = {}
              /\ buf' = [buf EXCEPT ![b].blockno = k, ![b].valid = FALSE, ![b].dirty = FALSE,
                                    ![b].refcnt = 1]
  <2>1. CASE \E b \in Cached(k) :
                /\ buf' = Hit(b)
                /\ op' = [op EXCEPT ![p] = [kind |-> kind, b |-> b, next |-> "have"]]
    BY <2>1, ZenonT(30) DEF Cached
  <2>2. CASE Cached(k) = {} /\ \E b \in Buf : Recyclable(b)
    BY <2>2, Found, Zenon DEF Bget
  <2> QED  BY <1>1, <2>1, <2>2, ZenonT(30) DEF Bget
<1>3. /\ pc[p] = "idle" /\ pc' = [pc EXCEPT ![p] = "lock"] /\ ~panic'
      /\ UNCHANGED <<mru, lock, queue, sent, disk>>
  <2>1. ~(Cached(k) = {} /\ ~\E b1 \in Buf : Recyclable(b1))
    BY <1>1
  <2>2. panic' = panic
    BY <2>1, Zenon DEF Bget
  <2>3. pc[p] = "idle" /\ pc' = [pc EXCEPT ![p] = "lock"]
    BY <2>1, ZenonT(30) DEF Bget, Goto
  <2>4. UNCHANGED <<mru, lock, queue, sent, disk>>
    BY ZenonT(30) DEF Bget
  <2> QED  BY <2>2, <2>3, <2>4, ZenonT(30) DEF CacheInv
<1>4. /\ buf' \in [Buf -> BufType]
      /\ \A c \in Buf \ {b} : buf'[c] = buf[c]
      /\ buf'[b].blockno = k /\ buf'[b].refcnt = Cardinality(Users(b)) + 1
      /\ \/ /\ buf'[b].blockno = buf[b].blockno /\ buf'[b].valid = buf[b].valid
            /\ buf'[b].dirty = buf[b].dirty /\ buf'[b].data = buf[b].data
         \/ /\ Users(b) = {} /\ ~buf'[b].valid /\ ~buf'[b].dirty
            /\ \A c \in Buf : buf[c].blockno # k
  <2>1. buf \in [Buf -> BufType] /\ buf[b].refcnt = Cardinality(Users(b)) /\ buf[b].refcnt \in Nat
    BY DEF CacheInv, TypeOK, Counted, BufType
  <2>2. CASE buf[b].blockno = k /\ buf' = Hit(b)
    <3>1. buf' \in [Buf -> BufType]
      BY <2>1, <2>2 DEF Hit, BufType
    <3> QED  BY <2>1, <2>2, <3>1 DEF Hit, BufType
  <2>3. CASE /\ Recyclable(b) /\ Cached(k) = {}
             /\ buf' = [buf EXCEPT ![b].blockno = k, ![b].valid = FALSE, ![b].dirty = FALSE,
                                   ![b].refcnt = 1]
    <3>1. buf' \in [Buf -> BufType]
      <4> DEFINE e == [buf[b] EXCEPT !.blockno = k, !.valid = FALSE, !.dirty = FALSE, !.refcnt = 1]
      <4>1. e \in BufType
        BY <2>1, Zenon DEF BufType
      <4>2. buf' = [buf EXCEPT ![b] = e]
        BY <2>1, <2>3, ZenonT(30) DEF BufType
      <4> QED  BY <2>1, <4>1, <4>2
    <3>2. Users(b) = {}
      BY <2>3, Unused DEF Recyclable
    <3> QED  BY <2>1, <2>3, <3>1, <3>2 DEF BufType, Recyclable, Cached
  <2> QED  BY <1>2, <2>2, <2>3
<1>5. /\ pc'[p] = "lock" /\ op'[p].b = b /\ op'[p].next = "have"
      /\ \A q \in Procs \ {p} : pc'[q] = pc[q] /\ op'[q] = op[q]
      /\ pc' \in [Procs -> Labels] /\ op' \in [Procs -> OpType]
  <2>1. op \in [Procs -> OpType] /\ "lock" \in Labels
    BY DEF CacheInv, TypeOK, Labels
  <2>2. pc' \in [Procs -> Labels] /\ pc'[p] = "lock" /\ \A q \in Procs \ {p} : pc'[q] = pc[q]
    BY <1>3, <2>1, Goes, ZenonT(30)
  <2>3. [kind |-> kind, b |-> b, next |-> "have"] \in OpType
    BY DEF OpType
  <2>4. op' \in [Procs -> OpType] /\ op'[p] = [kind |-> kind, b |-> b, next |-> "have"]
        /\ \A q \in Procs \ {p} : op'[q] = op[q]
    BY <1>2, <2>1, <2>3, ZenonT(30)
  <2> QED  BY <2>2, <2>4
<1>6. ASSUME NEW q \in Procs \ {p}, pc[q] # "idle", op[q].b = b
      PROVE  buf'[b].valid = buf[b].valid /\ buf'[b].dirty = buf[b].dirty /\ buf'[b].data = buf[b].data
  <2>1. q \in Users(b)
    BY <1>6 DEF Users
  <2> QED  BY <1>4, <2>1, ZenonT(30)
<1>7. \A q \in Procs \ {p} : pc[q] \in Holding /\ op[q].b = b =>
         buf'[b].valid = buf[b].valid /\ buf'[b].dirty = buf[b].dirty /\ buf'[b].data = buf[b].data
  BY <1>6 DEF Holding
<1>8. TypeOK'
  BY <1>3, <1>4, <1>5, ZenonT(30) DEF CacheInv, TypeOK
<1>9. LockOK'
  <2>1. LockOK /\ lock' = lock /\ \A c \in Buf : lock[c] # NoProc => lock[c] \in Procs
    BY <1>3 DEF CacheInv, TypeOK
  <2>2. pc[p] \notin Holding /\ pc'[p] \notin Holding
    BY <1>3, <1>5 DEF Holding
  <2>3. ASSUME NEW q \in Procs, pc'[q] # "idle"
        PROVE  op'[q].b \in Buf /\ buf'[op'[q].b].blockno # NoBlock
    <3>1. k # NoBlock
      OBVIOUS
    <3>2. CASE q = p
      BY <1>4, <1>5, <3>1, <3>2
    <3>3. CASE q # p
      <4>1. op'[q].b = op[q].b /\ op[q].b \in Buf /\ buf[op[q].b].blockno # NoBlock
        BY <1>5, <2>1, <2>3, <3>3, ZenonT(30) DEF LockOK
      <4> QED  BY <1>4, <3>1, <4>1
    <3> QED  BY <3>2, <3>3
  <2>4. ASSUME NEW q \in Procs, pc'[q] \in Holding PROVE lock'[op'[q].b] = q
    <3>1. op'[q] = op[q] /\ pc[q] \in Holding
      BY <1>5, <2>2, <2>4, ZenonT(30)
    <3> QED  BY <2>1, <3>1, Zenon DEF LockOK
  <2>5. ASSUME NEW c \in Buf, lock'[c] # NoProc PROVE pc'[lock'[c]] \in Holding /\ op'[lock'[c]].b = c
    <3>1. lock'[c] = lock[c] /\ lock[c] \in Procs /\ pc[lock[c]] \in Holding /\ op[lock[c]].b = c
      BY <2>1, <2>5, Zenon DEF LockOK
    <3>2. lock[c] \in Procs \ {p}
      BY <2>2, <3>1, ZenonT(30)
    <3> QED  BY <1>5, <3>1, <3>2, ZenonT(30)
  <2> QED  BY <2>3, <2>4, <2>5, Zenon DEF LockOK
<1>10. CachedOnce'
  BY <1>4 DEF CacheInv, CachedOnce
<1>11. DataOK'
  <2>1. DataOK /\ lock' = lock /\ disk' = disk
    BY <1>3 DEF CacheInv
  <2> QED  BY <1>4, <2>1 DEF DataOK
<1>12. FlagsOK'
  <2>1. ASSUME NEW q \in Procs \ {p} PROVE Flags(q)'
    <3>1. pc[q] \in Holding => op[q].b \in Buf
      BY Owner, Zenon
    <3>2. pc[q] \in Holding => /\ buf'[op[q].b].valid = buf[op[q].b].valid
                               /\ buf'[op[q].b].dirty = buf[op[q].b].dirty
      BY <1>4, <1>7, <3>1, ZenonT(30)
    <3> QED  BY <1>5, <3>2, SameFlags, ZenonT(30)
  <2>2. Flags(p)'
    BY <1>5 DEF Flags
  <2> QED  BY <2>1, <2>2, ZenonT(30) DEF FlagsOK
<1>13. QueueOK'
  <2>1. ASSUME NEW i \in 1..Len(queue)
        PROVE  /\ lock'[queue[i]] = lock[queue[i]] /\ pc'[lock[queue[i]]] = pc[lock[queue[i]]]
               /\ buf'[queue[i]].data = buf[queue[i]].data
    <3>1. /\ queue[i] \in Buf /\ lock[queue[i]] \in Procs \ {p} /\ pc[lock[queue[i]]] = "rwsleep"
          /\ op[lock[queue[i]]].b = queue[i]
      BY <1>3, Queued, NotQueued
    <3>2. pc[lock[queue[i]]] \in Holding
      BY <3>1 DEF Holding
    <3>3. buf'[queue[i]].data = buf[queue[i]].data
      BY <1>4, <1>7, <3>1, <3>2, ZenonT(30)
    <3> QED  BY <1>3, <1>5, <3>1, <3>3, ZenonT(30)
  <2> QED  BY <1>3, <2>1, SameQueue, ZenonT(30)
<1>14. Counted'
  BY <1>3, <1>4, <1>5, OneMore DEF CacheInv
<1> QED  BY <1>3, <1>8, <1>9, <1>10, <1>11, <1>12, <1>13, <1>14, ZenonT(30) DEF CacheInv

\* brelse uncounts the process and preserves the invariant.
LEMMA BrelseCounts ==
    ASSUME CacheInv, NEW p \in Procs, Brelse(p)
    PROVE  CacheInv'
<1> DEFINE b == op[p].b
<1>1. /\ pc[p] = "unref" /\ pc' = [pc EXCEPT ![p] = "idle"] /\ op' = [op EXCEPT ![p] = NoOp]
      /\ buf' = [buf EXCEPT ![b].refcnt = @ - 1]
  BY DEF Brelse, Goto
<1>2. b \in Buf /\ buf \in [Buf -> BufType] /\ Counted
  BY <1>1 DEF CacheInv, LockOK, TypeOK
<1>3. pc'[p] = "idle" /\ \A q \in Procs \ {p} : pc'[q] = pc[q] /\ op'[q] = op[q]
  BY <1>1 DEF CacheInv, TypeOK
<1>4. /\ buf'[b].refcnt = buf[b].refcnt - 1
      /\ \A c \in Buf \ {b} : buf'[c].refcnt = buf[c].refcnt
  BY <1>1, <1>2 DEF BufType
<1>5. Counted' /\ buf'[b].refcnt \in Nat
  <2>1. op[p].b = b /\ pc[p] # "idle"
    BY <1>1
  <2> HIDE DEF b
  <2> QED  BY <1>2, <1>3, <1>4, <2>1, OneLess
<1> QED  BY <1>5, BrelseStep, Zenon

\* Every step preserves the invariant.
LEMMA NextInv == CacheInv /\ [Next]_vars => CacheInv'
<1> SUFFICES ASSUME CacheInv, [Next]_vars PROVE CacheInv'
  OBVIOUS
<1>1. CASE UNCHANGED vars
  <2>1. ~panic'
    BY <1>1, Zenon DEF CacheInv, vars
  <2>2. UNCHANGED <<buf, mru, lock, queue, sent, disk, pc, op>>
    BY <1>1 DEF vars
  <2>3. Counted'
    BY <2>2, SameUsers DEF CacheInv
  <2>4. TypeOK' /\ LockOK' /\ CachedOnce'
    BY <2>2, ZenonT(30) DEF CacheInv, TypeOK, LockOK, CachedOnce
  <2>5. DataOK' /\ FlagsOK' /\ QueueOK'
    BY <2>2 DEF CacheInv, DataOK, FlagsOK, Flags, QueueOK
  <2> QED  BY <2>1, <2>3, <2>4, <2>5 DEF CacheInv
<1>2. CASE Idle
  BY <1>1, <1>2 DEF Idle
<1>3. ASSUME NEW p \in Procs, Step(p) PROVE CacheInv'
  BY <1>3, AcquireSleepStep, UseStep, IderwStep, MemIderwStep, RwTestStep, ReleaseSleepStep,
     BrelseCounts, Zenon DEF Step
<1>4. ASSUME NEW p \in Procs, NEW kind \in Kinds, NEW k \in Blocks, Bget(p, kind, k) PROVE CacheInv'
  BY <1>4, BgetStep, Zenon
<1> QED  BY <1>1, <1>2, <1>3, <1>4, IdeintrStep, ZenonT(30) DEF Next

\* The invariant of the buffer cache holds in every reachable state, for any number of
\* processes, buffers and blocks and for both disk drivers (bio.c, ide.c, memide.c).
THEOREM CacheInvariant == Spec => []CacheInv
BY InitInv, NextInv, PTL DEF Spec

\* For any number of processes and buffers refcnt counts the users of a buffer, and the
\* requests in the queue of the disk are distinct and have owners that sleep (bget, brelse,
\* iderw, ideintr).
THEOREM RefcntExact == Spec => []CountsExact
<1>1. CacheInv => CountsExact
  <2> SUFFICES ASSUME CacheInv PROVE CountsExact
    OBVIOUS
  <2>1. DOMAIN queue = 1..Len(queue)
    BY DEF CacheInv, TypeOK
  <2>2. \A b \in Range(queue) : lock[b] # NoProc /\ pc[lock[b]] = "rwsleep"
    BY <2>1 DEF CacheInv, QueueOK, Range
  <2> QED  BY <2>1, <2>2 DEF CacheInv, Counted, QueueOK, CountsExact
<1> QED  BY <1>1, CacheInvariant, PTL

\* For any number of processes and buffers: while no more than NBUF blocks are in use or
\* pinned, bget always finds a buffer and iderw always has something to do, so that neither
\* panics.
THEOREM NoCachePanic == Spec => []BuffersSuffice
<1>1. CacheInv => BuffersSuffice
  BY Zenon DEF CacheInv, BuffersSuffice
<1> QED  BY <1>1, CacheInvariant, PTL

\* bget changes neither the contents nor the holder of any block: what it recycles is the
\* same on the disk.
LEMMA BgetRefines ==
    ASSUME CacheInv, CacheInv', View, View', NEW p \in Procs, NEW kind \in Kinds, NEW k \in Blocks,
           Bget(p, kind, k)
    PROVE  Content' = Content /\ Holder' = Holder
<1> USE CacheAssumption DEF CacheAssumption
<1>1. UNCHANGED <<lock, disk>> /\ buf \in [Buf -> BufType]
  BY ZenonT(30) DEF Bget, CacheInv, TypeOK
<1>2. CASE \E b \in Cached(k) : buf' = Hit(b)
  <2>1. PICK b \in Cached(k) : buf' = Hit(b)
    BY <1>2
  <2>2. \A c \in Buf : /\ buf'[c].blockno = buf[c].blockno /\ buf'[c].data = buf[c].data
                       /\ buf'[c].valid = buf[c].valid /\ buf'[c].dirty = buf[c].dirty
    BY <1>1, <2>1 DEF Hit, BufType
  <2>3. \A c \in Buf : Copy(c)' = Copy(c)
    BY <1>1, <2>2 DEF Copy
  <2> QED  BY <1>1, <2>2, <2>3, SameContent, SameHolder
<1>3. CASE buf' = buf
  BY <1>1, <1>3 DEF Content, Holder, Cached
<1>4. CASE /\ Cached(k) = {} /\ \E b \in Buf : Recyclable(b)
           /\ LET b == mru[CHOOSE i \in Buf : /\ Recyclable(mru[i])
                                              /\ \A j \in Buf : Recyclable(mru[j]) => j <= i]
              IN  buf' = [buf EXCEPT ![b].blockno = k, ![b].valid = FALSE, ![b].dirty = FALSE,
                                     ![b].refcnt = 1]
  <2>1. PICK b \in Buf :
          /\ Recyclable(b)
          /\ buf' = [buf EXCEPT ![b].blockno = k, ![b].valid = FALSE, ![b].dirty = FALSE,
                                ![b].refcnt = 1]
    BY <1>4, Found, ZenonT(30)
  <2>2. /\ buf'[b].blockno = k /\ ~buf'[b].valid /\ ~buf'[b].dirty
        /\ \A c \in Buf \ {b} : buf'[c] = buf[c]
        /\ \A c \in Buf : buf[c].blockno # k
    <3>1. buf \in [Buf -> BufType] /\ Cached(k) = {}
      BY <1>1, <1>4, Zenon
    <3>2. /\ buf'[b].blockno = k /\ buf'[b].valid = FALSE /\ buf'[b].dirty = FALSE
          /\ \A c \in Buf \ {b} : buf'[c] = buf[c]
      BY <2>1, <3>1 DEF BufType
    <3>3. \A c \in Buf : buf[c].blockno # k
      BY <3>1 DEF Cached
    <3> QED  BY <3>2, <3>3
  <2>3. lock[b] = NoProc
    BY <2>1, Unused DEF Recyclable
  <2>4. buf[b].blockno \in Blocks => Copy(b) = disk[buf[b].blockno]
    <3>1. buf[b].valid => buf[b].data = disk[buf[b].blockno]
      BY <2>1 DEF Recyclable, CacheInv, DataOK
    <3> QED  BY <2>1, <3>1, ZenonT(30) DEF Recyclable, Copy
  <2>5. ASSUME NEW j \in Blocks PROVE Content'[j] = Content[j] /\ Holder'[j] = Holder[j]
    <3>1. CASE j = k
      <4>1. Content[j] = disk[j] /\ Holder[j] = NoProc
        BY <2>2, <3>1, ZenonT(30) DEF View
      <4>2. Content'[j] = Copy(b)' /\ Holder'[j] = lock'[b]
        BY <2>2, <3>1 DEF View
      <4>3. Copy(b)' = disk[j]
        BY <1>1, <2>2, <3>1 DEF Copy
      <4> QED  BY <1>1, <2>3, <4>1, <4>2, <4>3
    <3>2. CASE j # k /\ j = buf[b].blockno
      <4>1. Content[j] = disk[j] /\ Holder[j] = NoProc
        BY <2>3, <2>4, <3>2 DEF View
      <4>2. \A c \in Buf : buf'[c].blockno # j
        BY <2>2, <3>2, ZenonT(30) DEF CacheInv, CachedOnce
      <4>3. Content'[j] = disk'[j] /\ Holder'[j] = NoProc
        BY <4>2 DEF View
      <4> QED  BY <1>1, <4>1, <4>3, ZenonT(30)
    <3>3. CASE j # k /\ j # buf[b].blockno
      <4>1. CASE \A c \in Buf : buf[c].blockno # j
        <5>1. \A c \in Buf : buf'[c].blockno # j
          BY <2>2, <3>3, <4>1
        <5> QED  BY <1>1, <4>1, <5>1, ZenonT(30) DEF View
      <4>2. ASSUME NEW c \in Buf, buf[c].blockno = j
            PROVE  Content'[j] = Content[j] /\ Holder'[j] = Holder[j]
        <5>1. buf'[c] = buf[c] /\ Copy(c)' = Copy(c)
          BY <1>1, <2>2, <3>3, <4>2, SameCopy
        <5>2. Content[j] = Copy(c) /\ Holder[j] = lock[c]
          BY <4>2, ZenonT(30) DEF View
        <5>3. Content'[j] = Copy(c)' /\ Holder'[j] = lock'[c]
          BY <4>2, <5>1 DEF View
        <5> QED  BY <1>1, <5>1, <5>2, <5>3, ZenonT(30)
      <4> QED  BY <4>1, <4>2
    <3> QED  BY <3>1, <3>2, <3>3, ZenonT(30)
  <2> QED  BY <2>5 DEF View
<1> QED  BY <1>2, <1>3, <1>4, ZenonT(30) DEF Bget

\* Every step of the cache is a step of BlockStore or leaves it alone.
LEMMA StepRefines == CacheInv /\ CacheInv' /\ [Next]_vars => [Abs!Next]_(Abs!vars)
<1> SUFFICES ASSUME CacheInv, CacheInv', [Next]_vars
             PROVE  Abs!Next \/ (Content' = Content /\ Holder' = Holder)
  BY DEF Abs!vars
<1>1. View /\ View'
  BY ViewHolds, ViewNext
<1>2. CASE UNCHANGED vars
  BY <1>2, Unseen DEF vars
<1>3. CASE Idle
  BY <1>2, <1>3, ZenonT(30) DEF Idle
<1>4. ASSUME NEW p \in Procs, Iderw(p) \/ RwTest(p) PROVE Content' = Content /\ Holder' = Holder
  BY <1>4, Unseen DEF Iderw, RwTest
<1>5. ASSUME NEW p \in Procs, Step(p) PROVE Abs!Next \/ (Content' = Content /\ Holder' = Holder)
  BY <1>1, <1>4, <1>5, AcquireSleepRefines, UseRefines, MemIderwRefines, ReleaseSleepRefines,
     BrelseRefines, Zenon DEF Step
<1>6. ASSUME NEW p \in Procs, NEW kind \in Kinds, NEW k \in Blocks, Bget(p, kind, k)
      PROVE  Content' = Content /\ Holder' = Holder
  BY <1>1, <1>6, BgetRefines, Zenon
<1> QED  BY <1>1, <1>2, <1>3, <1>5, <1>6, IdeintrRefines, ZenonT(30) DEF Next

\* The buffer cache implements the block store, for any number of processes, buffers and
\* blocks and for both drivers: every block has one current copy, which only its holder changes.
THEOREM OneCopy == Spec => ImplementsBlockStore
<1>1. Init => Abs!Init
  <2> SUFFICES ASSUME Init PROVE Abs!Init
    OBVIOUS
  <2>1. Content = [k \in Blocks |-> Zero] /\ Holder = [k \in Blocks |-> NoProc]
    BY CacheAssumption DEF CacheAssumption, Init, Content, Holder, Cached
  <2> QED  BY <2>1 DEF Abs!Init
<1> QED  BY <1>1, StepRefines, CacheInvariant, PTL DEF Spec, ImplementsBlockStore, Abs!Spec

=============================================================================
