----------------------------- MODULE LogProofs -----------------------------
(***************************************************************************)
(* The log for any number of processes and blocks: LogInv is inductive,    *)
(* and every step of Log is a step of AtomicDisk or leaves it alone.       *)
(***************************************************************************)
EXTENDS Log, FiniteSetTheorems, TLAPS

\* The time the provers get for a leaf that does not choose one.
USE SMTT(30), ZenonT(30)

USE DEF LogBlocks

\* The constants of param.h as numbers.
LEMMA Numbers == LOGSIZE \in Nat
  BY LogAssumption DEF LogAssumption, LOGSIZE

\* Active is finite.
LEMMA ActiveFinite == IsFiniteSet(Active)
  BY LogAssumption, FS_Subset DEF LogAssumption, Active

\* The initial state satisfies the invariant.
LEMMA InitInv == Init => LogInv
<1> SUFFICES ASSUME Init PROVE LogInv
    OBVIOUS
<1> USE LogAssumption DEF LogAssumption
<1>1. Active = {}
    BY DEF Init, Active
<1>2. outstanding = Cardinality(Active)
    BY <1>1, FS_EmptySet DEF Init
<1>3. disk \in [Blocks -> Vals] /\ cache \in [Blocks -> Vals] /\ logdata \in [LogBlocks -> Vals]
    BY DEF Init
<1>4. /\ head \in Seq(Blocks) /\ Len(head) <= LOGSIZE
      /\ lh \in Seq(Blocks) /\ Len(lh) <= LOGSIZE
    BY Numbers DEF Init
<1>5. pc \in [Procs -> {"idle", "begin", "asleep", "op", "commit"}] /\ wrote \in [Procs -> SUBSET Blocks]
    BY DEF Init
<1>6. outstanding \in Nat /\ tail \in 1..(LOGSIZE + 1) /\ ops \in Nat /\ crashes \in Nat
    BY Numbers DEF Init
<1>7. committing \in BOOLEAN /\ panic \in BOOLEAN
    BY Zenon DEF Init
<1>8. TypeOK
    BY <1>3, <1>4, <1>5, <1>6, <1>7 DEF Init, TypeOK
<1> QED
    BY <1>1, <1>2, <1>8 DEF Init, LogInv, Injective

\* begin_op counts the operation that it lets in.
LEMMA BeginOpInv == ASSUME LogInv, NEW p \in Procs, BeginOp(p), ~panic PROVE LogInv'
<1> USE Numbers
<1>1. TypeOK'
    BY DEF LogInv, TypeOK, BeginOp, diskVars
<1>2. CASE MustWait
  <2>1. Active' = Active
      BY <1>2, Zenon DEF BeginOp, Active, LogInv, TypeOK
  <2> QED
      BY <1>1, <1>2, <2>1, Zenon DEF BeginOp, LogInv, Injective, OnlyLoggedDiffer, diskVars, TypeOK
<1>3. CASE ~MustWait
  <2>1. phase = "run" /\ ~committing
      BY <1>3 DEF BeginOp, LogInv, Up, MustWait, TypeOK
  <2>2. p \notin Active /\ Active' = Active \cup {p}
      BY <1>3 DEF BeginOp, Active, LogInv, TypeOK
  <2>3. outstanding' = Cardinality(Active')
      BY <1>3, <2>2, ActiveFinite, FS_AddElement, FS_CardinalityType DEF BeginOp, LogInv
  <2> QED
      BY <1>1, <1>3, <2>1, <2>2, <2>3, Zenon
      DEF BeginOp, LogInv, Injective, OnlyLoggedDiffer, diskVars, TypeOK
<1> QED
    BY <1>2, <1>3

\* Appending a block that is not yet logged.
LEMMA AppendLogged ==
    ASSUME NEW s \in Seq(Blocks), NEW b \in Blocks, b \notin Range(s), Injective(s)
    PROVE  /\ Append(s, b) \in Seq(Blocks) /\ Len(Append(s, b)) = Len(s) + 1
           /\ Injective(Append(s, b))
           /\ Range(Append(s, b)) = Range(s) \cup {b}
<1>1. /\ Append(s, b) \in Seq(Blocks) /\ Len(Append(s, b)) = Len(s) + 1
      /\ DOMAIN s = 1..Len(s) /\ DOMAIN Append(s, b) = 1..(Len(s) + 1) /\ Len(s) \in Nat
    OBVIOUS
<1>2. \A i \in 1..Len(s) : Append(s, b)[i] = s[i]
    OBVIOUS
<1>3. Append(s, b)[Len(s) + 1] = b
    OBVIOUS
<1>4. Injective(Append(s, b))
  <2> SUFFICES ASSUME NEW i \in 1..(Len(s) + 1), NEW j \in 1..(Len(s) + 1),
                      Append(s, b)[i] = Append(s, b)[j]
               PROVE  i = j
      BY <1>1 DEF Injective
  <2>1. CASE i \in 1..Len(s) /\ j \in 1..Len(s)
      BY <1>1, <1>2, <2>1 DEF Injective
  <2>2. CASE i = Len(s) + 1 /\ j \in 1..Len(s)
      BY <1>1, <1>2, <1>3, <2>2 DEF Range
  <2>3. CASE i \in 1..Len(s) /\ j = Len(s) + 1
      BY <1>1, <1>2, <1>3, <2>3 DEF Range
  <2> QED
      BY <1>1, <2>1, <2>2, <2>3
<1>5. Range(Append(s, b)) = Range(s) \cup {b}
  <2>1. ASSUME NEW x \in Range(Append(s, b)) PROVE x \in Range(s) \cup {b}
      BY <1>1, <1>2, <1>3 DEF Range
  <2>2. ASSUME NEW x \in Range(s) PROVE x \in Range(Append(s, b))
      BY <1>1, <1>2 DEF Range
  <2>3. b \in Range(Append(s, b))
      BY <1>1, <1>3 DEF Range
  <2> QED
      BY <2>1, <2>2, <2>3
<1> QED
    BY <1>1, <1>4, <1>5

\* log_write logs what it changes, once.
LEMMA LogWriteInv ==
    ASSUME LogInv, ~panic, NEW p \in Procs, NEW b \in Blocks, NEW v \in Vals, LogWrite(p, b, v)
    PROVE  LogInv'
<1> USE Numbers
<1>1. p \in Active /\ phase = "run" /\ ~committing
    BY DEF LogWrite, LogInv, Active
<1>2. Active' = Active /\ outstanding' = outstanding
    BY DEF LogWrite, Active
<1>3. cache' \in [Blocks -> Vals] /\ wrote' \in [Procs -> SUBSET Blocks]
    BY Zenon DEF LogWrite, LogInv, TypeOK
<1>4. /\ UNCHANGED <<disk, logdata, head, committing, phase, tail, pc, ops, crashes>>
      /\ cache' = [cache EXCEPT ![b] = v]
    BY DEF LogWrite, diskVars
<1>5. CASE UNCHANGED lh /\ (panic' \/ b \in Range(lh)) /\ panic' \in BOOLEAN
  <2>1. TypeOK'
      BY <1>2, <1>3, <1>4, <1>5, Zenon DEF LogInv, TypeOK
  <2>2. ~panic' => OnlyLoggedDiffer'
      BY <1>4, <1>5 DEF LogInv, OnlyLoggedDiffer, TypeOK, Range
  <2> QED
      BY <1>1, <1>2, <1>4, <1>5, <2>1, <2>2, Zenon DEF LogInv, Injective
<1>6. CASE lh' = Append(lh, b) /\ b \notin Range(lh) /\ Len(lh) < LOGSIZE /\ UNCHANGED panic
  <2>1. /\ lh' \in Seq(Blocks) /\ Len(lh') = Len(lh) + 1
        /\ Injective(lh') /\ Range(lh') = Range(lh) \cup {b}
      BY <1>6, AppendLogged, Zenon DEF LogInv, TypeOK
  <2>2. Len(lh') <= LOGSIZE
      BY <1>6, <2>1 DEF LogInv, TypeOK
  <2>3. TypeOK'
      BY <1>2, <1>3, <1>4, <1>6, <2>1, <2>2, ZenonT(30) DEF LogInv, TypeOK
  <2>4. OnlyLoggedDiffer'
      BY <1>1, <1>4, <1>6, <2>1, ZenonT(30) DEF LogInv, OnlyLoggedDiffer, TypeOK
  <2>5. Injective(lh)' /\ Injective(head)'
      BY <1>4, <2>1 DEF LogInv, Injective
  <2> QED
      BY <1>1, <1>2, <1>4, <1>6, <2>3, <2>4, <2>5, Zenon DEF LogInv
<1>7. CASE Len(lh) >= LOGSIZE \/ Len(lh) >= NLOG - 1
    BY <1>5, <1>7, ZenonT(30) DEF LogWrite
<1>8. CASE ~(Len(lh) >= LOGSIZE \/ Len(lh) >= NLOG - 1)
  <2>1. Len(lh) < LOGSIZE
      BY <1>8 DEF LogInv, TypeOK
  <2>2. panic' = panic /\ panic \in BOOLEAN
      BY <1>8, Zenon DEF LogWrite, LogInv, TypeOK
  <2>3. CASE b \in Range(lh)
      BY <1>5, <1>8, <2>2, <2>3, Zenon DEF LogWrite
  <2>4. CASE b \notin Range(lh)
      BY <1>6, <1>8, <2>1, <2>2, <2>4 DEF LogWrite
  <2> QED
      BY <2>3, <2>4, Zenon
<1> QED
    BY <1>7, <1>8, Zenon

\* end_op: the last operation starts the commit, and no operation is left then.
LEMMA EndOpInv == ASSUME LogInv, ~panic, NEW p \in Procs, EndOp(p) PROVE LogInv'
<1> USE Numbers
<1>1. p \in Active /\ phase = "run" /\ ~committing /\ ~panic'
    BY Zenon DEF EndOp, LogInv, Active
<1>2. Active' = Active \ {p}
    BY Zenon DEF EndOp, Active, LogInv, TypeOK, Woken
<1>3. /\ outstanding' = Cardinality(Active') /\ outstanding' \in Nat
      /\ outstanding = 1 <=> Active' = {}
  <2>1. IsFiniteSet(Active') /\ Cardinality(Active') = Cardinality(Active) - 1
      BY <1>1, <1>2, ActiveFinite, FS_RemoveElement
  <2>2. Cardinality(Active') \in Nat /\ (Cardinality(Active') = 0 <=> Active' = {})
      BY <2>1, FS_CardinalityType, FS_EmptySet, Zenon
  <2>3. outstanding = Cardinality(Active) /\ outstanding' = outstanding - 1 /\ outstanding \in Nat
      BY DEF EndOp, LogInv, TypeOK
  <2> QED
      BY <2>1, <2>2, <2>3
<1>4. /\ UNCHANGED <<disk, logdata, head, lh, cache, ops, crashes>>
      /\ wrote' \in [Procs -> SUBSET Blocks]
    BY DEF EndOp, diskVars, LogInv, TypeOK
<1>5. /\ pc' \in [Procs -> {"idle", "begin", "asleep", "op", "commit"}]
      /\ committing' \in BOOLEAN /\ panic' \in BOOLEAN
    BY ZenonT(30) DEF EndOp, LogInv, TypeOK, Woken
<1>6. OnlyLoggedDiffer' /\ Injective(lh)' /\ Injective(head)' /\ head' = <<>>
    BY <1>1, <1>4, Zenon DEF LogInv, OnlyLoggedDiffer, Injective
<1>7. CASE outstanding = 1 /\ NothingLogged
  <2>1. committing' /\ phase' = "done" /\ tail' = 1
      BY <1>7 DEF EndOp
  <2>2. lh' = <<>>
      BY <1>4, <1>7 DEF NothingLogged, LogInv, TypeOK
  <2>3. cache' = disk'
      BY <1>4, <1>6, <2>2 DEF OnlyLoggedDiffer, Range, LogInv, TypeOK
  <2>4. TypeOK'
      BY <1>1, <1>3, <1>4, <1>5, <2>1 DEF LogInv, TypeOK
  <2> QED
      BY <1>1, <1>3, <1>6, <1>7, <2>1, <2>2, <2>3, <2>4, ZenonT(30) DEF LogInv
<1>8. CASE outstanding = 1 /\ ~NothingLogged
  <2>1. committing' /\ phase' = "write_log" /\ tail' = 1
      BY <1>8, Zenon DEF EndOp
  <2>2. TypeOK'
      BY <1>1, <1>3, <1>4, <1>5, <2>1 DEF LogInv, TypeOK
  <2> QED
      BY <1>1, <1>3, <1>6, <1>8, <2>1, <2>2 DEF LogInv
<1>9. CASE outstanding # 1
  <2>1. UNCHANGED <<committing, phase, tail>>
      BY <1>9 DEF EndOp
  <2>2. TypeOK'
      BY <1>1, <1>3, <1>4, <1>5, <2>1, ZenonT(30) DEF LogInv, TypeOK
  <2> QED
      BY <1>1, <1>3, <1>6, <1>9, <2>1, <2>2, Zenon DEF LogInv
<1> QED
    BY <1>7, <1>8, <1>9, Zenon

\* A step that leaves pc and outstanding alone.
LEMMA SameActive ==
    ASSUME LogInv, UNCHANGED <<pc, outstanding>>
    PROVE  Active' = Active /\ outstanding' = Cardinality(Active')
  BY DEF LogInv, Active

\* commit and recover_from_log: the log is written first, then its header, then the home
\* locations, and the header is cleared when all of them are written.
LEMMA CommitInv == ASSUME LogInv, ~panic, Commit PROVE LogInv'
<1> USE Numbers
<1>1. CASE WriteLog
  <2>1. /\ phase = "write_log" /\ tail \in 1..Len(lh) /\ tail' = tail + 1
        /\ logdata' = [logdata EXCEPT ![tail] = cache[lh[tail]]]
        /\ UNCHANGED <<disk, head, lh, outstanding, committing, cache, phase, pc, wrote, ops,
                       crashes, panic>>
      BY <1>1 DEF WriteLog, LogInv, TypeOK, logVars
  <2>2. Active' = Active /\ outstanding' = Cardinality(Active')
      BY <2>1, SameActive, Zenon
  <2>3. lh[tail] \in Blocks
      BY <2>1 DEF LogInv, TypeOK
  <2>4. TypeOK'
      BY <2>1, <2>3 DEF LogInv, TypeOK
  <2>5. \A i \in 1..(tail' - 1) : logdata'[i] = cache'[lh'[i]]
      BY <2>1 DEF LogInv, TypeOK
  <2> QED
      BY <2>1, <2>2, <2>4, <2>5, ZenonT(30) DEF LogInv, Injective, OnlyLoggedDiffer
<1>2. CASE WriteHead
  <2>1. /\ phase = "write_log" /\ tail > Len(lh) /\ tail' = 1 /\ head' = lh /\ phase' = "install"
        /\ UNCHANGED <<disk, logdata, lh, outstanding, committing, cache, pc, wrote, ops,
                       crashes, panic>>
      BY <1>2 DEF WriteHead, logVars
  <2>2. Active' = Active /\ outstanding' = Cardinality(Active')
      BY <2>1, SameActive
  <2>3. TypeOK'
      BY <2>1 DEF LogInv, TypeOK
  <2>4. \A i \in DOMAIN lh' : cache'[lh'[i]] = logdata'[i]
      BY <2>1 DEF LogInv, TypeOK
  <2>5. Injective(lh)' /\ Injective(head)' /\ OnlyLoggedDiffer'
      BY <2>1 DEF LogInv, Injective, OnlyLoggedDiffer
  <2> QED
      BY <2>1, <2>2, <2>3, <2>4, <2>5 DEF LogInv
<1>3. CASE Install
  <2>1. /\ phase = "install" /\ tail \in 1..Len(lh) /\ tail' = tail + 1
        /\ disk' = [disk EXCEPT ![lh[tail]] = logdata[tail]]
        /\ cache' = [cache EXCEPT ![lh[tail]] = logdata[tail]]
        /\ UNCHANGED <<logdata, head, lh, outstanding, committing, phase, pc, wrote, ops,
                       crashes, panic>>
      BY <1>3 DEF Install, LogInv, TypeOK, logVars
  <2>2. Active' = Active /\ outstanding' = Cardinality(Active')
      BY <2>1, SameActive, Zenon
  <2>3. lh[tail] \in Blocks /\ logdata[tail] \in Vals
      BY <2>1 DEF LogInv, TypeOK
  <2>4. TypeOK'
      BY <2>1, <2>3 DEF LogInv, TypeOK
  <2>5. \A i \in 1..(tail' - 1) : disk'[lh'[i]] = logdata'[i]
    <3> SUFFICES ASSUME NEW i \in 1..(tail' - 1) PROVE disk'[lh[i]] = logdata[i]
        BY <2>1, Zenon
    <3>1. i \in DOMAIN lh /\ tail \in DOMAIN lh /\ lh[i] \in Blocks
        BY <2>1 DEF LogInv, TypeOK
    <3>2. CASE i = tail
        BY <2>1, <2>3, <3>2, Zenon DEF LogInv, TypeOK
    <3>3. CASE i # tail
      <4>1. lh[i] # lh[tail] /\ i \in 1..(tail - 1)
          BY <2>1, <3>1, <3>3 DEF LogInv, Injective, TypeOK
      <4> QED
          BY <2>1, <3>1, <4>1, ZenonT(30) DEF LogInv, TypeOK
    <3> QED
        BY <3>2, <3>3
  <2>6. CASE committing
    <3>1. OnlyLoggedDiffer'
        BY <2>1, <2>6 DEF LogInv, OnlyLoggedDiffer, Range, TypeOK
    <3>2. \A i \in DOMAIN lh' : cache'[lh'[i]] = logdata'[i]
        BY <2>1, <2>3, <2>6 DEF LogInv, Injective, TypeOK
    <3> QED
        BY <2>1, <2>2, <2>4, <2>5, <2>6, <3>1, <3>2, ZenonT(30) DEF LogInv, Injective
  <2>7. CASE ~committing
    <3>1. cache' = disk'
        BY <2>1, <2>7, Zenon DEF LogInv
    <3> QED
        BY <2>1, <2>2, <2>4, <2>5, <2>7, <3>1, ZenonT(30) DEF LogInv, Injective
  <2> QED
      BY <2>6, <2>7, Zenon
<1>4. CASE ClearHead
  <2>1. /\ phase = "install" /\ tail > Len(lh) /\ lh' = <<>> /\ head' = <<>>
        /\ phase' = IF committing THEN "done" ELSE "run"
        /\ UNCHANGED <<disk, logdata, outstanding, committing, cache, tail, pc, wrote, ops,
                       crashes, panic>>
      BY <1>4, ZenonT(30) DEF ClearHead
  <2>2. Active' = Active /\ outstanding' = Cardinality(Active') /\ Active = {}
      BY <2>1, SameActive DEF LogInv
  <2>3. cache' = disk'
    <3>1. CASE committing
      <4>1. \A b \in Blocks : cache[b] = disk[b]
        <5> SUFFICES ASSUME NEW b \in Range(lh) PROVE cache[b] = disk[b]
            BY <2>1, <3>1 DEF LogInv, OnlyLoggedDiffer
        <5>1. PICK i \in DOMAIN lh : lh[i] = b
            BY Zenon DEF Range
        <5>2. i \in 1..(tail - 1)
            BY <2>1 DEF LogInv, TypeOK
        <5>3. disk[lh[i]] = logdata[i]
            BY <2>1, <5>2, Zenon DEF LogInv
        <5>4. cache[lh[i]] = logdata[i]
            BY <2>1, <3>1, Zenon DEF LogInv
        <5> QED
            BY <5>1, <5>3, <5>4, ZenonT(30)
      <4> QED
          BY <2>1, <4>1 DEF LogInv, TypeOK
    <3>2. CASE ~committing
        BY <2>1, <3>2, ZenonT(30) DEF LogInv
    <3> QED
        BY <3>1, <3>2, Zenon
  <2>4. TypeOK'
      BY <2>1 DEF LogInv, TypeOK
  <2>5. Injective(lh)' /\ Injective(head)'
      BY <2>1 DEF Injective
  <2>6. OnlyLoggedDiffer'
      BY <2>3, ZenonT(30) DEF OnlyLoggedDiffer
  <2> QED
    <3>1. CASE committing
        BY <2>1, <2>2, <2>3, <2>4, <2>5, <3>1, ZenonT(30) DEF LogInv
    <3>2. CASE ~committing
        BY <2>1, <2>2, <2>3, <2>4, <2>5, <2>6, <3>2, ZenonT(30) DEF LogInv
    <3> QED
        BY <3>1, <3>2
<1>5. CASE ReadHead
  <2>1. /\ phase = "boot" /\ lh' = head /\ phase' = "install" /\ tail' = 1
        /\ UNCHANGED <<disk, logdata, head, cache, outstanding, committing, pc, wrote, ops,
                       crashes, panic>>
      BY <1>5 DEF ReadHead, diskVars
  <2>2. Active' = Active /\ outstanding' = Cardinality(Active')
      BY <2>1, SameActive, Zenon
  <2>3. TypeOK'
      BY <2>1 DEF LogInv, TypeOK
  <2>4. Injective(lh)' /\ Injective(head)'
      BY <2>1, Zenon DEF LogInv, Injective
  <2> QED
      BY <2>1, <2>2, <2>3, <2>4 DEF LogInv
<1> QED
    BY <1>1, <1>2, <1>3, <1>4, <1>5, Zenon DEF Commit

\* end_op after the commit, and a crash.
LEMMA EndCommitInv == ASSUME LogInv, ~panic, NEW p \in Procs, EndCommit(p) PROVE LogInv'
<1> USE Numbers
<1>1. /\ phase = "done" /\ phase' = "run" /\ committing' = FALSE
      /\ UNCHANGED <<disk, logdata, head, lh, outstanding, cache, tail, wrote, ops, crashes, panic>>
    BY Zenon DEF EndCommit, diskVars
<1>2. /\ pc' \in [Procs -> {"idle", "begin", "asleep", "op", "commit"}]
      /\ Active' = Active
    BY DEF EndCommit, LogInv, TypeOK, Woken, Active
<1>3. TypeOK'
    BY <1>1, <1>2, ZenonT(30) DEF LogInv, TypeOK
<1>4. OnlyLoggedDiffer' /\ Injective(lh)' /\ Injective(head)'
    BY <1>1, Zenon DEF LogInv, OnlyLoggedDiffer, Injective
<1> QED
    BY <1>1, <1>2, <1>3, <1>4, Zenon DEF LogInv

\* What a crash leaves in memory and on the disk.
LEMMA CrashInv == ASSUME LogInv, Crash PROVE LogInv'
<1> USE Numbers
<1>1. Active' = {} /\ outstanding' = Cardinality(Active')
    BY FS_EmptySet, Zenon DEF Crash, Active
<1>2. /\ phase' = "boot" /\ committing' = FALSE /\ panic' = FALSE /\ lh' = <<>> /\ cache' = disk
      /\ tail' = 1 /\ UNCHANGED <<disk, logdata, head, ops>> /\ crashes' = crashes + 1
      /\ outstanding' = 0
    BY DEF Crash, diskVars
<1>3. /\ pc' \in [Procs -> {"idle", "begin", "asleep", "op", "commit"}]
      /\ wrote' \in [Procs -> SUBSET Blocks]
    BY Zenon DEF Crash
<1>4. lh' \in Seq(Blocks) /\ Len(lh') <= LOGSIZE /\ Injective(lh)' /\ Injective(head)'
    BY <1>2 DEF LogInv, Injective
<1>5. committing' \in BOOLEAN /\ panic' \in BOOLEAN
    BY <1>2, ZenonT(30)
<1>6. outstanding' \in Nat /\ crashes' \in Nat /\ tail' \in 1..(LOGSIZE + 1)
    BY <1>2 DEF LogInv, TypeOK
<1>7. TypeOK'
    BY <1>2, <1>3, <1>4, <1>5, <1>6, ZenonT(30) DEF LogInv, TypeOK
<1> QED
    BY <1>1, <1>2, <1>4, <1>7, Zenon DEF LogInv

\* Steps that change nothing.
LEMMA StutterInv == ASSUME LogInv, UNCHANGED vars PROVE LogInv'
<1>1. UNCHANGED <<disk, logdata, head, lh, cache, outstanding, committing, phase, tail, pc, wrote,
                  ops, crashes, panic>>
    BY Zenon DEF vars
<1>2. TypeOK' /\ Active' = Active
    BY <1>1 DEF LogInv, TypeOK, Active
<1> QED
    BY <1>1, <1>2, Zenon DEF LogInv, Injective, OnlyLoggedDiffer

\* LogInv is inductive.
LEMMA NextInv == ASSUME LogInv, [Next]_vars PROVE LogInv'
<1>1. CASE UNCHANGED vars
    BY <1>1, StutterInv
<1>2. CASE Crash
    BY <1>2, CrashInv
<1>3. CASE ~panic /\ Commit
    BY <1>3, CommitInv
<1>4. CASE Done
    BY <1>4, StutterInv DEF Done
<1>5. ASSUME ~panic, NEW p \in Procs, BeginOp(p) \/ EndOp(p) \/ EndCommit(p) PROVE LogInv'
    BY <1>5, BeginOpInv, EndOpInv, EndCommitInv
<1>6. ASSUME ~panic, NEW p \in Procs, NEW b \in Blocks, NEW v \in Vals, LogWrite(p, b, v)
      PROVE  LogInv'
    BY <1>6, LogWriteInv
<1> QED
    BY <1>1, <1>2, <1>3, <1>4, <1>5, <1>6 DEF Next

\* The invariant of the log holds in every reachable state, for any number of processes and
\* blocks, any log size and any number of crashes (log.c).
THEOREM LogInvariant == Spec => []LogInv
  BY InitInv, NextInv, PTL DEF Spec

\* With no operation outstanding and no commit running the disk holds everything that was
\* written: end_op of the last operation has returned only after its commit.
THEOREM Synchronous == Spec => []CommittedOnReturn
<1>1. LogInv => CommittedOnReturn
  <2> SUFFICES ASSUME LogInv, Up, ~committing, outstanding = 0, ~panic PROVE Recovered = cache
      BY Zenon DEF CommittedOnReturn
  <2>1. phase = "run"
      BY DEF LogInv, Up, TypeOK
  <2>2. Active = {}
      BY ActiveFinite, FS_EmptySet, ZenonT(30) DEF LogInv
  <2>3. head = <<>> /\ lh = <<>> /\ OnlyLoggedDiffer
      BY <2>1, <2>2, Zenon DEF LogInv
  <2>4. Recovered = [b \in Blocks |-> disk[b]]
      BY <2>3 DEF Recovered, Range
  <2> QED
      BY <2>3, <2>4 DEF LogInv, TypeOK, OnlyLoggedDiffer, Range
<1> QED
    BY <1>1, LogInvariant, PTL

-----------------------------------------------------------------------------
(* The space that begin_op reserves. *)

\* What an operation has logged: nothing before begin_op, and then blocks of the log.
LoggedOK ==
    \A p \in Procs :
        /\ IsFiniteSet(wrote[p]) /\ Cardinality(wrote[p]) <= OPBLOCKS
        /\ pc[p] # "op" => wrote[p] = {}
        /\ ~panic => wrote[p] \subseteq Range(lh)

\* No operation has more than MAXOPBLOCKS blocks of the log to go.
UnusedBounded ==
    /\ IsFiniteSet(Unused) /\ Cardinality(Unused) \in Nat
    /\ Cardinality(Unused) <= Cardinality(Active) * MAXOPBLOCKS
    /\ Active = {} => Cardinality(Unused) = 0

\* The reservations are finitely many.
LEMMA UnusedBound == UnusedBounded
<1> USE LogAssumption DEF LogAssumption
<1> DEFINE All == Active \X (1..MAXOPBLOCKS)
<1>1. IsFiniteSet(1..MAXOPBLOCKS) /\ Cardinality(1..MAXOPBLOCKS) = MAXOPBLOCKS
    BY FS_Interval
<1>2. IsFiniteSet(All) /\ Cardinality(All) = Cardinality(Active) * MAXOPBLOCKS
    BY <1>1, ActiveFinite, FS_Product, Zenon
<1>3. IsFiniteSet(Unused) /\ Cardinality(Unused) <= Cardinality(All)
    BY <1>2, FS_Subset DEF Unused
<1>4. Active = {} => Unused = {}
    BY DEF Unused
<1> QED
    BY <1>2, <1>3, <1>4, FS_CardinalityType, FS_EmptySet, Zenon DEF UnusedBounded

\* The same for the next state.
LEMMA UnusedBoundNext == UnusedBounded'
  BY UnusedBound, PTL

\* Without operations the log has all its space.
LEMMA NobodyReserves == ASSUME LogInv', Active' = {} PROVE ReservationHolds'
  BY UnusedBoundNext, Numbers DEF UnusedBounded, ReservationHolds, LogInv, TypeOK

\* begin_op lets an operation in only when there is space for MAXOPBLOCKS more blocks for it
\* and for every other.
LEMMA BeginOpReserves ==
    ASSUME LogInv, LogInv', LoggedOK, ReservationHolds, NEW p \in Procs, BeginOp(p)
    PROVE  LoggedOK' /\ ReservationHolds'
<1> USE LogAssumption, Numbers DEF LogAssumption
<1>1. UNCHANGED <<lh, wrote, panic>>
    BY DEF BeginOp
<1>2. LoggedOK'
  <2>1. pc[p] # "op" /\ \A q \in Procs \ {p} : pc'[q] = pc[q]
      BY ZenonT(30) DEF BeginOp, LogInv, TypeOK
  <2> QED
      BY <1>1, <2>1, Zenon DEF LoggedOK
<1>3. CASE MustWait
  <2>1. Active' = Active
      BY <1>3, ZenonT(30) DEF BeginOp, Active, LogInv, TypeOK
  <2>2. Unused' = Unused
      BY <1>1, <2>1, Zenon DEF Unused
  <2> QED
      BY <1>1, <1>2, <2>2 DEF ReservationHolds
<1>4. CASE ~MustWait
  <2>1. /\ outstanding' = Cardinality(Active') /\ outstanding' = outstanding + 1
        /\ outstanding \in Nat /\ Len(lh) \in Nat
      BY <1>4 DEF BeginOp, LogInv, TypeOK
  <2>2. Len(lh) + (outstanding + 1) * MAXOPBLOCKS <= LOGSIZE
    <3>1. (outstanding + 1) * MAXOPBLOCKS \in Nat
        BY <2>1
    <3> QED
        BY <1>4, <2>1, <3>1 DEF MustWait, Full
  <2>3. Cardinality(Unused') <= (outstanding + 1) * MAXOPBLOCKS
      BY <2>1, UnusedBoundNext, Zenon DEF UnusedBounded
  <2> QED
    <3>1. (outstanding + 1) * MAXOPBLOCKS \in Nat
        BY <2>1
    <3> HIDE DEF LOGSIZE
    <3> QED
        BY <1>1, <1>2, <2>1, <2>2, <2>3, <3>1, UnusedBoundNext DEF UnusedBounded, ReservationHolds
<1> QED
    BY <1>3, <1>4, Zenon

\* log_write uses a reserved block for every block of the log that it takes.
LEMMA LogWriteReserves ==
    ASSUME OPBLOCKS <= MAXOPBLOCKS, LogInv, ~panic, LoggedOK, ReservationHolds,
           NEW p \in Procs, NEW b \in Blocks, NEW v \in Vals, LogWrite(p, b, v)
    PROVE  LoggedOK' /\ ReservationHolds'
<1> USE LogAssumption, Numbers DEF LogAssumption
<1> DEFINE c == Cardinality(wrote[p])
<1>1. /\ p \in Active /\ pc' = pc /\ Active' = Active
      /\ wrote' = [wrote EXCEPT ![p] = @ \cup {b}] /\ wrote \in [Procs -> SUBSET Blocks]
    BY Zenon DEF LogWrite, Active, LogInv, TypeOK
<1>2. /\ lh \in Seq(Blocks) /\ Len(lh) \in Nat /\ Len(lh') \in Nat /\ Len(lh') <= Len(lh) + 1
      /\ b \in Range(lh) => lh' = lh
      /\ ~panic' => Range(lh') = Range(lh) \cup {b}
  <2>1. lh \in Seq(Blocks) /\ Len(lh) \in Nat /\ Injective(lh)
      BY DEF LogInv, TypeOK
  <2>2. CASE Len(lh) >= LOGSIZE \/ Len(lh) >= NLOG - 1
    <3>1. lh' = lh
        BY <2>2 DEF LogWrite
    <3>2. panic'
        BY <2>2, Zenon DEF LogWrite
    <3> QED
        BY <2>1, <3>1, <3>2
  <2>3. CASE ~(Len(lh) >= LOGSIZE \/ Len(lh) >= NLOG - 1)
    <3>1. lh' = IF b \in Range(lh) THEN lh ELSE Append(lh, b)
        BY <2>3, Zenon DEF LogWrite
    <3>2. b \notin Range(lh) => Len(Append(lh, b)) = Len(lh) + 1
                                /\ Range(Append(lh, b)) = Range(lh) \cup {b}
        BY <2>1, AppendLogged, Zenon
    <3> QED
        BY <2>1, <3>1, <3>2
  <2> QED
      BY <2>2, <2>3, ZenonT(30)
<1>3. wrote[p] \subseteq Range(lh) /\ IsFiniteSet(wrote[p]) /\ c \in Nat
    BY FS_CardinalityType DEF LoggedOK
<1>4. CASE b \in wrote[p]
  <2>1. wrote' = wrote /\ lh' = lh
      BY <1>1, <1>2, <1>3, <1>4
  <2>2. Unused' = Unused
      BY <1>1, <2>1, Zenon DEF Unused
  <2>3. LoggedOK'
      BY <1>1, <2>1, Zenon DEF LoggedOK
  <2> QED
      BY <2>1, <2>2, <2>3, Zenon DEF ReservationHolds
<1>5. CASE b \notin wrote[p]
  <2>1. /\ c < OPBLOCKS /\ c + 1 \in 1..MAXOPBLOCKS
        /\ IsFiniteSet(wrote'[p]) /\ Cardinality(wrote'[p]) = c + 1
        /\ \A q \in Procs \ {p} : wrote'[q] = wrote[q]
    <3>1. c < OPBLOCKS
        BY <1>5, Zenon DEF LogWrite
    <3>2. wrote'[p] = wrote[p] \cup {b} /\ \A q \in Procs \ {p} : wrote'[q] = wrote[q]
        BY <1>1
    <3>3. IsFiniteSet(wrote'[p]) /\ Cardinality(wrote'[p]) = c + 1
      <4>1. wrote[p] \cup {b} = wrote'[p]
          BY <3>2, Zenon
      <4>2. /\ IsFiniteSet(wrote[p] \cup {b})
            /\ Cardinality(wrote[p] \cup {b}) = Cardinality(wrote[p]) + 1
          BY <1>3, <1>5, FS_AddElement, Zenon
      <4> QED
          BY <4>1, <4>2, ZenonT(30) DEF c
    <3>4. c + 1 \in 1..MAXOPBLOCKS
        BY <1>3, <3>1
    <3> QED
        BY <3>1, <3>2, <3>3, <3>4, ZenonT(30)
  <2>2. LoggedOK'
    <3>1. ~panic' => wrote'[p] \subseteq Range(lh') /\ Range(lh) \subseteq Range(lh')
        BY <1>1, <1>2, <1>3, Zenon
    <3> QED
        BY <1>1, <1>3, <2>1, <3>1 DEF LoggedOK, Active
  <2> HIDE DEF c
  <2>3. <<p, c + 1>> \in Unused /\ Unused' = Unused \ {<<p, c + 1>>}
    <3>1. <<p, c + 1>> \in Unused
        BY <1>1, <1>3, <2>1 DEF Unused, c
    <3>2. ASSUME NEW r \in Active \X (1..MAXOPBLOCKS)
          PROVE  r \in Unused' <=> r \in Unused /\ r # <<p, c + 1>>
      <4>1. PICK q \in Active, i \in 1..MAXOPBLOCKS : r = <<q, i>>
          OBVIOUS
      <4>2. (r \in Unused' <=> i > Cardinality(wrote'[q])) /\ (r \in Unused <=> i > Cardinality(wrote[q]))
          BY <1>1, <4>1, Zenon DEF Unused
      <4>3. CASE q = p
          BY <1>3, <2>1, <4>1, <4>2, <4>3 DEF c
      <4>4. CASE q # p
          BY <2>1, <4>1, <4>2, <4>4, Zenon DEF Active
      <4> QED
          BY <4>3, <4>4
    <3>3. Unused \subseteq Active \X (1..MAXOPBLOCKS) /\ Unused' \subseteq Active \X (1..MAXOPBLOCKS)
        BY <1>1 DEF Unused
    <3> QED
        BY <3>1, <3>2, <3>3, Zenon
  <2>4. Cardinality(Unused') = Cardinality(Unused) - 1 /\ Cardinality(Unused) \in Nat
      BY <2>3, UnusedBound, FS_RemoveElement, ZenonT(30) DEF UnusedBounded
  <2> QED
      BY <1>2, <2>2, <2>4 DEF ReservationHolds
<1> QED
    BY <1>4, <1>5, ZenonT(30)

\* end_op gives back what its operation has not used.
LEMMA EndOpReserves ==
    ASSUME LogInv, LogInv', LoggedOK, ReservationHolds, NEW p \in Procs, EndOp(p), ~panic
    PROVE  LoggedOK' /\ ReservationHolds'
<1>1. /\ lh' = lh /\ wrote' = [wrote EXCEPT ![p] = {}] /\ pc[p] = "op"
      /\ wrote \in [Procs -> SUBSET Blocks] /\ OPBLOCKS \in Nat
    BY LogAssumption, Zenon DEF LogAssumption, EndOp, LogInv, TypeOK
<1>2. Active' = Active \ {p} /\ \A q \in Procs : pc'[q] = "op" <=> pc[q] = "op" /\ q # p
    BY DEF EndOp, Active, LogInv, TypeOK, Woken
<1>3. IsFiniteSet({}) /\ Cardinality({}) = 0
    BY FS_EmptySet
<1>4. LoggedOK'
  <2>1. wrote'[p] = {} /\ \A q \in Procs \ {p} : wrote'[q] = wrote[q]
      BY <1>1, Zenon
  <2> QED
      BY <1>1, <1>2, <1>3, <2>1 DEF LoggedOK
<1>5. Unused' \subseteq Unused
    BY <1>1, <1>2 DEF Unused, Active
<1>6. Cardinality(Unused') <= Cardinality(Unused)
    BY <1>5, UnusedBound, FS_Subset DEF UnusedBounded
<1> QED
    BY <1>1, <1>4, <1>6, UnusedBound, UnusedBoundNext, Numbers DEF UnusedBounded, ReservationHolds, LogInv, TypeOK

\* A commit, a recovery and a crash find no operation, or end all of them.
LEMMA NobodyLogs ==
    ASSUME LogInv', LoggedOK, Active' = {},
           (wrote' = wrote /\ Active = {}) \/ wrote' = [p \in Procs |-> {}]
    PROVE  LoggedOK' /\ ReservationHolds'
<1>1. \A p \in Procs : wrote'[p] = {} /\ pc'[p] # "op"
    BY DEF LoggedOK, Active
<1>2. IsFiniteSet({}) /\ Cardinality({}) = 0 /\ OPBLOCKS \in Nat
    BY FS_EmptySet, LogAssumption DEF LogAssumption
<1>3. Cardinality({}) <= OPBLOCKS
    BY <1>2
<1>4. LoggedOK'
    BY <1>1, <1>2, <1>3, Zenon DEF LoggedOK
<1> QED
    BY <1>4, NobodyReserves

\* Every step keeps the reservations.
LEMMA NextReserves ==
    ASSUME OPBLOCKS <= MAXOPBLOCKS, LogInv, LogInv', LoggedOK, ReservationHolds, [Next]_vars
    PROVE  LoggedOK' /\ ReservationHolds'
<1>1. ASSUME UNCHANGED vars PROVE LoggedOK' /\ ReservationHolds'
  <2>1. UNCHANGED <<wrote, pc, lh, panic>>
      BY <1>1 DEF vars
  <2>2. Unused' = Unused
      BY <2>1 DEF Unused, Active
  <2> QED
      BY <2>1, <2>2, Zenon DEF LoggedOK, ReservationHolds
<1>2. CASE Crash
  <2>1. Active' = {} /\ wrote' = [p \in Procs |-> {}]
      BY <1>2, Zenon DEF Crash, Active
  <2> QED
      BY <2>1, NobodyLogs
<1>3. CASE ~panic /\ Commit
  <2>1. wrote' = wrote /\ pc' = pc /\ phase # "run"
      BY <1>3, ZenonT(30) DEF Commit, WriteLog, WriteHead, Install, ClearHead, ReadHead
  <2>2. Active = {} /\ Active' = {}
      BY <2>1, Zenon DEF LogInv, Active
  <2> QED
      BY <2>1, <2>2, NobodyLogs, Zenon
<1>4. CASE Done
    BY <1>1, <1>4, Zenon DEF Done
<1>5. ASSUME ~panic, NEW p \in Procs, EndCommit(p) PROVE LoggedOK' /\ ReservationHolds'
  <2>1. wrote' = wrote /\ phase # "run"
      BY <1>5, ZenonT(30) DEF EndCommit
  <2>2. Active = {} /\ Active' = {}
      BY <1>5, <2>1 DEF LogInv, TypeOK, Active, EndCommit, Woken
  <2> QED
      BY <2>1, <2>2, NobodyLogs
<1>6. ASSUME ~panic, NEW p \in Procs, NEW b \in Blocks, NEW v \in Vals, LogWrite(p, b, v)
      PROVE  LoggedOK' /\ ReservationHolds'
    BY <1>6, LogWriteReserves, Zenon
<1> QED
    BY <1>1, <1>2, <1>3, <1>4, <1>5, <1>6, BeginOpReserves, EndOpReserves, ZenonT(30) DEF Next

\* Nothing is reserved and nothing is logged at first.
LEMMA InitReserves == Init => LoggedOK /\ ReservationHolds
<1> SUFFICES ASSUME Init PROVE LoggedOK /\ ReservationHolds
    OBVIOUS
<1>1. IsFiniteSet({}) /\ Cardinality({}) = 0 /\ OPBLOCKS \in Nat
    BY FS_EmptySet, LogAssumption DEF LogAssumption
<1>2. Active = {} /\ lh = <<>>
    BY DEF Init, Active
<1> QED
    BY <1>1, <1>2, UnusedBound, Numbers DEF UnusedBounded, Init, LoggedOK, ReservationHolds

\* As long as no operation logs more than MAXOPBLOCKS different blocks, the log has space for
\* all that the outstanding operations may still log: begin_op never promises too much, for
\* any number of processes and blocks.
THEOREM LogReserved ==
    ASSUME OPBLOCKS <= MAXOPBLOCKS
    PROVE  Spec => []ReservationHolds
<1>1. Init => LoggedOK /\ ReservationHolds
    BY InitReserves
<1>2. LogInv /\ LogInv' /\ (LoggedOK /\ ReservationHolds) /\ [Next]_vars
        => (LoggedOK /\ ReservationHolds)'
    BY NextReserves
<1> QED
    BY <1>1, <1>2, LogInvariant, PTL DEF Spec

\* log_write finds space, as its operation has a reserved block left.
LEMMA NoPanicStep ==
    ASSUME OPBLOCKS < MAXOPBLOCKS, NLOG = LOGSIZE + 1,
           LogInv, LoggedOK, ReservationHolds, ~panic, [Next]_vars
    PROVE  ~panic'
<1> USE LogAssumption, Numbers DEF LogAssumption
<1>1. ASSUME NEW p \in Procs, NEW b \in Blocks, NEW v \in Vals, LogWrite(p, b, v) PROVE ~panic'
  <2>1. p \in Active
      BY <1>1, Zenon DEF LogWrite, Active
  <2>2. <<p, MAXOPBLOCKS>> \in Unused
    <3>1. Cardinality(wrote[p]) \in Nat /\ Cardinality(wrote[p]) <= OPBLOCKS
        BY FS_CardinalityType, Zenon DEF LoggedOK
    <3> QED
        BY <2>1, <3>1 DEF Unused
  <2>3. Cardinality(Unused) # 0
    <3>1. Cardinality(Unused) = 0 => Unused = {}
        BY UnusedBound, FS_EmptySet, ZenonT(30) DEF UnusedBounded
    <3> QED
        BY <2>2, <3>1
  <2>4. ~(Len(lh) >= LOGSIZE \/ Len(lh) >= NLOG - 1)
      BY <2>3, UnusedBound DEF UnusedBounded, ReservationHolds, LogInv, TypeOK
  <2> QED
      BY <1>1, <2>4, ZenonT(30) DEF LogWrite
<1>2. ASSUME NEW p \in Procs, EndOp(p) PROVE ~panic'
  <2>1. ~committing
      BY <1>2 DEF EndOp, LogInv, Active
  <2> QED
      BY <1>2, <2>1, ZenonT(30) DEF EndOp
<1>3. ASSUME NEW p \in Procs, BeginOp(p) \/ EndCommit(p) PROVE ~panic'
    BY <1>3, Zenon DEF BeginOp, EndCommit
<1>4. CASE Commit
    BY <1>4, Zenon DEF Commit, WriteLog, WriteHead, Install, ClearHead, ReadHead
<1>5. CASE Crash
    BY <1>5, Zenon DEF Crash
<1>6. CASE UNCHANGED vars
    BY <1>6, Zenon DEF vars
<1> QED
    BY <1>1, <1>2, <1>3, <1>4, <1>5, <1>6, ZenonT(30) DEF Next, Done

\* A log with room for LOGSIZE blocks besides its header, and operations that log fewer than
\* MAXOPBLOCKS different blocks, as many as they like at the same time: neither log_write nor
\* end_op panics.  mkfs.c makes the log one block smaller than that.
THEOREM LogSuffices ==
    ASSUME OPBLOCKS < MAXOPBLOCKS, NLOG = LOGSIZE + 1
    PROVE  Spec => []LogFits
<1>1. Init => LoggedOK /\ ReservationHolds
    BY InitReserves
<1>2. LogInv /\ LogInv' /\ (LoggedOK /\ ReservationHolds) /\ [Next]_vars
        => (LoggedOK /\ ReservationHolds)'
  <2>1. OPBLOCKS <= MAXOPBLOCKS
      BY LogAssumption DEF LogAssumption
  <2> QED
      BY <2>1, NextReserves
<1>3. Init => ~panic
    BY Zenon DEF Init
<1>4. LogInv /\ LoggedOK /\ ReservationHolds /\ ~panic /\ [Next]_vars => ~panic'
    BY NoPanicStep, ZenonT(30)
<1> QED
    BY <1>1, <1>2, <1>3, <1>4, LogInvariant, PTL DEF Spec, LogFits

-----------------------------------------------------------------------------
\* What recovery reads for a block: its place in the log if the header names it.
LEMMA RecoveredBlock ==
    ASSUME LogInv
    PROVE  /\ Recovered = [b \in Blocks |-> Recovered[b]]
           /\ \A i \in DOMAIN head : head[i] \in Blocks /\ Recovered[head[i]] = logdata[i]
           /\ \A b \in Blocks \ Range(head) : Recovered[b] = disk[b]
<1>1. ASSUME NEW i \in DOMAIN head PROVE head[i] \in Blocks /\ Recovered[head[i]] = logdata[i]
  <2>1. head[i] \in Blocks /\ head[i] \in Range(head)
      BY DEF LogInv, TypeOK, Range
  <2>2. (CHOOSE j \in DOMAIN head : head[j] = head[i]) = i
      BY Zenon DEF LogInv, Injective
  <2> QED
      BY <2>1, <2>2, ZenonT(30) DEF Recovered
<1>2. Recovered = [b \in Blocks |-> Recovered[b]]
    BY DEF Recovered
<1>3. \A b \in Blocks \ Range(head) : Recovered[b] = disk[b]
    BY ZenonT(30) DEF Recovered
<1> QED
    BY <1>1, <1>2, <1>3, Zenon

\* With an empty header recovery leaves the disk as it is.
LEMMA RecoveredEmpty == ASSUME LogInv, head = <<>> PROVE Recovered = disk
  BY RecoveredBlock DEF Range, LogInv, TypeOK

\* The value of the abstract mem.
Mem == IF Recovering THEN Recovered ELSE cache

\* A step that keeps the header, the log and the home locations keeps what is durable.
LEMMA SameDurable == ASSUME UNCHANGED diskVars PROVE Recovered' = Recovered
  BY DEF diskVars, Recovered

\* The steps of commit: only the write of the header changes what is durable.
LEMMA CommitStep ==
    ASSUME LogInv, LogInv', ~panic, Commit
    PROVE  Active' = Active /\ Mem' = Mem
           /\ (Recovered' = Recovered \/ (Active = {} /\ Recovered' = Mem))
<1>1. CASE WriteLog
  <2>1. /\ phase = "write_log" /\ head = <<>> /\ UNCHANGED <<disk, head, cache, phase, pc, committing>>
      BY <1>1, ZenonT(30) DEF WriteLog, LogInv, logVars
  <2>2. Recovered = disk /\ Recovered' = disk'
      BY <2>1, RecoveredEmpty DEF Recovered, Range, LogInv, TypeOK
  <2> QED
      BY <2>1, <2>2, Zenon DEF Active, Mem, Recovering, Up
<1>2. CASE WriteHead
  <2>1. /\ phase = "write_log" /\ phase' = "install" /\ tail > Len(lh) /\ head' = lh /\ committing
        /\ UNCHANGED <<disk, logdata, lh, cache, pc, committing>>
      BY <1>2, ZenonT(30) DEF WriteHead, LogInv, logVars
  <2>2. Active = {} /\ Active' = Active
      BY <2>1, ZenonT(30) DEF Active, LogInv
  <2>3. Mem = cache /\ Mem' = cache
      BY <2>1, ZenonT(30) DEF Mem, Recovering, Up
  <2>4. Recovered' = cache
    <3>1. /\ Recovered' = [b \in Blocks |-> Recovered'[b]]
          /\ \A i \in DOMAIN lh : Recovered'[lh[i]] = logdata[i]
          /\ \A b \in Blocks \ Range(lh) : Recovered'[b] = disk[b]
      <4>1. ASSUME NEW i \in DOMAIN lh PROVE Recovered'[lh[i]] = logdata[i]
        <5>1. lh[i] \in Blocks /\ lh[i] \in Range(lh)
          <6>1. lh \in Seq(Blocks)
              BY ZenonT(30) DEF LogInv, TypeOK
          <6> QED
              BY <6>1 DEF Range
        <5>2. (CHOOSE j \in DOMAIN lh : lh[j] = lh[i]) = i
            BY ZenonT(30) DEF LogInv, Injective
        <5> QED
            BY <2>1, <5>1, <5>2, ZenonT(30) DEF Recovered
      <4>2. Recovered' = [b \in Blocks |-> IF b \in Range(lh)
                                           THEN logdata[CHOOSE i \in DOMAIN lh : lh[i] = b]
                                           ELSE disk[b]]
          BY <2>1 DEF Recovered
      <4>3. Recovered' = [b \in Blocks |-> Recovered'[b]]
          BY <4>2
      <4>4. \A b \in Blocks \ Range(lh) : Recovered'[b] = disk[b]
          BY <4>2, Zenon
      <4> QED
          BY <4>1, <4>3, <4>4
    <3>2. ASSUME NEW b \in Blocks PROVE Recovered'[b] = cache[b]
      <4>1. CASE b \in Range(lh)
        <5>1. PICK i \in DOMAIN lh : lh[i] = b
            BY <4>1, ZenonT(30) DEF Range
        <5>2. i \in 1..(tail - 1)
            BY <2>1 DEF LogInv, TypeOK
        <5>3. logdata[i] = cache[lh[i]]
            BY <2>1, <5>2, ZenonT(30) DEF LogInv
        <5> QED
            BY <3>1, <5>1, <5>3
      <4>2. CASE b \notin Range(lh)
          BY <2>1, <3>1, <4>2, ZenonT(30) DEF LogInv, OnlyLoggedDiffer
      <4> QED
          BY <4>1, <4>2, Zenon
    <3> QED
        BY <3>1, <3>2 DEF LogInv, TypeOK
  <2> QED
      BY <2>2, <2>3, <2>4, Zenon
<1>3. CASE Install
  <2>1. /\ phase = "install" /\ head = lh /\ tail \in DOMAIN lh
        /\ disk' = [disk EXCEPT ![lh[tail]] = logdata[tail]]
        /\ cache' = [cache EXCEPT ![lh[tail]] = logdata[tail]]
        /\ UNCHANGED <<logdata, head, committing, phase, pc>>
    <3>1. /\ phase = "install" /\ tail <= Len(lh)
          /\ disk' = [disk EXCEPT ![lh[tail]] = logdata[tail]]
          /\ cache' = [cache EXCEPT ![lh[tail]] = logdata[tail]]
          /\ UNCHANGED <<logdata, head, committing, phase, pc>>
        BY <1>3, Zenon DEF Install, logVars
    <3>2. head = lh /\ lh \in Seq(Blocks) /\ tail \in 1..(LOGSIZE + 1)
        BY <3>1, ZenonT(30) DEF LogInv, TypeOK
    <3>3. tail \in DOMAIN lh
        BY <3>1, <3>2
    <3> QED
        BY <3>1, <3>2, <3>3, Zenon
  <2>2. Recovered' = Recovered
    <3>1. ASSUME NEW b \in Blocks, b \notin Range(head) PROVE disk'[b] = disk[b]
        BY <2>1, <3>1, ZenonT(30) DEF Range, LogInv, TypeOK
    <3> QED
        BY <2>1, <3>1 DEF Recovered
  <2>3. committing => cache' = cache
      BY <2>1 DEF LogInv, TypeOK
  <2> QED
      BY <2>1, <2>2, <2>3, ZenonT(30) DEF Active, Mem, Recovering, Up
<1>4. CASE ClearHead
  <2>1. /\ phase = "install" /\ head = lh /\ tail > Len(lh) /\ head' = <<>>
        /\ phase' = IF committing THEN "done" ELSE "run"
        /\ UNCHANGED <<disk, cache, committing, pc>>
      BY <1>4, ZenonT(30) DEF ClearHead, LogInv
  <2>2. Recovered' = disk
      BY <2>1 DEF Recovered, Range, LogInv, TypeOK
  <2>3. Recovered = disk
    <3>1. ASSUME NEW b \in Range(head) PROVE Recovered[b] = disk[b]
      <4>1. PICK i \in DOMAIN head : head[i] = b
          BY ZenonT(30) DEF Range
      <4>2. i \in 1..(tail - 1)
          BY <2>1 DEF LogInv, TypeOK
      <4>3. disk[lh[i]] = logdata[i]
          BY <2>1, <4>2, ZenonT(30) DEF LogInv
      <4> QED
          BY <2>1, <4>1, <4>3, RecoveredBlock
    <3>2. \A b \in Blocks : Recovered[b] = disk[b]
        BY <3>1, RecoveredBlock, Zenon
    <3>3. disk = [b \in Blocks |-> disk[b]]
        BY ZenonT(30) DEF LogInv, TypeOK
    <3> QED
        BY <3>2, <3>3, RecoveredBlock, Zenon
  <2>4. ~committing => cache = disk
      BY <2>1, Zenon DEF LogInv
  <2> QED
      BY <2>1, <2>2, <2>3, <2>4, Zenon DEF Active, Mem, Recovering, Up
<1>5. CASE ReadHead
  <2>1. /\ phase = "boot" /\ phase' = "install" /\ ~committing /\ UNCHANGED <<diskVars, pc, committing>>
      BY <1>5, ZenonT(30) DEF ReadHead, LogInv
  <2> QED
      BY <2>1, SameDurable, ZenonT(30) DEF Active, Mem, Recovering, Up
<1> QED
    BY <1>1, <1>2, <1>3, <1>4, <1>5 DEF Commit

\* The operations: begin_op, log_write and end_op are the abstract ones.
LEMMA OperationStep ==
    ASSUME LogInv, LogInv', ~panic, NEW p \in Procs
    PROVE  /\ BeginOp(p) => /\ Mem' = Mem /\ Recovered' = Recovered
                            /\ Active' = Active \/ Active' = Active \cup {p}
           /\ \A b \in Blocks, v \in Vals :
                LogWrite(p, b, v) => /\ Mem' = [Mem EXCEPT ![b] = v] /\ Recovered' = Recovered
                                     /\ Active' = Active /\ p \in Active
           /\ EndOp(p) => Mem' = Mem /\ Recovered' = Recovered /\ Active' = Active \ {p}
           /\ EndCommit(p) => Mem' = Mem /\ Recovered' = Recovered /\ Active' = Active
<1>1. ASSUME BeginOp(p) PROVE /\ Mem' = Mem /\ Recovered' = Recovered
                              /\ Active' = Active \/ Active' = Active \cup {p}
  <2>1. Up /\ UNCHANGED <<diskVars, cache, committing, phase>>
      BY <1>1, ZenonT(30) DEF BeginOp
  <2>2. Active' = Active \/ Active' = Active \cup {p}
      BY <1>1 DEF BeginOp, Active, LogInv, TypeOK
  <2> QED
      BY <2>1, <2>2, SameDurable DEF Mem, Recovering, Up
<1>2. ASSUME NEW b \in Blocks, NEW v \in Vals, LogWrite(p, b, v)
      PROVE  /\ Mem' = [Mem EXCEPT ![b] = v] /\ Recovered' = Recovered
             /\ Active' = Active /\ p \in Active
  <2>1. /\ p \in Active /\ UNCHANGED <<diskVars, committing, phase, pc>>
        /\ cache' = [cache EXCEPT ![b] = v]
      BY <1>2, ZenonT(30) DEF LogWrite, Active
  <2>2. phase = "run"
      BY <2>1, ZenonT(30) DEF LogInv
  <2> QED
      BY <2>1, <2>2, SameDurable DEF Mem, Recovering, Up, Active
<1>3. ASSUME EndOp(p) PROVE Mem' = Mem /\ Recovered' = Recovered /\ Active' = Active \ {p}
  <2>1. UNCHANGED <<diskVars, cache>> /\ phase = "run"
      BY <1>3, ZenonT(30) DEF EndOp, LogInv, Active
  <2>2. Active' = Active \ {p}
      BY <1>3, ZenonT(30) DEF EndOp, Active, LogInv, TypeOK, Woken
  <2>3. phase' \in {"run", "done", "write_log"}
      BY <1>3, <2>1, Zenon DEF EndOp
  <2> QED
      BY <2>1, <2>2, <2>3, SameDurable, Zenon DEF Mem, Recovering, Up
<1>4. ASSUME EndCommit(p) PROVE Mem' = Mem /\ Recovered' = Recovered /\ Active' = Active
  <2>1. UNCHANGED <<diskVars, cache>> /\ phase = "done" /\ phase' = "run"
      BY <1>4, ZenonT(30) DEF EndCommit
  <2>2. Active' = Active
      BY <1>4, ZenonT(30) DEF EndCommit, LogInv, TypeOK, Woken, Active
  <2> QED
      BY <2>1, <2>2, SameDurable DEF Mem, Recovering, Up
<1> QED
    BY <1>1, <1>2, <1>3, <1>4, Zenon

\* Every step of the log is a step of the atomic disk, or leaves it alone.
LEMMA StepRefines == ASSUME LogInv, LogInv', [Next]_vars PROVE [Abs!Next]_(Abs!vars)
<1>1. CASE UNCHANGED vars
  <2>1. UNCHANGED <<diskVars, cache, phase, committing, pc>>
      BY <1>1 DEF vars, diskVars
  <2> QED
      BY <2>1, SameDurable, Zenon DEF Recovering, Up, Abs!vars
<1>2. CASE Crash
  <2>1. UNCHANGED diskVars /\ phase' = "boot" /\ \A p \in Procs : pc'[p] = "idle"
      BY <1>2 DEF Crash
  <2>2. Abs!Crash
      BY <2>1, SameDurable, Zenon DEF Recovering, Up, Abs!Crash
  <2> QED
      BY <2>2, Zenon DEF Abs!Next
<1>3. CASE Done
    BY <1>1, <1>3 DEF Done
<1>4. CASE ~panic /\ Commit
  <2>1. Active' = Active /\ Mem' = Mem
        /\ (Recovered' = Recovered \/ (Active = {} /\ Recovered' = Mem))
      BY <1>4, CommitStep, ZenonT(30)
  <2>2. Abs!Commit \/ UNCHANGED Abs!vars
      BY <2>1 DEF Mem, Active, Abs!Commit, Abs!vars
  <2> QED
      BY <2>2, Zenon DEF Abs!Next
<1>5. ASSUME ~panic, NEW p \in Procs, BeginOp(p) PROVE [Abs!Next]_(Abs!vars)
  <2>1. /\ Mem' = Mem /\ Recovered' = Recovered
        /\ Active' = Active \/ Active' = Active \cup {p}
      BY <1>5, OperationStep, ZenonT(30)
  <2>2. Abs!Begin(p) \/ UNCHANGED Abs!vars
      BY <2>1 DEF Mem, Active, Abs!Begin, Abs!vars
  <2> QED
      BY <2>2, ZenonT(30) DEF Abs!Next
<1>6. ASSUME ~panic, NEW p \in Procs, EndOp(p) PROVE [Abs!Next]_(Abs!vars)
  <2>1. Mem' = Mem /\ Recovered' = Recovered /\ Active' = Active \ {p}
      BY <1>6, OperationStep, ZenonT(30)
  <2>2. Abs!End(p)
      BY <2>1, Zenon DEF Mem, Active, Abs!End
  <2> QED
      BY <2>2, ZenonT(30) DEF Abs!Next
<1>7. ASSUME ~panic, NEW p \in Procs, EndCommit(p) PROVE [Abs!Next]_(Abs!vars)
  <2>1. Mem' = Mem /\ Recovered' = Recovered /\ Active' = Active
      BY <1>7, OperationStep
  <2> QED
      BY <2>1, Zenon DEF Mem, Active, Abs!vars
<1>8. ASSUME ~panic, NEW p \in Procs, NEW b \in Blocks, NEW v \in Vals, LogWrite(p, b, v)
      PROVE  [Abs!Next]_(Abs!vars)
  <2>1. /\ Mem' = [Mem EXCEPT ![b] = v] /\ Recovered' = Recovered
        /\ Active' = Active /\ p \in Active
      BY <1>8, OperationStep, ZenonT(30)
  <2>2. Abs!Write(p, b, v)
      BY <2>1 DEF Mem, Active, Abs!Write
  <2> QED
      BY <2>2, ZenonT(30) DEF Abs!Next
<1> QED
    BY <1>1, <1>2, <1>3, <1>4, <1>5, <1>6, <1>7, <1>8, Zenon DEF Next

\* The log implements the atomic disk, for any number of processes, blocks and crashes: after
\* a crash at any point of commit or of recover_from_log all the writes of a transaction are
\* found, or none.
THEOREM CrashSafe == Spec => ImplementsAtomicDisk
<1>1. Init => Abs!Init
  <2> SUFFICES ASSUME Init PROVE Abs!Init
      OBVIOUS
  <2>1. Recovered = disk
      BY InitInv, RecoveredEmpty DEF Init
  <2> QED
      BY <2>1, Zenon DEF Init, Abs!Init, Recovering, Up
<1> QED
    BY <1>1, StepRefines, LogInvariant, PTL DEF Spec, ImplementsAtomicDisk, Abs!Spec
=============================================================================
