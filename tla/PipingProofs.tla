---------------------------- MODULE PipingProofs ----------------------------
(***************************************************************************)
(* Proofs about the pipeline: the file table counts the descriptors, the   *)
(* ends of the pipe are open as long as a file stands for them, and the    *)
(* bytes come out in the order in which they went in.                      *)
(***************************************************************************)
EXTENDS PipingSteps, FiniteSetTheorems

\* The descriptors of file f when t are the open files of the processes.
HoldersOf(t, f) == {x \in Procs \X Fd : t[x[1]][x[2]] = f}
Holders(f) == HoldersOf(ofile, f)

\* A process has finitely many descriptors.
LEMMA FdFinite == IsFiniteSet(Fd)
<1>1. 0 \in Int /\ 4 \in Int
  OBVIOUS
<1>2. IsFiniteSet(0..4)
  BY <1>1, FS_Interval, Zenon
<1> QED  BY <1>2, Zenon DEF Fd

\* There are finitely many descriptors.
LEMMA HoldersFinite ==
    ASSUME NEW t, NEW f
    PROVE  IsFiniteSet(HoldersOf(t, f)) /\ Cardinality(HoldersOf(t, f)) \in Nat
<1>1. IsFiniteSet(Procs)
  <2>1. IsFiniteSet({"init"})
    BY FS_Singleton, Zenon
  <2>2. IsFiniteSet({"init"} \cup {"sh"})
    BY <2>1, FS_AddElement, Zenon
  <2>3. IsFiniteSet(({"init"} \cup {"sh"}) \cup {"left"})
    BY <2>2, FS_AddElement, Zenon
  <2>4. IsFiniteSet((({"init"} \cup {"sh"}) \cup {"left"}) \cup {"right"})
    BY <2>3, FS_AddElement, Zenon
  <2>5. Procs = (({"init"} \cup {"sh"}) \cup {"left"}) \cup {"right"}
    BY DEF Procs
  <2> QED  BY <2>4, <2>5, Zenon
<1>3. IsFiniteSet(Procs \X Fd)
  BY <1>1, FdFinite, FS_Product, Zenon
<1>4. HoldersOf(t, f) \subseteq Procs \X Fd
  BY Zenon DEF HoldersOf
<1>5. IsFiniteSet(HoldersOf(t, f))
  BY <1>3, <1>4, FS_Subset, Zenon
<1> QED  BY <1>5, FS_CardinalityType, Zenon

\* A file that is counted zero times has no descriptor.
LEMMA HoldersNone ==
    ASSUME NEW t, NEW f, NEW p \in Procs, NEW d \in Fd, t[p][d] = f
    PROVE  Cardinality(HoldersOf(t, f)) > 0
<1>1. <<p, d>> \in HoldersOf(t, f)
  <2>1. <<p, d>>[1] = p /\ <<p, d>>[2] = d /\ <<p, d>> \in Procs \X Fd
    OBVIOUS
  <2> QED  BY <2>1, Zenon DEF HoldersOf
<1>2. HoldersOf(t, f) # {}
  BY <1>1, Zenon
<1>3. Cardinality(HoldersOf(t, f)) # 0
  BY <1>2, HoldersFinite, FS_EmptySet, Zenon
<1> QED  BY <1>3, HoldersFinite

\* A file that has no descriptor is counted zero times.
LEMMA HoldersZero ==
    ASSUME NEW t, NEW f, \A p \in Procs, d \in Fd : t[p][d] # f
    PROVE  Cardinality(HoldersOf(t, f)) = 0
<1>1. HoldersOf(t, f) = {}
  BY DEF HoldersOf
<1> QED  BY <1>1, FS_EmptySet, Zenon

\* One more descriptor for f.
LEMMA HoldersMore ==
    ASSUME NEW t, NEW u, NEW f, NEW p \in Procs, NEW d \in Fd, AllBut(t, u, p, d),
           t[p][d] # f, u[p][d] = f
    PROVE  Cardinality(HoldersOf(u, f)) = Cardinality(HoldersOf(t, f)) + 1
<1>1. <<p, d>> \notin HoldersOf(t, f)
  BY DEF HoldersOf
<1>2. HoldersOf(u, f) = HoldersOf(t, f) \cup {<<p, d>>}
  BY DEF HoldersOf, AllBut
<1> QED  BY <1>1, <1>2, HoldersFinite, FS_AddElement, Zenon

\* One descriptor less for f.
LEMMA HoldersLess ==
    ASSUME NEW t, NEW u, NEW f, NEW p \in Procs, NEW d \in Fd, AllBut(t, u, p, d),
           t[p][d] = f, u[p][d] # f
    PROVE  Cardinality(HoldersOf(u, f)) = Cardinality(HoldersOf(t, f)) - 1
<1>1. AllBut(u, t, p, d)
  BY Zenon DEF AllBut
<1>2. Cardinality(HoldersOf(t, f)) = Cardinality(HoldersOf(u, f)) + 1
  BY <1>1, HoldersMore, Zenon
<1> QED  BY <1>2, HoldersFinite

\* The descriptors of f are the same.
LEMMA HoldersSame ==
    ASSUME NEW t, NEW u, NEW f, NEW p \in Procs, NEW d \in Fd, AllBut(t, u, p, d),
           t[p][d] # f, u[p][d] # f
    PROVE  Cardinality(HoldersOf(u, f)) = Cardinality(HoldersOf(t, f))
<1>1. HoldersOf(u, f) = HoldersOf(t, f)
  BY DEF HoldersOf, AllBut
<1> QED  BY <1>1, Zenon

\* fork: process n, which had no files, gets those of p.
LEMMA HoldersForked ==
    ASSUME NEW t, NEW u, NEW f, f # NoFile, NEW p \in Procs, NEW n \in Procs, p # n,
           \A q \in Procs, e \in Fd : q # n => u[q][e] = t[q][e],
           \A e \in Fd : t[n][e] = NoFile /\ u[n][e] = t[p][e]
    PROVE  Cardinality(HoldersOf(u, f))
             = Cardinality(HoldersOf(t, f)) + Cardinality({d \in Fd : t[p][d] = f})
<1> DEFINE D == {d \in Fd : t[p][d] = f}
           E == {<<n, d>> : d \in D}
<1>1. HoldersOf(u, f) = HoldersOf(t, f) \cup E
  BY DEF HoldersOf
<1>2. HoldersOf(t, f) \cap E = {}
  BY DEF HoldersOf
<1>3. IsFiniteSet(D)
  BY FdFinite, FS_Subset
<1>4. IsFiniteSet(E) /\ Cardinality(E) = Cardinality(D)
  <2> DEFINE g == [d \in D |-> <<n, d>>]
  <2>1. g \in Bijection(D, E)
    BY DEF Bijection, Injection, Surjection, IsInjective
  <2> HIDE DEF g, D, E
  <2> QED  BY <1>3, <2>1, FS_Bijection DEF ExistsBijection
<1>5. Cardinality(HoldersOf(t, f) \cup E)
        = Cardinality(HoldersOf(t, f)) + Cardinality(E) - Cardinality(HoldersOf(t, f) \cap E)
  BY <1>4, HoldersFinite, FS_Union, Zenon
<1>6. Cardinality(HoldersOf(t, f) \cap E) = 0
  BY <1>2, FS_EmptySet, Zenon
<1>7. Cardinality(D) \in Nat
  BY <1>3, FS_CardinalityType, Zenon
<1> HIDE DEF E, D
<1> QED  BY <1>1, <1>4, <1>5, <1>6, <1>7, HoldersFinite DEF D

-----------------------------------------------------------------------------
(* The file table. *)

Table == Kinds /\ \A f \in File : file[f].ref = Cardinality(Holders(f))

IInv == TypeOK /\ Control /\ Table /\ Ends /\ Stream /\ AtEnd

\* fork counts a file only when its parent holds it.
LEMMA CountedHeld ==
    ASSUME Table, NEW p \in Procs, NEW f \in File
    PROVE  Counted(p, f) \in Nat /\ (Counted(p, f) > 0 => file[f].ref > 0)
<1> DEFINE S == {d \in Fd : ofile[p][d] = f}
<1>1. IsFiniteSet(S)
  BY FdFinite, FS_Subset
<1>2. Cardinality(S) \in Nat /\ (Cardinality(S) = 0 <=> S = {})
  BY <1>1, FS_CardinalityType, FS_EmptySet, Zenon
<1>3. S # {} => Cardinality(HoldersOf(ofile, f)) > 0
  BY HoldersNone, Zenon
<1>4. file[f].ref = Cardinality(HoldersOf(ofile, f))
  BY Zenon DEF Table, Holders
<1>5. Counted(p, f) = Cardinality(S)
  BY Zenon DEF Counted
<1> HIDE DEF S
<1> QED  BY <1>2, <1>3, <1>4, <1>5

\* The counters say that the files of the descriptors are open.
LEMMA HeldIs ==
    ASSUME Table
    PROVE  Held
<1>1. \A p \in Procs, d \in Fd : ofile[p][d] \in File => file[ofile[p][d]].ref > 0
  <2> SUFFICES ASSUME NEW p \in Procs, NEW d \in Fd, NEW f \in File, f = ofile[p][d]
               PROVE  file[f].ref > 0
    OBVIOUS
  <2> QED  BY HoldersNone DEF Table, Holders
<1> QED  BY <1>1, CountedHeld, Zenon DEF Held

\* A step that opens and closes no file.
LEMMA TableSame ==
    ASSUME FileType, Table, UNCHANGED <<file, ofile>>,
           ip["sh"] \in Nat, ip'["sh"] \in Nat, ip'["sh"] >= ip["sh"]
    PROVE  FileType' /\ Table'
BY DEF FileType, Table, Kinds, Holders

\* Only file f changes, into r.
LEMMA FileUpdate ==
    ASSUME FileType, NEW f \in File, NEW r \in FileRec, file' = [file EXCEPT ![f] = r],
           ofile' \in [Procs -> [Fd -> File \cup {NoFile}]]
    PROVE  FileType' /\ file'[f] = r /\ \A g \in File \ {f} : file'[g] = file[g]
BY DEF FileType

\* The counters of the files after a step, f being a file.
Counts(f) == file'[f].ref = Cardinality(HoldersOf(ofile', f))

\* fileclose.
LEMMA TableClose ==
    ASSUME TypeOK, Table, NEW p \in Procs, NEW d \in Fd, NEW l \in {"user", "exit"},
           FileClose(p, d, l), ofile[p][d] \in File,
           ip["sh"] \in Nat, ip'["sh"] \in Nat, ip'["sh"] >= ip["sh"]
    PROVE  FileType' /\ Table'
<1>1. PICK f \in File : f = ofile[p][d]
  OBVIOUS
<1>2. file[f].ref = Cardinality(HoldersOf(ofile, f)) /\ Cardinality(HoldersOf(ofile, f)) > 0
  BY <1>1, HoldersNone DEF Table, Holders
<1>3. PICK r \in FileRec :
        /\ file' = [file EXCEPT ![f] = r]
        /\ r.ref = file[f].ref - 1 /\ r.writable = file[f].writable
        /\ r.type = IF file[f].ref = 1 THEN "none" ELSE file[f].type
  <2>1. file[f] \in FileRec /\ file[f].ref > 0
    BY <1>2 DEF TypeOK, FileType
  <2>2. PICK o \in FileRec : o = file[f]
    BY <2>1
  <2>3. PICK y \in {"none", "dev", "pipe"} : y = IF o.ref = 1 THEN "none" ELSE o.type
    BY DEF FileRec
  <2>7. PICK a : a = [o EXCEPT !.ref = @ - 1]
    BY Zenon
  <2>8. PICK r : r = [a EXCEPT !.type = y]
    BY Zenon
  <2>4. file' = [file EXCEPT ![f].ref = @ - 1, ![f].type = y]
    BY <1>1, <2>2, <2>3 DEF FileClose
  <2>5. file' = [file EXCEPT ![f] = r]
    <3>1. PICK g : g = [file EXCEPT ![f] = a]
      BY Zenon
    <3>2. g[f] = a
      BY <3>1 DEF TypeOK, FileType
    <3>3. file' = [g EXCEPT ![f] = r]
      BY <2>2, <2>4, <2>7, <2>8, <3>1, <3>2, Zenon
    <3> QED  BY <3>1, <3>3, Zenon DEF TypeOK, FileType
  <2>6. r \in FileRec /\ r.ref = o.ref - 1 /\ r.type = y /\ r.writable = o.writable
    <3>1. o.ref - 1 \in Nat
      BY <2>1, <2>2 DEF FileRec
    <3>2. a \in FileRec /\ a.ref = o.ref - 1 /\ a.writable = o.writable
      BY <2>7, <3>1 DEF FileRec
    <3> QED  BY <2>8, <3>2 DEF FileRec
  <2> QED  BY <2>2, <2>3, <2>5, <2>6, Zenon
<1>4. /\ ofile'[p][d] = NoFile /\ AllBut(ofile, ofile', p, d)
      /\ ofile' \in [Procs -> [Fd -> File \cup {NoFile}]]
  BY FileCloseFacts, Zenon
<1>5. file[f].ref \in Nat /\ file[f].ref > 0
  BY <1>2 DEF TypeOK, FileType, FileRec
<1>6. FileType' /\ file'[f] = r /\ \A g \in File \ {f} : file'[g] = file[g]
  BY <1>3, <1>4, FileUpdate, Zenon DEF TypeOK
<1>7. file'[f].ref = file[f].ref - 1
  BY <1>3, <1>6, Zenon
<1>8. \A g \in File : Counts(g)
  <2>1. NoFile \notin File
    BY DEF NoFile, File
  <2>2. Counts(f)
    <3>1. Cardinality(HoldersOf(ofile', f)) = Cardinality(HoldersOf(ofile, f)) - 1
      BY <1>1, <1>4, <2>1, HoldersLess, ZenonT(60)
    <3> QED  BY <1>2, <1>7, <3>1, Zenon DEF Counts
  <2>3. ASSUME NEW g \in File \ {f}
        PROVE  Counts(g)
    <3>1. Cardinality(HoldersOf(ofile', g)) = Cardinality(HoldersOf(ofile, g))
      BY <1>1, <1>4, <2>1, HoldersSame, ZenonT(60)
    <3> QED  BY <1>6, <3>1, Zenon DEF Counts, Table, Holders
  <2> QED  BY <2>2, <2>3, Zenon
<1>9. 1 \in File /\ 2 \in File /\ 3 \in File
  BY DEF File
<1>10. file'[1].type # "pipe"
  BY <1>3, <1>6, <1>9 DEF Table, Kinds
<1>11. \A g \in {2, 3} : IsEnd(g, file'[g]) /\ (file'[g].ref > 0 => ip'["sh"] > 1)
  <2>1. \A g \in {2, 3} : IsEnd(g, file[g]) => IsEnd(g, r) \/ g # f
    BY <1>3, <1>5 DEF IsEnd
  <2> QED  BY <1>3, <1>5, <1>6, <1>9, <2>1 DEF Table, Kinds
<1> QED  BY <1>6, <1>8, <1>10, <1>11, Zenon DEF Table, Kinds, Holders, Counts

\* dup: one more reference to a file of the pipe.
LEMMA TableDup ==
    ASSUME TypeOK, Control, Table, NEW p \in Procs, Dup(p),
           ip["sh"] \in Nat, ip'["sh"] \in Nat, ip'["sh"] >= ip["sh"]
    PROVE  FileType' /\ Table'
<1>1. PICK x : x = fdalloc(p)
  OBVIOUS
<1>2. PICK f : f = argfd(p)
  OBVIOUS
<1>3. /\ x \in Fd /\ ofile[p][x] = NoFile /\ f = (IF p = "left" THEN 3 ELSE 2)
      /\ Arg(p) \in Fd /\ ofile[p][Arg(p)] = f
  BY <1>1, <1>2, DupArg, Zenon
<1>4. f \in {2, 3} /\ f \in File /\ NoFile \notin File /\ 1 \in File /\ 2 \in File /\ 3 \in File
  BY <1>3 DEF File, NoFile
<1>5. ofile' = [ofile EXCEPT ![p][x] = f] /\ file' = [file EXCEPT ![f].ref = @ + 1]
  BY <1>1, <1>2 DEF Dup, filedup
<1>6. file[f].ref = Cardinality(HoldersOf(ofile, f)) /\ Cardinality(HoldersOf(ofile, f)) > 0
  BY <1>3, <1>4, HoldersNone DEF Table, Holders
<1>7. file[f] \in FileRec /\ file[f].ref \in Nat /\ file[f].ref > 0
  BY <1>4, <1>6 DEF TypeOK, FileType, FileRec
<1>8. PICK r \in FileRec :
        /\ file' = [file EXCEPT ![f] = r]
        /\ r.ref = file[f].ref + 1 /\ r.writable = file[f].writable /\ r.type = file[f].type
  <2> DEFINE r == [file[f] EXCEPT !.ref = @ + 1]
  <2>1. file' = [file EXCEPT ![f] = r]
    BY <1>4, <1>5
  <2>2. r \in FileRec /\ r.ref = file[f].ref + 1 /\ r.writable = file[f].writable /\ r.type = file[f].type
    BY <1>7 DEF FileRec
  <2> HIDE DEF r
  <2> QED  BY <2>1, <2>2, Zenon
<1>9. FileType' /\ file'[f] = r /\ \A g \in File \ {f} : file'[g] = file[g]
  <2>1. ofile' \in [Procs -> [Fd -> File \cup {NoFile}]]
    BY <1>3, <1>4, <1>5 DEF TypeOK, FileType
  <2> QED  BY <1>4, <1>8, <2>1, FileUpdate, Zenon DEF TypeOK
<1>10. ofile'[p][x] = f /\ AllBut(ofile, ofile', p, x)
  BY <1>3, <1>5 DEF TypeOK, FileType, AllBut
<1>11. \A g \in File : Counts(g)
  <2>1. Counts(f)
    <3>1. Cardinality(HoldersOf(ofile', f)) = Cardinality(HoldersOf(ofile, f)) + 1
      BY <1>3, <1>4, <1>10, HoldersMore, ZenonT(60)
    <3> QED  BY <1>6, <1>8, <1>9, <3>1, Zenon DEF Counts
  <2>2. ASSUME NEW g \in File \ {f}
        PROVE  Counts(g)
    <3>1. Cardinality(HoldersOf(ofile', g)) = Cardinality(HoldersOf(ofile, g))
      BY <1>3, <1>4, <1>10, HoldersSame, ZenonT(60)
    <3> QED  BY <1>9, <3>1, Zenon DEF Counts, Table, Holders
  <2> QED  BY <2>1, <2>2, Zenon
<1>12. file'[1].type # "pipe"
  BY <1>4, <1>9 DEF Table, Kinds
<1>13. \A g \in {2, 3} : IsEnd(g, file'[g]) /\ (file'[g].ref > 0 => ip'["sh"] > 1)
  <2>1. \A g \in {2, 3} : IsEnd(g, file[g]) => IsEnd(g, r) \/ g # f
    BY <1>7, <1>8 DEF IsEnd
  <2> QED  BY <1>4, <1>7, <1>9, <2>1 DEF Table, Kinds
<1> QED  BY <1>9, <1>11, <1>12, <1>13, Zenon DEF Table, Kinds, Holders, Counts

\* pipe: the two ends.
LEMMA TablePipe ==
    ASSUME TypeOK, Control, Table, NEW p \in Procs, Pipe(p), ip'["sh"] > 1
    PROVE  FileType' /\ Table'
<1>1. /\ p = "sh" /\ \A d \in Fd : ofile[p][d] = Opens(p, 1, d)
      /\ ofile' = [ofile EXCEPT ![p][3] = 2, ![p][4] = 3]
      /\ file' = [file EXCEPT ![2] = [ref |-> 1, type |-> "pipe", writable |-> FALSE],
                              ![3] = [ref |-> 1, type |-> "pipe", writable |-> TRUE]]
      /\ file[1].ref > 0 /\ file[2].ref = 0 /\ file[3].ref = 0
  BY PipeArgs, HeldIs, Zenon DEF Table
<1>2. 1 \in File /\ 2 \in File /\ 3 \in File /\ NoFile \notin File /\ 3 \in Fd /\ 4 \in Fd
  BY DEF File, NoFile, Fd
<1>3. PICK a \in FileRec : a = [ref |-> 1, type |-> "pipe", writable |-> FALSE]
  BY Zenon DEF FileRec
<1>4. PICK b \in FileRec : b = [ref |-> 1, type |-> "pipe", writable |-> TRUE]
  BY Zenon DEF FileRec
<1>14. FileType' /\ file'[2] = a /\ file'[3] = b /\ file'[1] = file[1]
  <2>1. ofile' \in [Procs -> [Fd -> File \cup {NoFile}]]
    BY <1>1, <1>2 DEF TypeOK, FileType
  <2>2. file' = [file EXCEPT ![2] = a, ![3] = b]
    BY <1>1, <1>3, <1>4, Zenon
  <2>3. file' \in [File -> FileRec] /\ file'[2] = a /\ file'[3] = b /\ file'[1] = file[1]
    BY <1>2, <2>2 DEF TypeOK, FileType
  <2> QED  BY <2>1, <2>3 DEF FileType
<1>15. a.ref = 1 /\ b.ref = 1 /\ IsEnd(2, a) /\ IsEnd(3, b)
  BY <1>3, <1>4 DEF IsEnd
<1>5. PICK u : u = [ofile EXCEPT ![p][3] = 2]
  BY Zenon
<1>6. ofile[p][3] = NoFile /\ ofile[p][4] = NoFile
  BY <1>1, <1>2 DEF Opens
<1>7. u[p][3] = 2 /\ u[p][4] = NoFile /\ AllBut(ofile, u, p, 3)
  BY <1>2, <1>5, <1>6 DEF TypeOK, FileType, AllBut
<1>8. ofile'[p][4] = 3 /\ AllBut(u, ofile', p, 4)
  BY <1>1, <1>2, <1>5 DEF TypeOK, FileType, AllBut
<1>16. /\ 3 \in Fd /\ AllBut(ofile, u, p, 3) /\ u[p][3] = 2
       /\ ofile[p][3] # 1 /\ ofile[p][3] # 2 /\ ofile[p][3] # 3
  BY <1>2, <1>6, <1>7, Zenon
<1>17. /\ 4 \in Fd /\ AllBut(u, ofile', p, 4) /\ ofile'[p][4] = 3
       /\ u[p][4] # 1 /\ u[p][4] # 2 /\ u[p][4] # 3
  BY <1>2, <1>7, <1>8, Zenon
<1>18. 1 # 2 /\ 1 # 3 /\ 3 # 2
  OBVIOUS
<1>9. Counts(2)
  <2>1. Cardinality(HoldersOf(u, 2)) = Cardinality(HoldersOf(ofile, 2)) + 1
    BY <1>16, HoldersMore, ZenonT(60)
  <2>2. Cardinality(HoldersOf(ofile', 2)) = Cardinality(HoldersOf(u, 2))
    BY <1>17, <1>18, HoldersSame, ZenonT(60)
  <2> QED  BY <1>1, <1>2, <1>14, <1>15, <2>1, <2>2 DEF Counts, Table, Holders
<1>10. Counts(3)
  <2>1. Cardinality(HoldersOf(u, 3)) = Cardinality(HoldersOf(ofile, 3))
    BY <1>16, <1>18, HoldersSame, ZenonT(60)
  <2>2. Cardinality(HoldersOf(ofile', 3)) = Cardinality(HoldersOf(u, 3)) + 1
    BY <1>17, HoldersMore, ZenonT(60)
  <2> QED  BY <1>1, <1>2, <1>14, <1>15, <2>1, <2>2 DEF Counts, Table, Holders
<1>11. Counts(1)
  <2>2. Cardinality(HoldersOf(u, 1)) = Cardinality(HoldersOf(ofile, 1))
    BY <1>16, <1>18, HoldersSame, ZenonT(60)
  <2>3. Cardinality(HoldersOf(ofile', 1)) = Cardinality(HoldersOf(u, 1))
    BY <1>17, <1>18, HoldersSame, ZenonT(60)
  <2> QED  BY <1>2, <1>14, <2>2, <2>3, Zenon DEF Counts, Table, Holders
<1>12. \A g \in File : Counts(g)
  BY <1>9, <1>10, <1>11 DEF File
<1>13. file'[1].type # "pipe" /\ \A g \in {2, 3} : IsEnd(g, file'[g])
  BY <1>14, <1>15 DEF Table, Kinds
<1> QED  BY <1>12, <1>13, <1>14, Zenon DEF Table, Kinds, Holders, Counts

\* fork: the child holds what its parent holds.
LEMMA TableFork ==
    ASSUME TypeOK, Control, Table, NEW p \in Procs, Fork(p), ip'["sh"] > 1
    PROVE  FileType' /\ Table'
<1>1. PICK n \in Procs : n = Arg(p)
  BY ForkArgs, Zenon
<1>2. Unborn(n)
  BY <1>1, ForkArgs, Zenon
<1>3. /\ p # n /\ ofile'[n] = ofile[p] /\ ofile' \in [Procs -> [Fd -> File \cup {NoFile}]]
      /\ \A q \in Procs \ {n} : ofile'[q] = ofile[q]
  BY <1>1, ForkFacts
<1>4. \A f \in File : Counted(p, f) \in Nat /\ (Counted(p, f) > 0 => file[f].ref > 0)
  BY CountedHeld, Zenon
<1>5. file' = [f \in File |-> [file[f] EXCEPT !.ref = @ + Counted(p, f)]]
  BY DEF Fork
<1>6. ASSUME NEW f \in File
      PROVE  /\ file'[f] \in FileRec /\ file'[f].ref = file[f].ref + Counted(p, f)
             /\ file'[f].writable = file[f].writable /\ file'[f].type = file[f].type
             /\ file[f].ref \in Nat
  <2>1. PICK c \in Nat : c = Counted(p, f)
    BY <1>4
  <2>2. PICK r \in FileRec : r = file[f]
    BY DEF TypeOK, FileType
  <2>3. file'[f] = [r EXCEPT !.ref = @ + c]
    BY <1>5, <2>1, <2>2
  <2>4. [r EXCEPT !.ref = @ + c] \in FileRec /\ r.ref \in Nat
    BY DEF FileRec
  <2> QED  BY <2>1, <2>2, <2>3, <2>4 DEF FileRec
<1>7. FileType'
  BY <1>3, <1>5, <1>6 DEF FileType
<1>8. \A f \in File : Counts(f)
  <2> SUFFICES ASSUME NEW f \in File
               PROVE  Counts(f)
    OBVIOUS
  <2>1. f # NoFile
    BY DEF File, NoFile
  <2>2. \A q \in Procs, e \in Fd : q # n => ofile'[q][e] = ofile[q][e]
    BY <1>3, Zenon
  <2>3. \A e \in Fd : ofile[n][e] = NoFile /\ ofile'[n][e] = ofile[p][e]
    BY <1>2, <1>3, Zenon DEF Unborn
  <2>4. PICK t : t = ofile
    OBVIOUS
  <2>5. PICK u : u = ofile'
    OBVIOUS
  <2>6. /\ \A q \in Procs, e \in Fd : q # n => u[q][e] = t[q][e]
        /\ \A e \in Fd : t[n][e] = NoFile /\ u[n][e] = t[p][e]
    BY <2>2, <2>3, <2>4, <2>5, Zenon
  <2>7. Cardinality(HoldersOf(u, f))
          = Cardinality(HoldersOf(t, f)) + Cardinality({d \in Fd : t[p][d] = f})
    BY <1>3, <2>1, <2>6, HoldersForked
  <2> QED  BY <1>6, <2>4, <2>5, <2>7, Zenon DEF Counts, Counted, Table, Holders
<1>9. file'[1].type # "pipe"
  BY <1>6 DEF Table, Kinds, File
<1>10. ASSUME NEW g \in {2, 3}
       PROVE  IsEnd(g, file'[g])
  <2>1. g \in File
    BY DEF File
  <2>2. IsEnd(g, file[g]) /\ Counted(p, g) \in Nat /\ (Counted(p, g) > 0 => file[g].ref > 0)
    BY <1>4, <2>1, Zenon DEF Table, Kinds
  <2> QED  BY <1>6, <2>1, <2>2 DEF IsEnd
<1> QED  BY <1>7, <1>8, <1>9, <1>10, Zenon DEF Table, Kinds, Holders, Counts

\* Every step keeps the file table.
LEMMA TableNext ==
    ASSUME TypeOK, Control, Table, NEW p \in Procs, PipeStep(p) \/ Kill(p)
    PROVE  FileType' /\ Table'
<1>1. ip["sh"] \in Nat /\ ip'["sh"] \in Nat /\ ip'["sh"] >= ip["sh"]
  BY GoesOn, Zenon
<1>2. CASE Pipe(p)
  <2>1. p = "sh" /\ ip[p] = 1
    BY <1>2, PipeArgs, HeldIs, Zenon DEF Table
  <2>2. ip'["sh"] = 2
    BY <1>2, <2>1 DEF Pipe, Return, TypeOK, ProcType
  <2> QED  BY <1>2, <2>2, TablePipe
<1>3. CASE Fork(p)
  <2>1. p = "sh" /\ ip[p] \in {2, 3}
    BY <1>3, ForkArgs, Zenon
  <2>2. ip'["sh"] > 1
    BY <1>1, <2>1
  <2> QED  BY <1>3, <2>2, TableFork
<1>4. CASE Dup(p)
  BY <1>1, <1>4, TableDup, Zenon
<1>5. CASE Close(p)
  <2>1. Calls(p, "close") /\ FileClose(p, Arg(p), "user")
    BY <1>5, Zenon DEF Close
  <2>2. Arg(p) \in Fd /\ ofile[p][Arg(p)] \in File
    BY <2>1, CloseArg, Zenon
  <2> QED  BY <1>1, <2>1, <2>2, TableClose, ZenonT(60)
<1>6. CASE ExitClose(p)
  <2>1. OpenFds(p) # {} /\ FileClose(p, First(OpenFds(p)), "exit")
    BY <1>6, Zenon DEF ExitClose
  <2>2. First(OpenFds(p)) \in Fd /\ ofile[p][First(OpenFds(p))] \in File
    BY <2>1, ExitFd, Zenon
  <2> QED  BY <1>1, <2>1, <2>2, TableClose, ZenonT(60)
<1>7. CASE UNCHANGED <<file, ofile>>
  BY <1>1, <1>7, TableSame, Zenon DEF TypeOK
<1>8. \/ Pipe(p) \/ Fork(p) \/ Dup(p) \/ Close(p) \/ ExitClose(p) \/ UNCHANGED <<file, ofile>>
  BY Zenon DEF PipeStep, CallFails, PipeClose, StartWrite, PipeWrite, PipeRead, Sleep1, Sleep2, Wait,
         StartExit, Exit, Kill
<1> QED  BY <1>2, <1>3, <1>4, <1>5, <1>6, <1>7, <1>8, Zenon

-----------------------------------------------------------------------------
(* The inductive invariant. *)

\* A step keeps the invariant.
LEMMA IInvNext ==
    IInv /\ [PipeNext]_pipeVars => IInv'
<1> SUFFICES ASSUME IInv, [PipeNext]_pipeVars
             PROVE  IInv'
  OBVIOUS
<1>1. ASSUME NEW p \in Procs, PipeStep(p) \/ Kill(p)
      PROVE  IInv'
  <2>1. ProcType' /\ Control'
    BY <1>1, ControlNext, HeldIs, Zenon DEF IInv, Table
  <2>2. FileType' /\ Table'
    BY <1>1, TableNext, Zenon DEF IInv
  <2>3. Ends'
    BY <1>1, EndsStep, HeldIs, Zenon DEF IInv, Table
  <2>4. DataType' /\ Stream' /\ AtEnd'
    BY <1>1, StreamNext, HeldIs, Zenon DEF IInv, Table
  <2> QED  BY <2>1, <2>2, <2>3, <2>4, Zenon DEF IInv, TypeOK
<1>2. CASE UNCHANGED pipeVars
  <2>1. UNCHANGED <<file, ofile, pipe, state, killed, pc, ip, ret, todo, sent, got, eof>>
    BY <1>2 DEF pipeVars, procVars
  <2>2. TypeOK'
    BY <2>1, Zenon DEF IInv, TypeOK, FileType, ProcType, DataType
  <2>3. Control'
    <3>1. \A q \in Procs : Same(q)
      BY <2>1, Zenon DEF Same
    <3>2. "left" \in Procs /\ "right" \in Procs
      BY DEF Procs
    <3> QED  BY <2>1, <3>1, <3>2, SameFollows, Zenon DEF IInv, Control
  <2>4. Table' /\ Stream' /\ AtEnd'
    BY <2>1, Zenon DEF IInv, Table, Kinds, Holders, Stream, AtEnd
  <2>5. Ends'
    BY <2>1, Zenon DEF IInv, Ends, EndOK
  <2> QED  BY <2>2, <2>3, <2>4, <2>5, Zenon DEF IInv
<1> QED  BY <1>1, <1>2, Zenon DEF PipeNext

\* init and sh have the console as their first three files.
LEMMA InitTable ==
    ASSUME PipeInit
    PROVE  FileType /\ Table
<1>1. /\ file = [f \in File |-> [ref |-> IF f = 1 THEN 6 ELSE 0,
                                 type |-> IF f = 1 THEN "dev" ELSE "none", writable |-> f = 1]]
      /\ ofile = [p \in Procs |-> [d \in Fd |-> IF p \in {"init", "sh"} /\ d < 3 THEN 1 ELSE NoFile]]
  BY DEF PipeInit
<1>2. \A p \in Procs, d \in Fd : ofile[p][d] = IF p \in {"init", "sh"} /\ d < 3 THEN 1 ELSE NoFile
  BY <1>1
<1>3. ofile \in [Procs -> [Fd -> File \cup {NoFile}]]
  BY <1>1 DEF File
<1>4. /\ file[1].ref = 6 /\ file[1].type = "dev"
      /\ file[2].ref = 0 /\ file[2].type = "none" /\ file[3].ref = 0 /\ file[3].type = "none"
  BY <1>1 DEF File
<1>5. file \in [File -> FileRec]
  BY <1>1 DEF FileRec
<1>6. Holders(1) = {<<"init", 0>>, <<"init", 1>>, <<"init", 2>>, <<"sh", 0>>, <<"sh", 1>>, <<"sh", 2>>}
  <2>1. \A p \in Procs, d \in Fd : ofile[p][d] = 1 <=> p \in {"init", "sh"} /\ d \in {0, 1, 2}
    BY <1>2 DEF NoFile, Fd
  <2> QED  BY <2>1 DEF Holders, HoldersOf, Procs, Fd
<1>7. Cardinality(Holders(1)) = 6
  <2> DEFINE A == {<<"init", 0>>}
             B == A \cup {<<"init", 1>>}
             C == B \cup {<<"init", 2>>}
             D == C \cup {<<"sh", 0>>}
             E == D \cup {<<"sh", 1>>}
             G == E \cup {<<"sh", 2>>}
  <2>1. /\ <<"init", 1>> \notin A /\ <<"init", 2>> \notin B /\ <<"sh", 0>> \notin C
        /\ <<"sh", 1>> \notin D /\ <<"sh", 2>> \notin E /\ Holders(1) = G
    BY <1>6
  <2>2. IsFiniteSet(A) /\ Cardinality(A) = 1
    BY FS_Singleton, Zenon
  <2> HIDE DEF A
  <2>3. IsFiniteSet(B) /\ Cardinality(B) = 2
    <3>1. IsFiniteSet(B) /\ Cardinality(B) = Cardinality(A) + 1
      BY <2>1, <2>2, FS_AddElement, Zenon
    <3> QED  BY <2>2, <3>1
  <2> HIDE DEF B
  <2>4. IsFiniteSet(C) /\ Cardinality(C) = 3
    <3>1. IsFiniteSet(C) /\ Cardinality(C) = Cardinality(B) + 1
      BY <2>1, <2>3, FS_AddElement, Zenon
    <3> QED  BY <2>3, <3>1
  <2> HIDE DEF C
  <2>5. IsFiniteSet(D) /\ Cardinality(D) = 4
    <3>1. IsFiniteSet(D) /\ Cardinality(D) = Cardinality(C) + 1
      BY <2>1, <2>4, FS_AddElement, Zenon
    <3> QED  BY <2>4, <3>1
  <2> HIDE DEF D
  <2>6. IsFiniteSet(E) /\ Cardinality(E) = 5
    <3>1. IsFiniteSet(E) /\ Cardinality(E) = Cardinality(D) + 1
      BY <2>1, <2>5, FS_AddElement, Zenon
    <3> QED  BY <2>5, <3>1
  <2> HIDE DEF E
  <2>7. IsFiniteSet(G) /\ Cardinality(G) = 6
    <3>1. IsFiniteSet(G) /\ Cardinality(G) = Cardinality(E) + 1
      BY <2>1, <2>6, FS_AddElement, Zenon
    <3> QED  BY <2>6, <3>1
  <2> HIDE DEF G
  <2> QED  BY <2>1, <2>7, Zenon
<1>8. Cardinality(Holders(2)) = 0 /\ Cardinality(Holders(3)) = 0
  <2>1. \A p \in Procs, d \in Fd : ofile[p][d] # 2 /\ ofile[p][d] # 3
    BY <1>2 DEF NoFile
  <2> QED  BY <2>1, HoldersZero, Zenon DEF Holders
<1>9. \A f \in File : file[f].ref = Cardinality(Holders(f))
  BY <1>4, <1>7, <1>8 DEF File
<1>10. file[1].type # "pipe" /\ \A f \in {2, 3} : IsEnd(f, file[f]) /\ ~(file[f].ref > 0)
  BY <1>4 DEF IsEnd
<1> QED  BY <1>3, <1>5, <1>9, <1>10, Zenon DEF FileType, Table, Kinds

\* The invariant holds at the start.
LEMMA IInvInit ==
    ASSUME PipeInit
    PROVE  IInv
<1>1. FileType /\ Table
  BY InitTable, Zenon
<1>2. ProcType
  BY DEF PipeInit, ProcType, Labels
<1>3. DataType
  <2>1. 0 \in 0..(UINT - 1)
    BY Sizes
  <2>2. pipe = [alloc |-> FALSE, data |-> [i \in 0..(PIPESIZE - 1) |-> 0], nread |-> 0,
                nwrite |-> 0, readopen |-> FALSE, writeopen |-> FALSE]
    BY DEF PipeInit
  <2>3. pipe \in PipeType
    <3>1. PICK z \in [0..(PIPESIZE - 1) -> Nat] : z = [i \in 0..(PIPESIZE - 1) |-> 0]
      BY Zenon
    <3>2. PICK m \in 0..(UINT - 1) : m = 0
      BY <2>1
    <3>3. pipe = [alloc |-> FALSE, data |-> z, nread |-> m, nwrite |-> m, readopen |-> FALSE,
                  writeopen |-> FALSE]
      BY <2>2, <3>1, <3>2, Zenon
    <3> QED  BY <3>3 DEF PipeType
  <2>4. todo = 0 /\ sent = 0 /\ got = <<>> /\ eof = FALSE
    BY Zenon DEF PipeInit
  <2>5. todo \in Nat /\ sent \in Nat /\ got \in Seq(Nat)
    BY <2>4
  <2>6. eof \in BOOLEAN
    BY <2>4, Zenon
  <2> QED  BY <2>3, <2>5, <2>6, Zenon DEF DataType
<1>4. Control
  <2>1. \A p \in Procs : /\ pc[p] = "user" /\ ip[p] = 1
                         /\ state[p] = IF p \in {"init", "sh"} THEN "RUNNABLE" ELSE "UNUSED"
    BY DEF PipeInit
  <2>2. \A p \in Procs, d \in Fd : ofile[p][d] = IF p \in {"init", "sh"} /\ d < 3 THEN 1 ELSE NoFile
    BY DEF PipeInit
  <2>3. Unborn("left") /\ Unborn("right")
    BY <2>1, <2>2 DEF Unborn, Procs
  <2>4. \A p \in {"init", "sh"}, d \in Fd : Opens(p, 1, d) = IF d < 3 THEN 1 ELSE NoFile
    BY DEF Opens, Fd
  <2>5. ASSUME NEW p \in {"init", "sh"}
        PROVE  Follows(p)
    BY <2>1, <2>2, <2>4 DEF Follows, Procs, Writing, Reading
  <2>6. ASSUME NEW p \in {"left", "right"}
        PROVE  Follows(p)
    <3>1. Unborn(p) /\ ~Alive(p) /\ p # "init" /\ pc[p] = "user" /\ state[p] = "UNUSED" /\ ip[p] = 1
      BY <2>1, <2>3 DEF Alive, Procs
    <3> QED  BY <3>1 DEF Follows, Writing, Reading
  <2>7. \A p \in Procs : Follows(p)
    BY <2>5, <2>6 DEF Procs
  <2> QED  BY <2>3, <2>7, Zenon DEF Control
<1>5. Ends
  <2>1. /\ \A p \in Procs : pc[p] = "user"
        /\ pipe.readopen = FALSE /\ pipe.writeopen = FALSE /\ pipe.alloc = FALSE
    BY DEF PipeInit
  <2>2. \A f \in {2, 3} : CloseOf(f) # "user" /\ file[f].ref = 0
    BY DEF PipeInit, CloseOf, File
  <2>3. \A f \in {2, 3} : EndOK(f, FALSE)
    BY <2>1, <2>2 DEF EndOK
  <2> QED  BY <2>1, <2>3, Zenon DEF Ends
<1>6. Stream /\ AtEnd
  BY DEF PipeInit, Stream, AtEnd
<1> QED  BY <1>1, <1>2, <1>3, <1>4, <1>5, <1>6, Zenon DEF IInv, TypeOK

\* The invariant is inductive: what fork, dup, close, exit, pipewrite and piperead do to
\* ftable, the processes and the pipe keeps them in step.
THEOREM PipingInvariant == PipeSpec => []IInv
<1>1. PipeInit => IInv
  BY IInvInit
<1> QED  BY <1>1, IInvNext, PTL DEF PipeSpec

\* StreamOrder, for every size of the pipe and of the counters: pipewrite and piperead lose,
\* repeat and reorder nothing.
THEOREM StreamKept == PipeSpec => []StreamOrder
<1>1. IInv => StreamOrder
  <2> SUFFICES ASSUME IInv
               PROVE  StreamOrder
    OBVIOUS
  <2>1. DataType /\ Stream
    BY Zenon DEF IInv, TypeOK
  <2>2. got \in Seq(Nat) /\ Len(got) \in Nat /\ sent \in Nat /\ Len(got) <= sent
    BY <2>1 DEF DataType, Stream
  <2>3. \A i \in 1..Len(got) : got[i] = i
    BY <2>1, Zenon DEF Stream
  <2>4. got = Iota(Len(got))
    BY <2>2, <2>3 DEF Iota
  <2>5. ASSUME pipe.alloc
        PROVE  got \o Buffered = Iota(sent)
    <3>1. /\ Buffered \in Seq(Nat) /\ Len(Buffered) = Count
          /\ \A i \in 1..Count : Buffered[i] = Len(got) + i
      BY <2>1, <2>5, BufferedIs, Zenon
    <3>2. Count = sent - Len(got) /\ Count \in Nat
      BY <2>1, <2>5, CountIs, Zenon
    <3>3. PICK s \in Seq(Nat), t \in Seq(Nat) : s = got /\ t = Buffered
      BY <2>2, <3>1
    <3>4. /\ s \o t \in Seq(Nat) /\ Len(s \o t) = Len(s) + Len(t)
          /\ \A i \in 1..Len(s) : (s \o t)[i] = s[i]
          /\ \A i \in (Len(s) + 1)..(Len(s) + Len(t)) : (s \o t)[i] = t[i - Len(s)]
      BY Concat, Zenon
    <3>5. PICK u \in Seq(Nat) : u = s \o t
      BY <3>4, Zenon
    <3>6. Len(u) = sent
      BY <2>2, <3>1, <3>2, <3>3, <3>4, <3>5
    <3>7. ASSUME NEW i \in 1..sent
          PROVE  u[i] = i
      <4>1. CASE i <= Len(got)
        <5>1. i \in 1..Len(got)
          BY <2>2, <4>1
        <5> QED  BY <2>3, <3>3, <3>4, <3>5, <5>1, Zenon
      <4>2. CASE ~(i <= Len(got))
        <5>1. /\ i \in (Len(got) + 1)..(Len(got) + Count) /\ i - Len(got) \in 1..Count
              /\ Len(got) + (i - Len(got)) = i
          BY <2>2, <3>2, <4>2
        <5>2. u[i] = Buffered[i - Len(got)]
          BY <3>1, <3>3, <3>4, <3>5, <5>1, Zenon
        <5> QED  BY <3>1, <5>1, <5>2, Zenon
      <4> QED  BY <4>1, <4>2
    <3>8. u = Iota(sent)
      BY <2>2, <3>6, <3>7 DEF Iota
    <3> QED  BY <3>3, <3>5, <3>8, Zenon
  <2> QED  BY <2>2, <2>4, <2>5, Zenon DEF StreamOrder
<1> QED  BY <1>1, PipingInvariant, PTL

\* EofMeansEnd: piperead returns 0 only when every writer is gone and nothing is left.
THEOREM EofAtEnd == PipeSpec => []EofMeansEnd
<1>1. IInv /\ StreamOrder => EofMeansEnd
  <2> SUFFICES ASSUME IInv, StreamOrder, eof
               PROVE  /\ got = Iota(sent)
                      /\ \A p \in Procs, d \in Fd :
                           \/ ofile[p][d] = NoFile
                           \/ file[ofile[p][d]].type # "pipe"
                           \/ ~file[ofile[p][d]].writable
    BY Zenon DEF EofMeansEnd
  <2>1. Len(got) = sent /\ file[3].ref = 0
    BY Zenon DEF IInv, AtEnd
  <2>2. got = Iota(sent)
    BY <2>1, Zenon DEF StreamOrder
  <2>3. ASSUME NEW p \in Procs, NEW d \in Fd, ofile[p][d] # NoFile
        PROVE  file[ofile[p][d]].type # "pipe" \/ ~file[ofile[p][d]].writable
    <3>1. PICK f \in File : f = ofile[p][d]
      BY <2>3 DEF IInv, TypeOK, FileType
    <3>2. file[f].ref > 0
      BY <3>1, HoldersNone DEF IInv, Table, Holders
    <3>3. f = 1 \/ f = 2
      BY <2>1, <3>2 DEF File
    <3>4. file[1].type # "pipe"
      BY Zenon DEF IInv, Table, Kinds
    <3>5. f = 2 => ~file[f].writable
      BY <3>2 DEF IInv, Table, Kinds, IsEnd
    <3> QED  BY <3>1, <3>3, <3>4, <3>5, Zenon
  <2> QED  BY <2>2, <2>3, Zenon
<1> QED  BY <1>1, PipingInvariant, StreamKept, PTL

\* RefsExact: ref counts the descriptors of a file, and the pipe is open at an end, and
\* allocated, exactly as long as somebody can still close it.
THEOREM RefsCounted == PipeSpec => []RefsExact
<1>1. IInv => RefsExact
  <2> SUFFICES ASSUME IInv
               PROVE  RefsExact
    OBVIOUS
  <2>1. \A f \in File :
          file[f].ref = Cardinality({x \in Procs \X Fd : ofile[x[1]][x[2]] = f})
    BY Zenon DEF IInv, Table, Holders, HoldersOf
  <2> DEFINE ends(w) == {f \in File : file[f].ref > 0 /\ file[f].type = "pipe" /\ file[f].writable = w}
  <2>2. \A f \in File : file[f].writable \in BOOLEAN
    BY DEF IInv, TypeOK, FileType, FileRec
  <2>3. file[1].type # "pipe" /\ IsEnd(2, file[2]) /\ IsEnd(3, file[3])
    BY DEF IInv, Table, Kinds
  <2>4. 2 \in File /\ 3 \in File /\ \A f \in File : f = 1 \/ f = 2 \/ f = 3
    BY DEF File
  <2>5. 3 = 3 /\ 2 # 3
    OBVIOUS
  <2>6. ends(TRUE) # {} <=> file[3].ref > 0
    BY <2>2, <2>3, <2>4, <2>5, Zenon DEF IsEnd
  <2>7. ends(FALSE) # {} <=> file[2].ref > 0
    BY <2>2, <2>3, <2>4, <2>5, Zenon DEF IsEnd
  <2> HIDE DEF ends
  <2>8. CloseOf(3) = "closew" /\ CloseOf(2) = "closer"
    BY DEF CloseOf
  <2>9. pipe.writeopen <=> (ends(TRUE) # {} \/ \E p \in Procs : pc[p] = "closew")
    BY <2>6, <2>8, Zenon DEF IInv, Ends, EndOK
  <2>10. pipe.readopen <=> (ends(FALSE) # {} \/ \E p \in Procs : pc[p] = "closer")
    BY <2>7, <2>8, Zenon DEF IInv, Ends, EndOK
  <2>11. pipe.alloc <=> (pipe.readopen \/ pipe.writeopen)
    BY Zenon DEF IInv, Ends
  <2> QED  BY <2>1, <2>9, <2>10, <2>11, Zenon DEF RefsExact, ends
<1> QED  BY <1>1, PipingInvariant, PTL
=============================================================================
