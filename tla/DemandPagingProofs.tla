------------------------- MODULE DemandPagingProofs -------------------------
(***************************************************************************)
(* The system calls keep the invariant IInv too; hence the theorems about  *)
(* the ownership of physical pages.                                        *)
(***************************************************************************)
EXTENDS PageOwnership

\* The time the provers get for a leaf that does not choose one.
USE SMTT(30), ZenonT(30)

-----------------------------------------------------------------------------
(* sbrk, exec, exit and wait. *)

\* freevm(d), with kfree of the page of K, preserves PagesExclusive when the references
\* r0 to d and s0 to the page of K are cleared in the same step.
LEMMA FreeVmStep ==
    ASSUME TypeOK, PagesExclusive, NEW d \in PA, NEW K, FreeVm(d, K),
           NEW r0 \in Refs, Hold[r0] = d, Hold'[r0] = NoPage,
           NEW s0 \in Refs, K \subseteq {Hold[s0]}, Hold'[s0] = NoPage,
           \A q \in Procs : /\ kstack'[q] \in {kstack[q], NoPage} /\ Dir'[q] \in {Dir[q], NoPage}
                            /\ Old'[q] \in {Old[q], NoPage} /\ Tmp'[q] \in {Tmp[q], NoPage}
    PROVE  PagesExclusive' /\ vm' \in [PA -> [VA -> PteType]]
<1> DEFINE S == VmPages(d) \cup K
<1>1. freelist' = freelist \cup S /\ vm' = [vm EXCEPT ![d] = ZeroTable]
  BY DEF FreeVm
<1>2. ZeroTable \in [VA -> PteType] /\ \A a \in VA : ZeroTable[a].st # "present"
  BY DEF ZeroTable, ZeroPte, PteType
<1>3. /\ vm' \in [PA -> [VA -> PteType]]
      /\ \A g \in PA, b \in VA : Pte'[g][b] = IF g = d THEN NoPage ELSE Pte[g][b]
  BY <1>1, <1>2, ZenonT(30) DEF TypeOK, Pte
<1>4. Changes(0, NoPage, 0, NoPage)
  BY <1>3, ZenonT(30) DEF Changes, MayHold
<1>5. \A r \in Refs : Hold'[r] \in {Hold[r], NoPage}
  <2> SUFFICES ASSUME NEW r \in Refs PROVE Hold'[r] \in {Hold[r], NoPage}
    BY Zenon
  <2>1. MayHold(r, Hold'[r], Hold[r], 0, NoPage, 0, NoPage)
    BY <1>4, ChangesHold
  <2> QED  BY <2>1, Zenon DEF MayHold
<1>6. ASSUME NEW r \in Refs, Hold'[r] # NoPage PROVE Hold'[r] \notin S
  <2>1. Hold'[r] = Hold[r]
    BY <1>5, <1>6
  <2>2. Exclusive(Hold, freelist)
    BY ExclusiveHold
  <2>3. Hold[r] # d /\ Hold[r] \notin K
    BY <1>6, <2>1, <2>2 DEF Exclusive
  <2>4. ASSUME NEW a \in VA, vm[d][a].st = "present", vm[d][a].pa = Hold[r]
        PROVE  FALSE
    <3>1. Pte[d][a] = Hold[r]
      BY <2>4 DEF Pte
    <3>2. PteRef(d, a) \in Refs /\ Hold[PteRef(d, a)] = Hold[r] /\ Hold'[PteRef(d, a)] = NoPage
      <4>1. PteRef(d, a) \in Refs /\ Hold[PteRef(d, a)] = Pte[d][a]
        BY HoldHolds DEF Holds
      <4>2. Hold'[PteRef(d, a)] = Pte'[d][a]
        BY HoldHoldsNext DEF Holds
      <4>3. Pte'[d][a] = NoPage
        BY <1>3, Zenon
      <4> QED  BY <3>1, <4>1, <4>2, <4>3, Zenon
    <3>3. PteRef(d, a) = r
      BY <1>6, <2>1, <2>2, <3>2, ZenonT(30) DEF Exclusive
    <3> QED  BY <1>6, <3>2, <3>3
  <2>5. Hold[r] \notin Resident(d)
    BY <2>4 DEF Resident
  <2> QED  BY <2>1, <2>3, <2>5 DEF VmPages
<1>7. PagesExclusive'
  <2>1. freelist' \subseteq freelist \cup S
    BY <1>1
  <2> HIDE DEF S
  <2> QED  BY <2>1, <1>4, <1>6, DropStep
<1> QED  BY <1>3, <1>7, ZenonT(30)

\* freevm gives back pages of PA only.
LEMMA VmPagesPA ==
    ASSUME TypeOK, NEW d \in PA
    PROVE  VmPages(d) \subseteq PA
BY DEF TypeOK, PteType, VmPages, Resident

\* allocuvm, which allocates nothing, preserves the invariant.
LEMMA GrowStep ==
    ASSUME IInv, NEW p \in Procs, Grow(p)
    PROVE  IInv'
<1>1. PICK l \in {"grow", "swap_out"}, n \in Sbrk, new \in SUBSET VA :
        /\ User(p) /\ Goto(p, l)
        /\ vm' = [g \in PA |-> [a \in VA |-> IF g = pgdir[p] /\ a \in new
                                             THEN Absent(TRUE, NoPage) ELSE vm[g][a]]]
        /\ loc' = [loc EXCEPT ![p] = [Idle EXCEPT !.va = sz[p] + n, !.tp = p,
                                                  !.tva = sz[p], !.space = 2]]
        /\ UNCHANGED <<procVars, freelist, swapVars>>
  <2>1. PICK n \in Sbrk :
          LET new == {a \in VA : Pages(sz[p]) <= a /\ a < Pages(sz[p] + n)} IN
          /\ User(p) /\ Goto(p, IF new = {} THEN "grow" ELSE "swap_out")
          /\ vm' = [g \in PA |-> [a \in VA |-> IF g = pgdir[p] /\ a \in new
                                             THEN Absent(TRUE, NoPage) ELSE vm[g][a]]]
          /\ loc' = [loc EXCEPT ![p] = [Idle EXCEPT !.va = sz[p] + n, !.tp = p,
                                                  !.tva = sz[p], !.space = 2]]
          /\ UNCHANGED <<procVars, freelist, swapVars>>
    BY Zenon DEF Grow
  <2> DEFINE new == {a \in VA : Pages(sz[p]) <= a /\ a < Pages(sz[p] + n)}
  <2>2. new \in SUBSET VA
    OBVIOUS
  <2> QED  BY <2>1, <2>2, ZenonT(30)
<1> DEFINE x == [Idle EXCEPT !.va = sz[p] + n, !.tp = p, !.tva = sz[p], !.space = 2]
<1>2. LocOK(x) /\ x.dir = NoPage /\ x.ret = "user" /\ x.space = 2
  BY DEF LocOK, Idle, NoPage
<1>3. Advance(p, l, x) /\ l \in Labels /\ state[p] = "RUNNABLE"
  BY <1>1 DEF User, Advance, Goto, IInv, LocTyped, Labels
<1> HIDE DEF x
<1>4. ~InFlight(p)' /\ ~InFork(p)' /\ ~InExec(p)'
  BY <1>2, <1>3 DEF Advance, IInv, LocTyped, InFlight, InFork, InExec, Evicting
<1>5. Absent(TRUE, NoPage) \in PteType /\ Absent(TRUE, NoPage).st # "present"
  BY DEF Absent, PteType
<1>6. /\ vm' \in [PA -> [VA -> PteType]]
      /\ \A d \in PA, a \in VA : Pte'[d][a] \in {Pte[d][a], NoPage}
  BY <1>1, <1>5, Zenon DEF IInv, TypeOK, Pte
<1>7. TypeOK' /\ UNCHANGED <<state, kstack, pgdir, freelist>>
  BY <1>1, <1>6, ZenonT(30) DEF IInv, TypeOK, procVars, swapVars
<1> QED  BY <1>2, <1>3, <1>4, <1>6, <1>7, Local, ZenonT(30)

\* The end of growproc preserves the invariant.
LEMMA GrowDoneStep ==
    ASSUME IInv, NEW p \in Procs, GrowDone(p)
    PROVE  IInv'
<1>1. /\ Return(p) /\ state[p] = "RUNNABLE"
      /\ UNCHANGED <<state, kstack, pgdir, freelist, vm, swapused, df>>
  BY DEF GrowDone, At, IInv, ProcOK, memVars, swapVars
<1>2. TypeOK' /\ Pte' = Pte
  BY <1>1 DEF IInv, TypeOK, Pte
<1> QED  BY <1>1, <1>2, ReturnStep

\* deallocuvm preserves the invariant: the entries of the freed pages are cleared.
LEMMA ShrinkStep ==
    ASSUME IInv, NEW p \in Procs, Shrink(p)
    PROVE  IInv'
<1>1. PICK gone \in SUBSET VA :
        /\ \A a \in gone : vm[pgdir[p]][a].st = "present"
        /\ User(p)
        /\ freelist' = freelist \cup {vm[pgdir[p]][a].pa : a \in gone}
        /\ vm' = [g \in PA |-> [a \in VA |-> IF g = pgdir[p] /\ a \in gone
                                             THEN ZeroPte ELSE vm[g][a]]]
        /\ UNCHANGED <<state, kstack, pgdir, swapVars, pc, loc>>
  <2>1. PICK n \in Sbrk :
          LET gone == {a \in VA : Pages(sz[p] - n) <= a /\ a * PGSIZE < sz[p]
                                  /\ vm[pgdir[p]][a].st = "present"} IN
          /\ User(p)
          /\ freelist' = freelist \cup {vm[pgdir[p]][a].pa : a \in gone}
          /\ vm' = [g \in PA |-> [a \in VA |-> IF g = pgdir[p] /\ a \in gone
                                               THEN ZeroPte ELSE vm[g][a]]]
          /\ UNCHANGED <<state, kstack, pgdir, swapVars, pc, loc>>
    BY ZenonT(30) DEF Shrink
  <2> DEFINE gone == {a \in VA : Pages(sz[p] - n) <= a /\ a * PGSIZE < sz[p]
                                 /\ vm[pgdir[p]][a].st = "present"}
  <2>2. gone \in SUBSET VA /\ \A a \in gone : vm[pgdir[p]][a].st = "present"
    OBVIOUS
  <2> QED  BY <2>1, <2>2, Zenon
<1> DEFINE d == pgdir[p]
           S == {vm[d][a].pa : a \in gone}
<1>2. d \in PA
  BY <1>1 DEF User, IInv, ProcOK
<1>3. S \subseteq PA
  BY <1>1, <1>2 DEF IInv, TypeOK, PteType
<1>4. ZeroPte \in PteType /\ ZeroPte.st # "present"
  BY DEF ZeroPte, PteType
<1>5. /\ vm' \in [PA -> [VA -> PteType]]
      /\ \A g \in PA, b \in VA : Pte'[g][b] = IF g = d /\ b \in gone THEN NoPage ELSE Pte[g][b]
  BY <1>1, <1>4, ZenonT(30) DEF IInv, TypeOK, Pte
<1>6. TypeOK'
  BY <1>1, <1>3, <1>5, ZenonT(30) DEF IInv, TypeOK, swapVars
<1>7. LocTyped' /\ ProcOK' /\ ForkOK'
  BY <1>1, ZenonT(30) DEF IInv, LocTyped, ProcOK, ForkOK, InFork, InExec, InFlight
<1>8. Changes(0, NoPage, 0, NoPage)
  BY <1>1, <1>5, ZenonT(30) DEF IInv, Changes, MayHold, Dir, Old, Tmp, InFlight
<1>9. ASSUME NEW r \in Refs, Hold'[r] # NoPage PROVE Hold'[r] \notin S
  <2>1. Hold'[r] = Hold[r]
    BY <1>8, <1>9, ChangesHold DEF MayHold
  <2>2. Exclusive(Hold, freelist)
    BY ExclusiveHold DEF IInv
  <2>3. ASSUME NEW a \in gone, vm[d][a].pa = Hold[r] PROVE FALSE
    <3>1. Pte[d][a] = Hold[r] /\ a \in VA
      BY <1>1, <1>2, <2>3 DEF Pte
    <3>2. PteRef(d, a) \in Refs /\ Hold[PteRef(d, a)] = Hold[r] /\ Hold'[PteRef(d, a)] = NoPage
      BY <1>2, <1>5, <3>1, HoldHolds, HoldHoldsNext, ZenonT(30) DEF Holds
    <3>3. PteRef(d, a) = r
      BY <1>9, <2>1, <2>2, <3>2 DEF Exclusive
    <3> QED  BY <1>9, <3>2, <3>3
  <2> QED  BY <2>1, <2>3
<1>10. PagesExclusive'
  <2>1. freelist' \subseteq freelist \cup S
    BY <1>1
  <2> HIDE DEF S
  <2> QED  BY <2>1, <1>8, <1>9, DropStep DEF IInv
<1> QED  BY <1>6, <1>7, <1>10 DEF IInv

\* The commit of exec preserves the invariant: oldpgdir is held until it is freed.
LEMMA ExecStep ==
    ASSUME IInv, NEW p \in Procs, Exec(p)
    PROVE  IInv'
<1> DEFINE d == Kalloc
           r == ProcRef("pgdir", p)
           s == ProcRef("dir", p)
<1>1. PICK f \in Progs :
        /\ User(p) /\ freelist # {} /\ freelist' = freelist \ {d}
        /\ vm' = [vm EXCEPT ![d] = ImageTable(f)]
        /\ pgdir' = [pgdir EXCEPT ![p] = d]
        /\ loc' = [loc EXCEPT ![p] = [Idle EXCEPT !.tp = p, !.tva = ImageSize(f) - PGSIZE,
                                                  !.space = 1, !.dir = pgdir[p]]]
        /\ Goto(p, "swap_out")
        /\ UNCHANGED <<state, kstack, swapVars>>
  BY Zenon DEF Exec
<1>2. d \in freelist /\ d \in PA /\ state[p] = "RUNNABLE" /\ pgdir[p] \in PA
  BY <1>1, KallocFree DEF IInv, User, ProcOK
<1>3. ImageTable(f) \in [VA -> PteType] /\ \A a \in VA : ImageTable(f)[a].st # "present"
  BY DEF ImageTable, ZeroPte, Absent, PteType
<1> HIDE DEF d
<1>4. /\ vm' \in [PA -> [VA -> PteType]]
      /\ \A g \in PA, b \in VA : Pte'[g][b] \in {Pte[g][b], NoPage}
  BY <1>1, <1>3, ZenonT(30) DEF IInv, TypeOK, Pte
<1>5. TypeOK'
  BY <1>1, <1>2, <1>4 DEF IInv, TypeOK, swapVars
<1> DEFINE x == [Idle EXCEPT !.tp = p, !.tva = ImageSize(f) - PGSIZE, !.space = 1,
                             !.dir = pgdir[p]]
<1>6. LocOK(x) /\ x.dir = pgdir[p] /\ x.ret = "user"
  BY <1>2 DEF LocOK, Idle, NoPage
<1>7. Advance(p, "swap_out", x) /\ "swap_out" \in Labels
  BY <1>1 DEF Advance, Goto, IInv, LocTyped, Labels
<1> HIDE DEF x
<1>8. ~InFlight(p)' /\ ~InFork(p)'
  BY <1>6, <1>7 DEF Advance, IInv, LocTyped, InFlight, InFork, Evicting
<1>9. LocTyped' /\ ProcOK' /\ ForkOK'
  <2>1. \A q \in Procs : state[q] \in {"RUNNABLE", "ZOMBIE"} => pgdir'[q] \in PA
    BY <1>1, <1>2 DEF IInv, TypeOK, ProcOK
  <2> QED  BY <1>1, <1>2, <1>6, <1>7, <1>8, <2>1, Moves
<1>10. /\ Dir[p] = pgdir[p] /\ Dir'[p] = d /\ Old'[p] = pgdir[p] /\ Tmp'[p] = NoPage
       /\ \A q \in Procs : q # p => Dir'[q] = Dir[q] /\ Old'[q] = Old[q] /\ Tmp'[q] = Tmp[q]
  BY <1>1, <1>2, <1>6, <1>7, <1>8 DEF Advance, Dir, Old, Tmp, InFlight, IInv, TypeOK, LocTyped
<1>11. /\ r \in Refs /\ s \in Refs /\ Hold[r] = pgdir[p] /\ Hold'[r] = d /\ Hold'[s] = pgdir[p]
  BY <1>10, HoldHolds, HoldHoldsNext, ZenonT(30) DEF Holds
<1>12. r # s
  BY DEF ProcRef
<1>13. Changes(r, d, s, Hold[r])
  BY <1>1, <1>4, <1>10, <1>11 DEF Changes, MayHold
<1>14. PagesExclusive'
  <2> HIDE DEF r, s
  <2> QED  BY <1>1, <1>2, <1>11, <1>12, <1>13, PushStep DEF IInv
<1> QED  BY <1>5, <1>9, <1>14 DEF IInv

\* freevm(oldpgdir) preserves the invariant.
LEMMA ExecDoneStep ==
    ASSUME IInv, NEW p \in Procs, ExecDone(p)
    PROVE  IInv'
<1> DEFINE d == loc[p].dir
           r == ProcRef("dir", p)
<1>0. FreeVm(d, {})
  BY DEF ExecDone
<1>1. /\ Return(p) /\ pc[p] = "exec" /\ state[p] = "RUNNABLE"
      /\ UNCHANGED <<state, kstack, pgdir, swapVars>>
  BY ZenonT(30) DEF ExecDone, At, IInv, ProcOK, procVars
<1>2. d \in PA
  <2>1. InExec(p)
    BY <1>1, ZenonT(30) DEF InExec
  <2> QED  BY <2>1, ZenonT(30) DEF IInv, ProcOK
<1>3. r \in Refs /\ Hold[r] = d /\ Hold'[r] = NoPage
  <2>1. Old[p] = d /\ Old'[p] = NoPage
    BY <1>1, Returned DEF Old
  <2> QED  BY <2>1, HoldHolds, HoldHoldsNext, ZenonT(30) DEF Holds
<1>4. \A q \in Procs : /\ kstack'[q] \in {kstack[q], NoPage} /\ Dir'[q] \in {Dir[q], NoPage}
                       /\ Old'[q] \in {Old[q], NoPage} /\ Tmp'[q] \in {Tmp[q], NoPage}
  BY <1>1, Returned
<1>5. PagesExclusive' /\ vm' \in [PA -> [VA -> PteType]]
  <2>1. PICK K : K = {}
    BY ZenonT(30)
  <2>2. K \subseteq {Hold[r]} /\ FreeVm(d, K)
    BY <1>0, <2>1
  <2> HIDE DEF d, r
  <2> QED  BY <1>2, <1>3, <1>4, <2>2, FreeVmStep DEF IInv
<1>6. freelist' \subseteq PA
  BY <1>0, <1>2, VmPagesPA, ZenonT(30) DEF FreeVm, IInv, TypeOK
<1>7. TypeOK'
  BY <1>1, <1>5, <1>6 DEF IInv, TypeOK, swapVars
<1> QED  BY <1>1, <1>5, <1>7, Returned, ZenonT(30) DEF IInv

\* An exec that fails on the header preserves the invariant.
LEMMA ExecFailEarlyStep ==
    ASSUME IInv, NEW p \in Procs, ExecFailEarly(p)
    PROVE  IInv'
BY Stutter DEF ExecFailEarly, memVars, swapVars

\* An exec that fails after setupkvm preserves the invariant.
LEMMA ExecFailLateStep ==
    ASSUME IInv, NEW p \in Procs, ExecFailLate(p)
    PROVE  IInv'
<1>1. /\ UNCHANGED <<state, kstack, pgdir, memVars, df, pc, loc>> /\ swapused' \subseteq swapused
  BY ZenonT(30) DEF ExecFailLate, swap_free
<1>2. TypeOK' /\ Pte' = Pte
  BY <1>1 DEF IInv, TypeOK, Pte, memVars
<1> QED  BY <1>1, <1>2, Still DEF memVars

\* exit preserves the invariant: the memory of a zombie stays its own.
LEMMA ExitStep ==
    ASSUME IInv, NEW p \in Procs, Exit(p)
    PROVE  IInv'
<1>1. /\ pc[p] = "user" /\ state[p] = "RUNNABLE" /\ state' = [state EXCEPT ![p] = "ZOMBIE"]
      /\ UNCHANGED <<kstack, pgdir, memVars, swapVars, pc, loc>>
  BY ZenonT(30) DEF Exit, User, At
<1>2. TypeOK'
  BY <1>1 DEF IInv, TypeOK, memVars, swapVars
<1>3. LocTyped' /\ ProcOK'
  BY <1>1, ZenonT(30) DEF IInv, TypeOK, LocTyped, ProcOK, InExec, InFlight
<1>4. ForkOK'
  BY <1>1, ZenonT(30) DEF IInv, TypeOK, ForkOK, InFork
<1>5. Changes(0, NoPage, 0, NoPage) /\ freelist' = freelist
  BY <1>1, ZenonT(30) DEF IInv, TypeOK, Changes, MayHold, Pte, Dir, Old, Tmp, InFlight, memVars
<1>6. PagesExclusive'
  BY <1>5, KeepStep DEF IInv
<1> QED  BY <1>2, <1>3, <1>4, <1>6 DEF IInv

\* wait preserves the invariant: the reaped slot holds no page any more.
LEMMA WaitStep ==
    ASSUME IInv, NEW p \in Procs, Wait(p)
    PROVE  IInv'
<1> DEFINE dead == {q \in Procs : parent[q] = p /\ state[q] = "ZOMBIE"}
           c == CHOOSE q \in dead : \A r \in dead : q <= r
           d == pgdir[c]
           k == kstack[c]
           r0 == ProcRef("pgdir", c)
           s0 == ProcRef("kstack", c)
<1>1. /\ dead # {} /\ FreeVm(d, {k}) /\ kstack' = [kstack EXCEPT ![c] = NoPage]
      /\ state' = [state EXCEPT ![c] = "UNUSED"] /\ swapused' \subseteq swapused
      /\ UNCHANGED <<pgdir, df, pc, loc>>
  BY DEF Wait, swap_free
<1>2. c \in dead
  <2>1. dead \subseteq Nat
    BY DEF Procs
  <2>2. \E x \in dead : \A y \in dead : x <= y
    BY <1>1, <2>1, MinExists, Zenon
  <2> HIDE DEF dead
  <2> QED  BY <2>2
<1>3. c \in Procs /\ state[c] = "ZOMBIE" /\ d \in PA /\ k \in PA /\ pc[c] = "user"
  BY <1>2 DEF IInv, ProcOK
<1> HIDE DEF c
<1>4. LocTyped' /\ ProcOK'
  BY <1>1, <1>3, ZenonT(30) DEF IInv, TypeOK, LocTyped, ProcOK, InExec, InFlight
<1>5. ForkOK'
  BY <1>1, <1>3, ZenonT(30) DEF IInv, TypeOK, ForkOK, InFork
<1>6. \A q \in Procs : kstack'[q] \in {kstack[q], NoPage} /\ Dir'[q] \in {Dir[q], NoPage}
  BY <1>1, <1>3, ZenonT(30) DEF IInv, TypeOK, Dir
<1>7. \A q \in Procs : Old'[q] \in {Old[q], NoPage} /\ Tmp'[q] \in {Tmp[q], NoPage}
  BY <1>1, ZenonT(30) DEF Old, Tmp, InFlight
<1>8. kstack'[c] = NoPage /\ Dir[c] = d /\ Dir'[c] = NoPage
  BY <1>1, <1>3 DEF IInv, TypeOK, Dir
<1>9. /\ r0 \in Refs /\ Hold[r0] = d /\ Hold'[r0] = NoPage
      /\ s0 \in Refs /\ Hold[s0] = k /\ Hold'[s0] = NoPage
  BY <1>3, <1>8, HoldHolds, HoldHoldsNext, ZenonT(30) DEF Holds
<1>10. PagesExclusive' /\ vm' \in [PA -> [VA -> PteType]]
  <2>1. {k} \subseteq {Hold[s0]}
    BY <1>9
  <2>2. TypeOK /\ PagesExclusive /\ d \in PA /\ FreeVm(d, {k})
    BY <1>1, <1>3 DEF IInv
  <2>3. \A q \in Procs : /\ kstack'[q] \in {kstack[q], NoPage} /\ Dir'[q] \in {Dir[q], NoPage}
                         /\ Old'[q] \in {Old[q], NoPage} /\ Tmp'[q] \in {Tmp[q], NoPage}
    BY <1>6, <1>7
  <2> HIDE DEF d, r0, s0, k
  <2> QED  BY <1>9, <2>1, <2>2, <2>3, FreeVmStep, ZenonT(30)
<1>11. freelist' \subseteq PA
  BY <1>1, <1>3, VmPagesPA, ZenonT(30) DEF FreeVm, IInv, TypeOK
<1>12. TypeOK'
  BY <1>1, <1>3, <1>10, <1>11 DEF IInv, TypeOK
<1> QED  BY <1>4, <1>5, <1>10, <1>12 DEF IInv

-----------------------------------------------------------------------------
(* fork, every step, and the theorems. *)

\* allocproc preserves the invariant: the slot was unused, so no other fork owns it.
LEMMA ForkAllocStep ==
    ASSUME IInv, NEW p \in Procs, ForkAlloc(p)
    PROVE  IInv'
<1> DEFINE free == {q \in Procs : state[q] = "UNUSED"}
           np == CHOOSE q \in free : \A r \in free : q <= r
           g == Kalloc
           r0 == ProcRef("kstack", np)
<1>1. CASE freelist = {}
  <2>1. UNCHANGED <<state, kstack, pgdir, freelist, vm, swapused, df, pc, loc>>
    BY <1>1 DEF ForkAlloc, swapVars
  <2> QED  BY <2>1, Stutter
<1>2. CASE freelist # {}
  <2>1. /\ User(p) /\ free # {}
        /\ state' = [state EXCEPT ![np] = "EMBRYO"]
        /\ kstack' = [kstack EXCEPT ![np] = g]
        /\ freelist' = freelist \ {g}
        /\ loc' = [loc EXCEPT ![p] = [Idle EXCEPT !.np = np, !.lpid = nextpid, !.ret = "copy_map"]]
        /\ Goto(p, "copyuvm")
        /\ UNCHANGED <<pgdir, vm, swapVars>>
    BY <1>2 DEF ForkAlloc
  <2>2. np \in free
    <3>1. free \subseteq Nat
      BY DEF Procs
    <3>2. \E x \in free : \A y \in free : x <= y
      BY <2>1, <3>1, MinExists, Zenon
    <3> HIDE DEF free
    <3> QED  BY <3>2
  <2>3. g \in freelist /\ g \in PA
    BY <1>2, KallocFree DEF IInv
  <2>4. np \in Procs /\ state[np] = "UNUSED" /\ np # p /\ pc[np] = "user" /\ state[p] = "RUNNABLE"
    BY <2>1, <2>2, ZenonT(30) DEF User, IInv, ProcOK
  <2> DEFINE x == [Idle EXCEPT !.np = np, !.lpid = nextpid, !.ret = "copy_map"]
  <2> HIDE DEF np, g
  <2>5. LocOK(x) /\ x.dir = NoPage /\ x.np = np
    BY DEF LocOK, Idle, NoPage
  <2>6. Advance(p, "copyuvm", x) /\ "copyuvm" \in Labels /\ pc[p] = "user"
    BY <2>1 DEF User, At, Advance, Goto, IInv, LocTyped, Labels
  <2> HIDE DEF x
  <2>7. TypeOK'
    BY <2>1, <2>3, <2>4 DEF IInv, TypeOK, swapVars
  <2>8. LocTyped'
    BY <2>5, <2>6 DEF Advance, IInv, LocTyped
  <2>9. ProcOK'
    BY <2>1, <2>3, <2>4, <2>6 DEF Advance, IInv, TypeOK, LocTyped, ProcOK, InExec, InFlight
  <2>10. ForkOK'
    <3>1. \A q \in Procs : q # p /\ InFork(q)' => InFork(q) /\ loc'[q] = loc[q] /\ pc'[q] = pc[q]
      BY <2>6, ZenonT(30) DEF Advance, InFork, IInv, LocTyped
    <3>2. \A q \in Procs : InFork(q) => loc[q].np # np
      BY <2>4, ZenonT(30) DEF IInv, ForkOK
    <3>3. loc'[p].np = np /\ pc'[p] = "copyuvm" /\ state'[np] = "EMBRYO"
      BY <2>1, <2>4, <2>5, <2>6 DEF Advance, IInv, TypeOK, LocTyped
    <3>4. \A q \in Procs : q # np => state'[q] = state[q]
      BY <2>1 DEF IInv, TypeOK
    <3>5. \A q \in Procs : InFork(q)' => loc'[q].np \in Procs /\ state'[loc'[q].np] = "EMBRYO"
      <4> SUFFICES ASSUME NEW q \in Procs, InFork(q)'
                   PROVE  loc'[q].np \in Procs /\ state'[loc'[q].np] = "EMBRYO"
        BY Zenon
      <4>1. CASE q = p
        BY <2>4, <3>3, <4>1, Zenon
      <4>2. CASE q # p
        <5>1. InFork(q) /\ loc'[q] = loc[q] /\ loc[q].np # np
          BY <3>1, <3>2, <4>2, Zenon
        <5>2. loc[q].np \in Procs /\ state[loc[q].np] = "EMBRYO"
          BY <5>1, Zenon DEF IInv, ForkOK
        <5> QED  BY <3>4, <5>1, <5>2, Zenon
      <4> QED  BY <4>1, <4>2, Zenon
    <3>6. \A q \in Procs : InFork(q)' /\ pc'[q] # "copyuvm" => loc'[q].dir \in PA
      BY <3>1, <3>3, Zenon DEF IInv, ForkOK
    <3>7. \A q, v \in Procs : InFork(q)' /\ InFork(v)' /\ loc'[q].np = loc'[v].np => q = v
      BY <3>1, <3>2, <3>3, Zenon DEF IInv, ForkOK
    <3> QED  BY <3>5, <3>6, <3>7, Zenon DEF ForkOK
  <2>11. /\ \A q \in Procs : /\ Dir'[q] \in {Dir[q], NoPage} /\ Old'[q] \in {Old[q], NoPage}
                             /\ Tmp'[q] \in {Tmp[q], NoPage}
         /\ \A q \in Procs : q # np => kstack'[q] = kstack[q]
         /\ kstack'[np] = g /\ Pte' = Pte
    <3>1. \A q \in Procs : Dir'[q] \in {Dir[q], NoPage}
      BY <2>1, <2>4 DEF Dir, IInv, TypeOK
    <3>2. \A q \in Procs : Old'[q] \in {Old[q], NoPage}
      BY <2>5, <2>6 DEF Advance, Old
    <3>3. \A q \in Procs : Tmp'[q] \in {Tmp[q], NoPage}
      BY <2>6 DEF Advance, Tmp, InFlight, IInv, LocTyped
    <3>4. Pte' = Pte
      BY <2>1 DEF Pte
    <3> QED  BY <2>1, <2>4, <3>1, <3>2, <3>3, <3>4 DEF IInv, TypeOK
  <2>12. Changes(r0, g, r0, g)
    BY <2>11, ZenonT(30) DEF Changes, MayHold
  <2>13. PagesExclusive'
    <3> HIDE DEF r0
    <3> QED  BY <2>1, <2>3, <2>12, TakeStep DEF IInv
  <2> QED  BY <2>7, <2>8, <2>9, <2>10, <2>13 DEF IInv
<1> QED  BY <1>1, <1>2

\* A fork that fails gives its slot back; the slots of other forks are not touched.
LEMMA SlotFreed ==
    ASSUME IInv, NEW p \in Procs, InFork(p), Return(p),
           kstack' = [kstack EXCEPT ![loc[p].np] = NoPage],
           state' = [state EXCEPT ![loc[p].np] = "UNUSED"],
           pgdir' = [pgdir EXCEPT ![loc[p].np] = NoPage]
    PROVE  /\ LocTyped' /\ ProcOK' /\ ForkOK'
           /\ \A q \in Procs : /\ kstack'[q] \in {kstack[q], NoPage} /\ Dir'[q] \in {Dir[q], NoPage}
                               /\ Old'[q] \in {Old[q], NoPage} /\ Tmp'[q] \in {Tmp[q], NoPage}
           /\ Old'[p] = NoPage /\ kstack'[loc[p].np] = NoPage
<1> DEFINE np == loc[p].np
<1>1. Advance(p, "user", Idle) /\ LocOK(Idle) /\ Idle.dir = NoPage /\ "user" \in Labels
  BY Returns, Zenon DEF IInv
<1>2. np \in Procs /\ state[np] = "EMBRYO" /\ pc[np] = "user"
  BY ZenonT(30) DEF IInv, ForkOK, ProcOK
<1>3. LocTyped'
  BY <1>1, ZenonT(30) DEF Advance, IInv, LocTyped
<1>4. ProcOK'
  BY <1>1, <1>2, ZenonT(30) DEF Advance, IInv, TypeOK, LocTyped, ProcOK, InExec, InFlight
<1>5. ForkOK'
  <2>1. \A q \in Procs : InFork(q)' => q # p /\ InFork(q) /\ loc'[q] = loc[q] /\ pc'[q] = pc[q]
    BY <1>1, ZenonT(30) DEF Advance, InFork, Evicting, IInv, LocTyped
  <2>2. \A q \in Procs : q # p /\ InFork(q) => loc[q].np # np
    BY ZenonT(30) DEF IInv, ForkOK
  <2>3. \A q \in Procs : q # np => state'[q] = state[q]
    BY DEF IInv, TypeOK
  <2> QED  BY <2>1, <2>2, <2>3, ZenonT(60) DEF IInv, ForkOK
<1>6. \A q \in Procs : kstack'[q] \in {kstack[q], NoPage} /\ kstack'[np] = NoPage
  BY <1>2 DEF IInv, TypeOK
<1>7. \A q \in Procs : Dir'[q] \in {Dir[q], NoPage}
  BY <1>2 DEF Dir, IInv, TypeOK
<1>8. \A q \in Procs : Old'[q] \in {Old[q], NoPage} /\ Old'[p] = NoPage
  BY <1>1 DEF Advance, Old
<1>9. \A q \in Procs : Tmp'[q] \in {Tmp[q], NoPage}
  BY <1>1 DEF Advance, Tmp, InFlight, IInv, LocTyped
<1> QED  BY <1>3, <1>4, <1>5, <1>6, <1>7, <1>8, <1>9

\* setupkvm in copyuvm, and the failure of fork without a page, preserve the invariant.
LEMMA CopyDirStep ==
    ASSUME IInv, NEW p \in Procs, CopyDir(p)
    PROVE  IInv'
<1> DEFINE np == loc[p].np
<1>0. pc[p] = "copyuvm" /\ state[p] = "RUNNABLE" /\ UNCHANGED <<vm, swapVars>>
  BY DEF CopyDir, At, IInv, ProcOK
<1>1. InFork(p) /\ Pte' = Pte
  BY <1>0 DEF InFork, Pte
<1>2. CASE freelist = {}
  <2> DEFINE g == kstack[np]
             r0 == ProcRef("kstack", np)
  <2>1. /\ freelist' = {g} /\ kstack' = [kstack EXCEPT ![np] = NoPage]
        /\ pgdir' = [pgdir EXCEPT ![np] = NoPage]
        /\ state' = [state EXCEPT ![np] = "UNUSED"] /\ Return(p)
    BY <1>2 DEF CopyDir
  <2>2. np \in Procs /\ g \in PA
    BY <1>1, ZenonT(30) DEF IInv, ForkOK, ProcOK
  <2>3. TypeOK'
    BY <1>0, <2>1, <2>2, ZenonT(30) DEF IInv, TypeOK, swapVars
  <2>4. Changes(0, NoPage, 0, NoPage)
    BY <1>0, <1>1, <2>1, SlotFreed, ZenonT(30) DEF Changes, MayHold
  <2>5. r0 \in Refs /\ Hold[r0] = g /\ Hold'[r0] = NoPage
    <3>1. kstack'[np] = NoPage
      BY <1>0, <1>1, <2>1, SlotFreed, ZenonT(30)
    <3> QED  BY <2>2, <3>1, HoldHolds, HoldHoldsNext, ZenonT(30) DEF Holds
  <2>6. ASSUME NEW r \in Refs, Hold'[r] # NoPage PROVE Hold'[r] \notin {g}
    <3>1. Hold'[r] = Hold[r]
      BY <2>4, <2>6, ChangesHold DEF MayHold
    <3>2. Exclusive(Hold, freelist)
      BY ExclusiveHold DEF IInv
    <3> QED  BY <2>5, <2>6, <3>1, <3>2, ZenonT(30) DEF Exclusive
  <2>7. PagesExclusive'
    <3>1. freelist' \subseteq freelist \cup {g}
      BY <2>1
    <3> HIDE DEF g
    <3> QED  BY <2>4, <2>6, <3>1, DropStep, ZenonT(30) DEF IInv
  <2> QED  BY <1>0, <1>1, <2>1, <2>3, <2>7, SlotFreed, ZenonT(30) DEF IInv
<1>3. CASE freelist # {}
  <2> DEFINE g == Kalloc
             r == ProcRef("dir", p)
             x == loc'[p]
  <2>1. /\ freelist' = freelist \ {g} /\ loc' = [loc EXCEPT ![p].dir = g] /\ Goto(p, "copy_page")
        /\ UNCHANGED <<state, kstack, pgdir>>
    BY <1>3 DEF CopyDir
  <2>2. g \in freelist /\ g \in PA
    BY <1>3, KallocFree DEF IInv
  <2>3. /\ Advance(p, "copy_page", x) /\ LocOK(x) /\ x.dir = g /\ x.np = loc[p].np
        /\ "copy_page" \in Labels
    BY <2>1, <2>2 DEF Advance, Goto, IInv, LocTyped, LocOK, Idle, Labels
  <2>4. ~InFlight(p)' /\ ~InExec(p)'
    BY <2>3 DEF InFlight, InExec, Advance, IInv, LocTyped
  <2>5. LocTyped' /\ ProcOK' /\ ForkOK'
    BY <1>0, <1>1, <2>1, <2>2, <2>3, <2>4, Moves, ZenonT(30) DEF IInv, ProcOK
  <2>6. TypeOK' /\ Dir' = Dir
    BY <1>0, <2>1 DEF IInv, TypeOK, Dir, swapVars
  <2>7. \A q \in Procs : Tmp'[q] \in {Tmp[q], NoPage} /\ (q # p => Old'[q] = Old[q])
    BY <2>3, <2>4, ZenonT(30) DEF Advance, Old, Tmp, InFlight, IInv, LocTyped
  <2>8. Old'[p] = g
    BY <2>3 DEF Old
  <2>9. Changes(r, g, r, g)
    BY <1>1, <2>1, <2>6, <2>7, <2>8 DEF Changes, MayHold
  <2>10. PagesExclusive'
    <3> HIDE DEF r
    <3> QED  BY <2>1, <2>2, <2>9, TakeStep DEF IInv
  <2> QED  BY <2>5, <2>6, <2>10 DEF IInv
<1> QED  BY <1>2, <1>3

\* Mapping the copied page in the child preserves the invariant.
LEMMA CopyMapStep ==
    ASSUME IInv, NEW p \in Procs, CopyMap(p)
    PROVE  IInv'
<1> DEFINE g == loc[p].page
           d == loc[p].dir
           a == loc[p].va
           e == Present(vm[pgdir[p]][a].u, g)
           r == PteRef(d, a)
           s == ProcRef("page", p)
           x == loc'[p]
<1>1. /\ pc[p] = "copy_map" /\ state[p] = "RUNNABLE" /\ vm' = Put(d, a, e)
      /\ loc' = [loc EXCEPT ![p].va = a + 1] /\ Goto(p, "copy_page")
      /\ UNCHANGED <<state, kstack, pgdir, freelist, swapused, df>>
  BY DEF CopyMap, Put, At, IInv, ProcOK, procVars, swapVars
<1>2. TypeOK /\ InFork(p) /\ InFlight(p) /\ g \in PA /\ d \in PA /\ pgdir[p] \in PA
  BY <1>1 DEF IInv, ProcOK, ForkOK, InFlight, InFork
<1>3. /\ vm' \in [PA -> [VA -> PteType]]
      /\ \A h \in PA, b \in VA : (h = d /\ b = a) \/ Pte'[h][b] = Pte[h][b]
      /\ \A h \in PA, b \in VA : h = d /\ b = a => Pte'[h][b] \in {g, NoPage}
  <2>1. CASE a \in VA
    <3>1. vm[pgdir[p]][a].u \in BOOLEAN
      BY <1>2, <2>1 DEF TypeOK, PteType
    <3>2. e \in PteType /\ e.pa = g
      BY <1>2, <3>1, PresentIs, Zenon
    <3> HIDE DEF a, d, e
    <3> QED  BY <1>1, <1>2, <3>2, VmPut
  <2>2. CASE a \notin VA
    <3>1. vm' = vm
      BY <1>1, <1>2, <2>2 DEF TypeOK, Put
    <3> QED  BY <1>2, <2>2, <3>1, ZenonT(30) DEF TypeOK, Pte
  <2> QED  BY <2>1, <2>2, ZenonT(30)
<1>4. TypeOK'
  BY <1>1, <1>3, ZenonT(30) DEF IInv, TypeOK
<1>5. /\ Advance(p, "copy_page", x) /\ LocOK(x) /\ x.dir = d /\ x.np = loc[p].np
      /\ "copy_page" \in Labels
  BY <1>1 DEF Advance, Goto, IInv, LocTyped, LocOK, Idle, Labels
<1>6. ~InFlight(p)' /\ ~InExec(p)'
  BY <1>5 DEF InFlight, InExec, Advance, IInv, LocTyped
<1>7. LocTyped' /\ ProcOK' /\ ForkOK'
  BY <1>1, <1>2, <1>5, <1>6, Moves, ZenonT(30) DEF IInv, ProcOK
<1>8. /\ Dir' = Dir /\ Tmp[p] = g /\ Tmp'[p] = NoPage
      /\ \A q \in Procs : Tmp'[q] \in {Tmp[q], NoPage} /\ Old'[q] = Old[q]
  BY <1>1, <1>2, <1>5, <1>6 DEF Advance, Dir, Old, Tmp, InFlight, IInv, LocTyped
<1>9. s \in Refs /\ Hold[s] = g /\ Hold'[s] = NoPage
  BY <1>8, HoldHolds, HoldHoldsNext, ZenonT(30) DEF Holds
<1>10. Changes(r, g, r, g)
  BY <1>1, <1>3, <1>8, ZenonT(30) DEF Changes, MayHold
<1>11. PagesExclusive'
  BY <1>1, <1>9, <1>10, MoveStep DEF IInv
<1> QED  BY <1>4, <1>7, <1>11 DEF IInv

\* One round of the loop of copyuvm preserves the invariant.
LEMMA CopyPageStep ==
    ASSUME IInv, NEW p \in Procs, CopyPage(p)
    PROVE  IInv'
<1> DEFINE a == loc[p].va
<1>0. /\ pc[p] = "copy_page" /\ state[p] = "RUNNABLE"
      /\ UNCHANGED <<state, kstack, pgdir, swapused, df>>
  BY DEF CopyPage, At, IInv, ProcOK, procVars, swapVars
<1>1. InFork(p) /\ loc[p].dir \in PA /\ LocOK(loc[p])
  BY <1>0 DEF IInv, ForkOK, InFork, LocTyped
<1>2. ASSUME NEW l \in {"fork", "fork_bad"}, Goto(p, l), UNCHANGED <<vm, freelist, loc>>
      PROVE  IInv'
  <2>1. Advance(p, l, loc[p]) /\ l \in Labels /\ l # "copyuvm"
    BY <1>2 DEF Advance, Goto, IInv, LocTyped, Labels
  <2>2. ~InFlight(p)' /\ ~InExec(p)'
    BY <2>1, ZenonT(30) DEF InFlight, InExec, Advance, IInv, LocTyped
  <2>3. TypeOK' /\ Pte' = Pte
    BY <1>0, <1>2 DEF IInv, TypeOK, Pte
  <2> QED  BY <1>0, <1>1, <1>2, <2>1, <2>2, <2>3, Local, ZenonT(30)
<1>3. ASSUME vm' = [vm EXCEPT ![loc[p].dir][a] = Absent(TRUE, loc[p].page)],
             loc' = [loc EXCEPT ![p].va = a + 1], UNCHANGED <<freelist, pc>>
      PROVE  IInv'
  <2> DEFINE e == Absent(TRUE, loc[p].page)
             x == loc'[p]
  <2>1. e \in PteType /\ e.st # "present" /\ vm' = Put(loc[p].dir, a, e) /\ TypeOK
    BY <1>1, <1>3 DEF Absent, PteType, LocOK, Put, IInv
  <2>2. /\ vm' \in [PA -> [VA -> PteType]]
        /\ \A g \in PA, b \in VA : Pte'[g][b] \in {Pte[g][b], NoPage}
    <3> HIDE DEF e, a
    <3> QED  BY <2>1, VmPutAbsent, ZenonT(30)
  <2>3. /\ Advance(p, "copy_page", x) /\ LocOK(x) /\ x.dir = loc[p].dir /\ x.np = loc[p].np
        /\ "copy_page" \in Labels
    BY <1>0, <1>3 DEF Advance, IInv, LocTyped, LocOK, Idle, Labels
  <2>4. ~InFlight(p)' /\ ~InExec(p)'
    BY <2>3 DEF InFlight, InExec, Advance, IInv, LocTyped
  <2>5. TypeOK'
    BY <1>0, <1>3, <2>2, ZenonT(30) DEF IInv, TypeOK
  <2> HIDE DEF x
  <2> QED  BY <1>0, <1>1, <1>3, <2>2, <2>3, <2>4, <2>5, Local
<1>4. ASSUME NEW l \in {"get_lru", "copy_map"}, Goto(p, l), freelist # {},
             freelist' = freelist \ {Kalloc}, loc' = [loc EXCEPT ![p].page = Kalloc],
             UNCHANGED vm
      PROVE  IInv'
  <2> DEFINE g == Kalloc
             r == ProcRef("page", p)
             x == loc'[p]
  <2>1. g \in freelist /\ g \in PA
    BY <1>4, KallocFree DEF IInv
  <2>2. /\ Advance(p, l, x) /\ LocOK(x) /\ x.page = g /\ x.dir = loc[p].dir
        /\ x.np = loc[p].np /\ l \in Labels
    BY <1>4, <2>1 DEF Advance, Goto, IInv, LocTyped, LocOK, Idle, Labels
  <2>3. ~InExec(p)'
    BY <2>2 DEF InExec, Advance, IInv, LocTyped
  <2> HIDE DEF g
  <2>4. LocTyped' /\ ProcOK' /\ ForkOK'
    BY <1>0, <1>1, <2>1, <2>2, <2>3, Moves, ZenonT(30) DEF IInv, ProcOK
  <2>5. TypeOK' /\ Pte' = Pte /\ Dir' = Dir
    BY <1>0, <1>4 DEF IInv, TypeOK, Pte, Dir
  <2>6. \A q \in Procs : Old'[q] = Old[q] /\ (q # p => Tmp'[q] = Tmp[q])
    BY <2>2, ZenonT(30) DEF Advance, Old, Tmp, InFlight, IInv, LocTyped
  <2>7. Tmp'[p] \in {g, NoPage}
    BY <2>2 DEF Tmp
  <2>8. Changes(r, g, r, g)
    BY <1>0, <2>5, <2>6, <2>7, ZenonT(30) DEF Changes, MayHold
  <2>9. PagesExclusive'
    <3>1. freelist' = freelist \ {g}
      BY <1>4 DEF g
    <3> HIDE DEF r
    <3> QED  BY <2>1, <2>8, <3>1, TakeStep DEF IInv
  <2> QED  BY <2>4, <2>5, <2>9 DEF IInv
<1>5. \/ Goto(p, "fork") /\ UNCHANGED <<vm, freelist, loc>>
      \/ Goto(p, "fork_bad") /\ UNCHANGED <<vm, freelist, loc>>
      \/ /\ vm' = [vm EXCEPT ![loc[p].dir][a] = Absent(TRUE, loc[p].page)]
         /\ loc' = [loc EXCEPT ![p].va = a + 1] /\ UNCHANGED <<freelist, pc>>
      \/ /\ freelist # {} /\ freelist' = freelist \ {Kalloc}
         /\ loc' = [loc EXCEPT ![p].page = Kalloc] /\ UNCHANGED vm
         /\ Goto(p, "get_lru") \/ Goto(p, "copy_map")
  BY DEF CopyPage
<1> QED  BY <1>2, <1>3, <1>4, <1>5

\* copyuvm's bad path and the cleanup in fork preserve the invariant.
LEMMA ForkBadStep ==
    ASSUME IInv, NEW p \in Procs, ForkBad(p)
    PROVE  IInv'
<1> DEFINE np == loc[p].np
           d == loc[p].dir
           k == kstack[np]
           r == ProcRef("dir", p)
           s == ProcRef("kstack", np)
<1>1. /\ pc[p] = "fork_bad" /\ Return(p) /\ FreeVm(d, {k})
      /\ kstack' = [kstack EXCEPT ![np] = NoPage]
      /\ state' = [state EXCEPT ![np] = "UNUSED"] /\ pgdir' = [pgdir EXCEPT ![np] = NoPage]
      /\ swapused' \subseteq swapused /\ df' = df
  BY ZenonT(30) DEF ForkBad, At, swap_free
<1>2. InFork(p) /\ d \in PA /\ np \in Procs /\ k \in PA
  BY <1>1, ZenonT(30) DEF IInv, ForkOK, ProcOK, InFork
<1>3. r \in Refs /\ Hold[r] = d /\ Hold'[r] = NoPage
  <2>1. Old[p] = d /\ Old'[p] = NoPage
    BY <1>1, <1>2, SlotFreed, ZenonT(30) DEF Old
  <2> QED  BY <2>1, HoldHolds, HoldHoldsNext, ZenonT(30) DEF Holds
<1>4. s \in Refs /\ Hold[s] = k /\ Hold'[s] = NoPage
  <2>1. kstack'[np] = NoPage
    BY <1>1, <1>2, SlotFreed, Zenon
  <2> QED  BY <1>2, <2>1, HoldHolds, HoldHoldsNext, ZenonT(30) DEF Holds
<1>5. \A q \in Procs : /\ kstack'[q] \in {kstack[q], NoPage} /\ Dir'[q] \in {Dir[q], NoPage}
                       /\ Old'[q] \in {Old[q], NoPage} /\ Tmp'[q] \in {Tmp[q], NoPage}
  BY <1>1, <1>2, SlotFreed, ZenonT(30)
<1>6. PagesExclusive' /\ vm' \in [PA -> [VA -> PteType]]
  <2>1. {k} \subseteq {Hold[s]}
    BY <1>4, ZenonT(30)
  <2> HIDE DEF d, r, s, k
  <2> QED  BY <1>1, <1>2, <1>3, <1>4, <1>5, <2>1, FreeVmStep, ZenonT(30) DEF IInv
<1>7. freelist' \subseteq PA
  BY <1>1, <1>2, VmPagesPA, ZenonT(30) DEF FreeVm, IInv, TypeOK
<1>8. TypeOK'
  BY <1>1, <1>2, <1>6, <1>7, ZenonT(30) DEF IInv, TypeOK
<1> QED  BY <1>1, <1>2, <1>6, <1>8, SlotFreed, ZenonT(30) DEF IInv

\* fork handing the page table to the child preserves the invariant.
LEMMA ForkDoneStep ==
    ASSUME IInv, NEW p \in Procs, ForkDone(p)
    PROVE  IInv'
<1> DEFINE np == loc[p].np
           d == loc[p].dir
           r == ProcRef("pgdir", np)
           s == ProcRef("dir", p)
<1>1. /\ pc[p] = "fork" /\ Return(p) /\ pgdir' = [pgdir EXCEPT ![np] = d]
      /\ state' = [state EXCEPT ![np] = "RUNNABLE"] /\ DOMAIN df' = Slots
      /\ UNCHANGED <<kstack, vm, freelist, swapused>>
  BY DEF ForkDone, swap_fork, At, memVars
<1>2. /\ InFork(p) /\ d \in PA /\ np \in Procs /\ state[np] = "EMBRYO" /\ kstack[np] \in PA
      /\ pc[np] = "user" /\ state[p] = "RUNNABLE"
  BY <1>1, ZenonT(30) DEF IInv, ForkOK, ProcOK, InFork
<1>3. Advance(p, "user", Idle) /\ LocOK(Idle) /\ Idle.dir = NoPage /\ "user" \in Labels
  BY <1>1, Returns, Zenon DEF IInv
<1>4. TypeOK'
  BY <1>1, <1>2, ZenonT(30) DEF IInv, TypeOK
<1>5. LocTyped'
  BY <1>3 DEF Advance, IInv, LocTyped
<1>6. ProcOK'
  BY <1>1, <1>2, <1>3, ZenonT(30) DEF Advance, IInv, TypeOK, LocTyped, ProcOK, InExec, InFlight
<1>7. ForkOK'
  <2>1. \A q \in Procs : InFork(q)' => q # p /\ InFork(q) /\ loc'[q] = loc[q] /\ pc'[q] = pc[q]
    BY <1>3, ZenonT(30) DEF Advance, InFork, Evicting, IInv, LocTyped
  <2>2. \A q \in Procs : q # p /\ InFork(q) => loc[q].np # np
    BY <1>2, ZenonT(30) DEF IInv, ForkOK
  <2>3. \A q \in Procs : q # np => state'[q] = state[q]
    BY <1>1, ZenonT(30) DEF IInv, TypeOK
  <2> QED  BY <2>1, <2>2, <2>3, ZenonT(60) DEF IInv, ForkOK
<1>8. Dir'[np] = d /\ \A q \in Procs : q # np => Dir'[q] = Dir[q]
  BY <1>1, <1>2, ZenonT(30) DEF Dir, IInv, TypeOK
<1>9. Old[p] = d /\ Old'[p] = NoPage /\ \A q \in Procs : Old'[q] \in {Old[q], NoPage}
  BY <1>3, ZenonT(30) DEF Advance, Old
<1>10. \A q \in Procs : Tmp'[q] \in {Tmp[q], NoPage}
  BY <1>3, ZenonT(30) DEF Advance, Tmp, InFlight, IInv, LocTyped
<1>11. Pte' = Pte
  BY <1>1 DEF Pte
<1>12. s \in Refs /\ Hold[s] = d /\ Hold'[s] = NoPage
  BY <1>9, HoldHolds, HoldHoldsNext, ZenonT(30) DEF Holds
<1>13. Changes(r, d, r, d)
  BY <1>1, <1>8, <1>9, <1>10, <1>11, ZenonT(30) DEF Changes, MayHold
<1>14. PagesExclusive'
  BY <1>1, <1>12, <1>13, MoveStep, ZenonT(30) DEF IInv
<1> QED  BY <1>4, <1>5, <1>6, <1>7, <1>14 DEF IInv

\* Every step of the kernel and of user code preserves the invariant.
LEMMA NextStep == IInv /\ [Next]_vars => IInv'
<1> SUFFICES ASSUME IInv, [Next]_vars PROVE IInv'
  OBVIOUS
<1>1. CASE UNCHANGED vars
  BY <1>1, Stutter DEF vars, procVars, memVars, swapVars
<1>2. CASE Halted
  BY <1>2, Stutter DEF Halted, vars, procVars, memVars, swapVars
<1>3. ASSUME NEW p \in Procs,
             \/ Store(p) \/ Fault(p) \/ Load(p)
             \/ LruInsert(p) \/ LruDelete(p) \/ Victim(p)
             \/ SwapTail(p) \/ SwapAlloc(p) \/ WriteSwap(p) \/ Demap(p)
             \/ SwapIn(p) \/ ReadSwapAlloc(p) \/ ReadSwapMap(p)
      PROVE  IInv'
  BY <1>3, StoreStep, FaultStep, LoadStep, LruInsertStep, LruDeleteStep, VictimStep,
     SwapTailStep, SwapAllocStep, WriteSwapStep, DemapStep, SwapInStep, ReadSwapAllocStep,
     ReadSwapMapStep
<1>4. ASSUME NEW p \in Procs,
             \/ Grow(p) \/ GrowDone(p) \/ Shrink(p)
             \/ Exec(p) \/ ExecDone(p) \/ ExecFailEarly(p) \/ ExecFailLate(p)
             \/ Exit(p) \/ Wait(p)
      PROVE  IInv'
  BY <1>4, GrowStep, GrowDoneStep, ShrinkStep, ExecStep, ExecDoneStep, ExecFailEarlyStep,
     ExecFailLateStep, ExitStep, WaitStep
<1>5. ASSUME NEW p \in Procs,
             \/ ForkAlloc(p) \/ CopyDir(p) \/ CopyPage(p) \/ CopyMap(p)
             \/ ForkBad(p) \/ ForkDone(p)
      PROVE  IInv'
  BY <1>5, ForkAllocStep, CopyDirStep, CopyPageStep, CopyMapStep, ForkBadStep, ForkDoneStep
<1> QED  BY <1>1, <1>2, <1>3, <1>4, <1>5 DEF Next, Run

\* The ownership invariant holds in every reachable state, for every number of
\* processes, pages, slots and calls, with operations interleaved in any way.
THEOREM Ownership == Spec => []IInv
BY InitStep, NextStep, PTL DEF Spec

\* Type correctness: in particular kfree only ever puts pages of the machine on the
\* free list and a present entry maps a page.
THEOREM Typed == Spec => []TypeOK
<1>1. IInv => TypeOK
  BY DEF IInv
<1> QED  BY <1>1, Ownership, PTL

\* No physical page is ever mapped twice, or mapped and free, or used by two owners in
\* the kernel, whatever kalloc, kfree, copyuvm, exec, faults and evictions interleave.
THEOREM Exclusivity == Spec => []PagesExclusive
<1>1. IInv => PagesExclusive
  BY DEF IInv
<1> QED  BY <1>1, Ownership, PTL

=============================================================================
