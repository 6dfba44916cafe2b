--------------------------- MODULE PageOwnership ---------------------------
(***************************************************************************)
(* The ownership of physical pages, for any number of processes, pages and *)
(* slots: the ways in which a step may change who holds which page, and    *)
(* the proof that the page-fault handler and the eviction it calls keep    *)
(* the invariant IInv.                                                     *)
(***************************************************************************)
EXTENDS DemandPaging, WellFoundedInduction, TLAPS

\* The time the provers get for a leaf that does not choose one.
USE SMTT(30), ZenonT(30)

-----------------------------------------------------------------------------
\* A nonempty set of naturals has a least element: the first free slot of ptable or
\* of swap_bitmap, and the first zombie child, exist.
LEMMA MinExists ==
    ASSUME NEW S, S \subseteq Nat, S # {}
    PROVE  \E x \in S : \A y \in S : x <= y
<1> DEFINE R == {ss \in Nat \X Nat : ss[1] < ss[2]}
<1>1. IsWellFoundedOn(R, Nat)
  BY NatLessThanWellFounded DEF OpToRel
<1>2. \E x \in S : \A y \in S : ~(<<y, x>> \in R)
  BY <1>1, WFMin, Zenon
<1>3. \A x, y \in Nat : ~(<<y, x>> \in R) => x <= y
  OBVIOUS
<1> QED  BY <1>2, <1>3, Zenon

\* PagesExclusive for any assignment H of pages to references and any free list F.
Exclusive(H, F) ==
    \A r \in Refs : H[r] # NoPage =>
        /\ H[r] \notin F
        /\ \A s \in Refs : H[s] = H[r] => s = r

\* The page each reference holds.
Hold == [r \in Refs |-> RefPage(r)]

\* References only let go, and the pages of S that join the free list are held by
\* nobody: kfree, deallocuvm and freevm keep pages exclusive.
LEMMA Drop ==
    ASSUME NEW H, NEW G, NEW F, NEW E, NEW S,
           Exclusive(H, F),
           \A r \in Refs : G[r] \in {H[r], NoPage},
           E \subseteq F \cup S,
           \A r \in Refs : G[r] # NoPage => G[r] \notin S
    PROVE  Exclusive(G, E)
BY DEF Exclusive

\* One reference takes a page from the free list: kalloc keeps pages exclusive.
LEMMA Take ==
    ASSUME NEW H, NEW G, NEW F, NEW E, NEW g \in F, NEW r0,
           Exclusive(H, F),
           \A r \in Refs : r # r0 => G[r] \in {H[r], NoPage},
           r0 \in Refs => G[r0] \in {H[r0], NoPage, g},
           E = F \ {g}
    PROVE  Exclusive(G, E)
BY DEF Exclusive

\* One reference takes over what another one lets go: mapping a page that was
\* allocated earlier keeps pages exclusive.
LEMMA Move ==
    ASSUME NEW H, NEW G, NEW F, NEW r0, NEW s0 \in Refs,
           Exclusive(H, F),
           \A r \in Refs : r # r0 => G[r] \in {H[r], NoPage},
           r0 \in Refs => G[r0] \in {H[r0], NoPage, H[s0]},
           G[s0] = NoPage
    PROVE  Exclusive(G, F)
BY DEF Exclusive

\* A reference takes a free page and hands its old page to another: exec installing a
\* new page table keeps pages exclusive.
LEMMA Push ==
    ASSUME NEW H, NEW G, NEW F, NEW E, NEW g \in F, NEW r0 \in Refs, NEW s0 \in Refs,
           r0 # s0,
           Exclusive(H, F),
           \A r \in Refs : r # r0 /\ r # s0 => G[r] \in {H[r], NoPage},
           G[r0] = g, G[s0] = H[r0],
           E = F \ {g}
    PROVE  Exclusive(G, E)
BY DEF Exclusive

\* Hold, split into functions of the page tables and of the processes.
Pte == [d \in PA |-> [a \in VA |-> IF vm[d][a].st = "present" THEN vm[d][a].pa ELSE NoPage]]
Dir == [p \in Procs |-> IF state[p] \in {"RUNNABLE", "ZOMBIE"} THEN pgdir[p] ELSE NoPage]
Old == [p \in Procs |-> loc[p].dir]
Tmp == [p \in Procs |-> IF InFlight(p) THEN loc[p].page ELSE NoPage]

\* The references, by kind.
PteRef(d, a) == <<"pte", d, a>>
ProcRef(k, p) == <<k, p, 0>>

\* H assembles the pages held by kernel stacks, entries, page tables, "dir" and "page".
Holds(H, K, P, D, O, T) ==
    /\ \A d \in PA, a \in VA : PteRef(d, a) \in Refs /\ H[PteRef(d, a)] = P[d][a]
    /\ \A p \in Procs : /\ ProcRef("kstack", p) \in Refs /\ H[ProcRef("kstack", p)] = K[p]
                         /\ ProcRef("pgdir", p) \in Refs /\ H[ProcRef("pgdir", p)] = D[p]
                         /\ ProcRef("dir", p) \in Refs /\ H[ProcRef("dir", p)] = O[p]
                         /\ ProcRef("page", p) \in Refs /\ H[ProcRef("page", p)] = T[p]

\* A reference is an entry of a page table or belongs to a process.
LEMMA RefKinds ==
    ASSUME NEW r \in Refs
    PROVE  \/ \E d \in PA, a \in VA : r = PteRef(d, a)
           \/ \E p \in Procs : r = ProcRef("kstack", p)
           \/ \E p \in Procs : r = ProcRef("pgdir", p)
           \/ \E p \in Procs : r = ProcRef("dir", p)
           \/ \E p \in Procs : r = ProcRef("page", p)
BY DEF Refs, PteRef, ProcRef

\* Hold, reference by reference, in the current state ...
LEMMA HoldHolds == Holds(Hold, kstack, Pte, Dir, Old, Tmp)
BY ZenonT(30) DEF Holds, Hold, Refs, RefPage, Pte, Dir, Old, Tmp, PteRef, ProcRef

\* ... and in the next one.
LEMMA HoldHoldsNext == Holds(Hold, kstack, Pte, Dir, Old, Tmp)'
BY ZenonT(30) DEF Holds, Hold, Refs, RefPage, Pte, Dir, Old, Tmp, PteRef, ProcRef

\* PagesExclusive, stated through Hold, in the current state ...
LEMMA ExclusiveHold == PagesExclusive <=> Exclusive(Hold, freelist)
BY DEF PagesExclusive, Exclusive, Hold

\* ... and in the next one.
LEMMA ExclusiveHoldNext == PagesExclusive' <=> Exclusive(Hold, freelist)'
BY DEF PagesExclusive, Exclusive, Hold

\* What reference r may hold after a step: what it held, nothing, or the new page
\* that the step gives to r0 (g) or to s0 (h).
MayHold(r, new, old, r0, g, s0, h) ==
    new \in {old, NoPage} \/ (r = r0 /\ new = g) \/ (r = s0 /\ new = h)

\* Every reference changes as MayHold says.
Changes(r0, g, s0, h) ==
    /\ \A d \in PA, a \in VA : MayHold(PteRef(d, a), Pte'[d][a], Pte[d][a], r0, g, s0, h)
    /\ \A q \in Procs : /\ MayHold(ProcRef("kstack", q), kstack'[q], kstack[q], r0, g, s0, h)
                         /\ MayHold(ProcRef("pgdir", q), Dir'[q], Dir[q], r0, g, s0, h)
                         /\ MayHold(ProcRef("dir", q), Old'[q], Old[q], r0, g, s0, h)
                         /\ MayHold(ProcRef("page", q), Tmp'[q], Tmp[q], r0, g, s0, h)

\* Changes, component by component, says what every reference holds afterwards.
LEMMA ChangesHold ==
    ASSUME NEW r0, NEW g, NEW s0, NEW h, Changes(r0, g, s0, h), NEW r \in Refs
    PROVE  MayHold(r, Hold'[r], Hold[r], r0, g, s0, h)
<1> USE HoldHolds, HoldHoldsNext
<1>1. CASE \E d \in PA, a \in VA : r = PteRef(d, a)
  BY <1>1 DEF Holds, Changes
<1>2. CASE \E p \in Procs : r = ProcRef("kstack", p)
  BY <1>2 DEF Holds, Changes
<1>3. CASE \E p \in Procs : r = ProcRef("pgdir", p)
  BY <1>3 DEF Holds, Changes
<1>4. CASE \E p \in Procs : r = ProcRef("dir", p)
  BY <1>4 DEF Holds, Changes
<1>5. CASE \E p \in Procs : r = ProcRef("page", p)
  BY <1>5 DEF Holds, Changes
<1> QED  BY <1>1, <1>2, <1>3, <1>4, <1>5, RefKinds

\* A step that frees the pages of S, which no reference holds any more, preserves
\* PagesExclusive (kfree, deallocuvm, freevm).
LEMMA DropStep ==
    ASSUME PagesExclusive, Changes(0, NoPage, 0, NoPage), NEW S,
           freelist' \subseteq freelist \cup S,
           \A r \in Refs : Hold'[r] # NoPage => Hold'[r] \notin S
    PROVE  PagesExclusive'
<1>1. \A r \in Refs : Hold'[r] \in {Hold[r], NoPage}
  BY ChangesHold DEF MayHold
<1>2. Exclusive(Hold', freelist')
  BY <1>1, ExclusiveHold, Drop, ZenonT(30)
<1> QED  BY <1>2, ExclusiveHoldNext

\* A step that allocates and frees nothing preserves PagesExclusive.
LEMMA KeepStep ==
    ASSUME PagesExclusive, Changes(0, NoPage, 0, NoPage), freelist' = freelist
    PROVE  PagesExclusive'
<1>1. \A r \in Refs : Hold'[r] \in {Hold[r], NoPage}
  BY ChangesHold DEF MayHold
<1>2. Exclusive(Hold', freelist')
  BY <1>1, ExclusiveHold DEF Exclusive
<1> QED  BY <1>2, ExclusiveHoldNext

\* A step in which r0 gets the free page g preserves PagesExclusive (kalloc).
LEMMA TakeStep ==
    ASSUME PagesExclusive, NEW g \in freelist, NEW r0, Changes(r0, g, r0, g),
           freelist' = freelist \ {g}
    PROVE  PagesExclusive'
<1>1. \A r \in Refs : MayHold(r, Hold'[r], Hold[r], r0, g, r0, g)
  BY ChangesHold
<1>2. Exclusive(Hold', freelist')
  BY <1>1, ExclusiveHold, Take DEF MayHold
<1> QED  BY <1>2, ExclusiveHoldNext

\* A step in which r0 gets what s0 lets go preserves PagesExclusive (mappages, fork
\* handing the new page table to the child).
LEMMA MoveStep ==
    ASSUME PagesExclusive, NEW r0, NEW s0 \in Refs, Changes(r0, Hold[s0], r0, Hold[s0]),
           Hold'[s0] = NoPage, freelist' = freelist
    PROVE  PagesExclusive'
<1>1. \A r \in Refs : MayHold(r, Hold'[r], Hold[r], r0, Hold[s0], r0, Hold[s0])
  BY ChangesHold
<1>2. Exclusive(Hold', freelist')
  BY <1>1, ExclusiveHold, Move DEF MayHold
<1> QED  BY <1>2, ExclusiveHoldNext

\* A step in which r0 gets the free page g and s0 what r0 held preserves
\* PagesExclusive (exec replacing p->pgdir and keeping oldpgdir to free it).
LEMMA PushStep ==
    ASSUME PagesExclusive, NEW g \in freelist, NEW r0 \in Refs, NEW s0 \in Refs, r0 # s0,
           Changes(r0, g, s0, Hold[r0]), Hold'[r0] = g, Hold'[s0] = Hold[r0],
           freelist' = freelist \ {g}
    PROVE  PagesExclusive'
<1>1. \A r \in Refs : MayHold(r, Hold'[r], Hold[r], r0, g, s0, Hold[r0])
  BY ChangesHold
<1>2. Exclusive(Hold', freelist')
  BY <1>1, ExclusiveHold, Push DEF MayHold
<1> QED  BY <1>2, ExclusiveHoldNext

\* A step that leaves processes and the free list alone and maps nothing new preserves
\* the invariant.
LEMMA Still ==
    ASSUME IInv, UNCHANGED <<state, kstack, pgdir, freelist, pc, loc>>, TypeOK',
           \A d \in PA, a \in VA : Pte'[d][a] \in {Pte[d][a], NoPage}
    PROVE  IInv'
<1>1. LocTyped' /\ ProcOK' /\ ForkOK'
  BY DEF IInv, LocTyped, ProcOK, ForkOK, InFork, InExec, InFlight
<1>2. PagesExclusive'
  <2>1. Changes(0, NoPage, 0, NoPage)
    BY DEF IInv, Changes, MayHold, Dir, Old, Tmp, InFlight
  <2> QED  BY <2>1, KeepStep DEF IInv
<1> QED  BY <1>1, <1>2 DEF IInv

\* A step that changes nothing the invariant speaks of preserves it.
LEMMA Stutter ==
    ASSUME IInv, UNCHANGED <<state, kstack, pgdir, freelist, vm, swapused, df, pc, loc>>
    PROVE  IInv'
BY Still DEF IInv, TypeOK, Pte

\* Process p goes on at label l, with locals x.
Advance(p, l, x) ==
    /\ pc' = [pc EXCEPT ![p] = l]
    /\ DOMAIN loc' = Procs /\ \A q \in Procs : loc'[q] = IF q = p THEN x ELSE loc[q]

\* A present entry is an entry.
LEMMA PresentIs ==
    ASSUME NEW u \in BOOLEAN, NEW g \in PA
    PROVE  Present(u, g) \in PteType /\ Present(u, g).pa = g
BY DEF Present, PteType, PA, NoPage

\* The end of a system call or a trap: back in user mode, with no page in hand.
LEMMA Returns ==
    ASSUME LocTyped, NEW p \in Procs, Return(p)
    PROVE  Advance(p, "user", Idle) /\ LocOK(Idle) /\ Idle.dir = NoPage /\ "user" \in Labels
<1>1. LocOK(Idle) /\ Idle.dir = NoPage
  BY DEF LocOK, Idle, NoPage
<1>2. "user" \in Labels
  BY Zenon DEF Labels
<1>3. PICK x : x = Idle
  BY Zenon
<1>4. Advance(p, "user", x)
  BY <1>3, Zenon DEF Return, Goto, Advance, LocTyped
<1> QED  BY <1>1, <1>2, <1>3, <1>4, Zenon

\* One process moves on inside the kernel: the locals of the others, and the slots that
\* forks in progress own, are as before.
LEMMA Moves ==
    ASSUME IInv, NEW p \in Procs, NEW l \in Labels, NEW x, LocOK(x), Advance(p, l, x),
           state[p] = "RUNNABLE",
           UNCHANGED <<state, kstack>>,
           \A q \in Procs : state[q] \in {"RUNNABLE", "ZOMBIE"} => pgdir'[q] \in PA,
           InFork(p)' => InFork(p) /\ x.np = loc[p].np /\ (l # "copyuvm" => x.dir \in PA),
           InExec(p)' => x.dir \in PA,
           InFlight(p)' => x.page \in PA
    PROVE  LocTyped' /\ ProcOK' /\ ForkOK'
<1>1. LocTyped'
  BY DEF IInv, LocTyped, Advance
<1>2. ProcOK'
  BY DEF IInv, LocTyped, ProcOK, InExec, InFlight, Advance
<1>3. ForkOK'
  BY DEF IInv, LocTyped, ForkOK, InFork, Advance
<1> QED  BY <1>1, <1>2, <1>3

\* One process moves on inside the kernel; pages can only be let go.
LEMMA Local ==
    ASSUME IInv, NEW p \in Procs, NEW l \in Labels, NEW x, LocOK(x), Advance(p, l, x),
           state[p] = "RUNNABLE",
           UNCHANGED <<state, kstack, pgdir, freelist>>,
           TypeOK',
           \A d \in PA, a \in VA : Pte'[d][a] \in {Pte[d][a], NoPage},
           x.dir \in {loc[p].dir, NoPage},
           InFlight(p)' => InFlight(p) /\ x.page = loc[p].page,
           InFork(p)' => InFork(p) /\ x.np = loc[p].np /\ (l # "copyuvm" => x.dir \in PA),
           InExec(p)' => x.dir \in PA
    PROVE  IInv'
<1>1. LocTyped' /\ ProcOK' /\ ForkOK'
  BY Moves, ZenonT(30) DEF IInv, ProcOK
<1>2. PagesExclusive'
  <2>1. Dir' = Dir
    BY DEF Dir
  <2>2. \A q \in Procs : Old'[q] \in {Old[q], NoPage}
    BY DEF Old, Advance
  <2>3. \A q \in Procs : Tmp'[q] \in {Tmp[q], NoPage}
    <3>1. \A q \in Procs : q # p => Tmp'[q] = Tmp[q]
      BY DEF IInv, LocTyped, Tmp, InFlight, Advance
    <3>2. Tmp'[p] \in {Tmp[p], NoPage}
      BY DEF Tmp, Advance
    <3> QED  BY <3>1, <3>2
  <2>4. Changes(0, NoPage, 0, NoPage)
    BY <2>1, <2>2, <2>3 DEF Changes, MayHold
  <2> QED  BY <2>4, KeepStep, ZenonT(30) DEF IInv
<1> QED  BY <1>1, <1>2 DEF IInv

\* kalloc returns a page of the free list when there is one.
LEMMA KallocFree ==
    ASSUME TypeOK, freelist # {}
    PROVE  Kalloc \in freelist /\ Kalloc \in PA
BY DEF TypeOK, Kalloc

\* mappages: one entry of the page table d.
Put(d, a, e) == [vm EXCEPT ![d][a] = e]

\* What mappages changes: one entry, which then maps the page it was given.
LEMMA VmPut ==
    ASSUME TypeOK, NEW d, NEW a, NEW e \in PteType, vm' = Put(d, a, e)
    PROVE  /\ vm' \in [PA -> [VA -> PteType]]
           /\ \A g \in PA, b \in VA : (g = d /\ b = a) \/ Pte'[g][b] = Pte[g][b]
           /\ \A g \in PA, b \in VA : g = d /\ b = a => Pte'[g][b] \in {e.pa, NoPage}
<1>0. vm \in [PA -> [VA -> PteType]]
  BY DEF TypeOK
<1>1. vm' \in [PA -> [VA -> PteType]]
  BY <1>0, ZenonT(30) DEF Put
<1>2. \A g \in PA, b \in VA : vm'[g][b] = IF g = d /\ b = a THEN e ELSE vm[g][b]
  BY <1>0 DEF Put
<1>3. \A g \in PA, b \in VA : (g = d /\ b = a) \/ Pte'[g][b] = Pte[g][b]
  BY <1>2 DEF Pte
<1>4. \A g \in PA, b \in VA : g = d /\ b = a => Pte'[g][b] \in {e.pa, NoPage}
  BY <1>2 DEF Pte
<1> QED  BY <1>1, <1>3, <1>4

\* What copyuvm changes for a page that is not present: nothing new is mapped.
LEMMA VmPutAbsent ==
    ASSUME TypeOK, NEW d, NEW a, NEW e \in PteType, e.st # "present", vm' = Put(d, a, e)
    PROVE  /\ vm' \in [PA -> [VA -> PteType]]
           /\ \A g \in PA, b \in VA : Pte'[g][b] \in {Pte[g][b], NoPage}
<1>0. vm \in [PA -> [VA -> PteType]]
  BY DEF TypeOK
<1>1. vm' \in [PA -> [VA -> PteType]]
  BY <1>0, Zenon DEF Put
<1>2. \A g \in PA, b \in VA : vm'[g][b] = IF g = d /\ b = a THEN e ELSE vm[g][b]
  BY <1>0 DEF Put
<1>3. \A g \in PA, b \in VA : Pte'[g][b] \in {Pte[g][b], NoPage}
  BY <1>2 DEF Pte
<1> QED  BY <1>1, <1>3

-----------------------------------------------------------------------------
(* The page-fault handler, the page list and the swap space. *)

\* The state after the first exec satisfies the invariant.
LEMMA InitStep == Init => IInv
<1> SUFFICES ASSUME Init PROVE IInv
  OBVIOUS
<1>1. /\ state = [p \in Procs |-> IF p = Initproc THEN "RUNNABLE" ELSE "UNUSED"]
      /\ kstack = [p \in Procs |-> IF p = Initproc THEN 1 ELSE NoPage]
      /\ pgdir = [p \in Procs |-> IF p = Initproc THEN 2 ELSE NoPage]
      /\ vm = [g \in PA |-> IF g = 2 THEN ImageTable(InitProg) ELSE ZeroTable]
      /\ freelist = PA \ {1, 2} /\ swapused = {0} /\ DOMAIN df = Slots
      /\ pc = [p \in Procs |-> "user"] /\ loc = [p \in Procs |-> Idle]
  BY Zenon DEF Init
<1>2. 1 \in PA /\ 2 \in PA /\ 0 \in Slots /\ Initproc \in Procs
  BY PagingAssumption DEF PA, Slots, Procs, Initproc
<1>3. /\ ImageTable(InitProg) \in [VA -> [st : {"zero", "absent"}, u : BOOLEAN, pa : {NoPage}]]
      /\ ZeroTable \in [VA -> [st : {"zero", "absent"}, u : BOOLEAN, pa : {NoPage}]]
  BY DEF ImageTable, ZeroTable, ZeroPte, Absent
<1> HIDE DEF Init
<1>4. TypeOK
  BY <1>1, <1>2, <1>3 DEF TypeOK, PteType
<1>5. LocTyped
  BY <1>1 DEF LocTyped, LocOK, Labels, Idle
<1>6. ProcOK /\ ForkOK
  BY <1>1, <1>2 DEF ProcOK, ForkOK, InFork, InExec, InFlight, Evicting, Idle
<1>7. PagesExclusive
  <2>1. \A d \in PA, a \in VA : Pte[d][a] = NoPage
    BY <1>1, <1>3 DEF Pte
  <2>2. \A p \in Procs : /\ Old[p] = NoPage /\ Tmp[p] = NoPage
                         /\ kstack[p] = IF p = Initproc THEN 1 ELSE NoPage
                         /\ Dir[p] = IF p = Initproc THEN 2 ELSE NoPage
    BY <1>1 DEF Old, Tmp, Dir, InFlight, Idle
  <2>3. ASSUME NEW r \in Refs
        PROVE  \/ Hold[r] = NoPage
               \/ r = ProcRef("kstack", Initproc) /\ Hold[r] = 1
               \/ r = ProcRef("pgdir", Initproc) /\ Hold[r] = 2
    BY <2>1, <2>2, <2>3, RefKinds, HoldHolds DEF Holds
  <2>4. Exclusive(Hold, freelist)
    BY <2>3, <1>1 DEF Exclusive, NoPage
  <2> QED  BY <2>4, ExclusiveHold
<1> QED  BY <1>4, <1>5, <1>6, <1>7 DEF IInv

\* A store by user code preserves the invariant.
LEMMA StoreStep ==
    ASSUME IInv, NEW p \in Procs, Store(p)
    PROVE  IInv'
BY Stutter DEF Store, procVars, swapVars

\* pgflt_handler up to swap_check preserves the invariant.
LEMMA FaultStep ==
    ASSUME IInv, NEW p \in Procs, Fault(p)
    PROVE  IInv'
<1>a. PICK a \in VA :
        LET f == Lookup(swap_list[p], a * PGSIZE) IN
        /\ User(p) /\ Goto(p, IF f = NoSlot THEN "load" ELSE "get_lru")
        /\ loc' = [loc EXCEPT ![p] = [Idle EXCEPT !.va = a, !.lpid = pid[p], !.ret = "swap_in",
                                        !.swapno = IF f = NoSlot THEN 0 ELSE df[f].swap]]
        /\ UNCHANGED <<procVars, memVars, swapVars>>
  BY Zenon DEF Fault
<1> DEFINE f == Lookup(swap_list[p], a * PGSIZE)
           l == IF f = NoSlot THEN "load" ELSE "get_lru"
           n == IF f = NoSlot THEN 0 ELSE df[f].swap
           x == [Idle EXCEPT !.va = a, !.lpid = pid[p], !.ret = "swap_in", !.swapno = n]
<1>0. /\ User(p) /\ Goto(p, l) /\ loc' = [loc EXCEPT ![p] = x]
      /\ UNCHANGED <<procVars, memVars, swapVars>> /\ l \in {"load", "get_lru"}
  BY <1>a
<1> HIDE DEF f, l, n
<1>1. Advance(p, l, x) /\ state[p] = "RUNNABLE"
  BY <1>0 DEF User, Goto, Advance, IInv, LocTyped
<1>2. LocOK(x) /\ x.dir = NoPage /\ x.ret = "swap_in" /\ x.page = NoPage
  BY DEF LocOK, Idle, NoPage
<1>3. ~InFlight(p)' /\ ~InFork(p)' /\ ~InExec(p)'
  BY <1>0, <1>1, <1>2 DEF IInv, LocTyped, InFlight, InFork, InExec, Evicting, Advance
<1>4. TypeOK' /\ Pte' = Pte
  BY <1>0 DEF IInv, TypeOK, Pte, procVars, memVars, swapVars
<1>5. l \in Labels /\ UNCHANGED <<state, kstack, pgdir, freelist>>
  BY <1>0 DEF Labels, procVars, memVars
<1> HIDE DEF x
<1> QED
  BY <1>1, <1>2, <1>3, <1>4, <1>5, Local

\* lru_insert within get_lru preserves the invariant.
LEMMA LruInsertStep ==
    ASSUME IInv, NEW p \in Procs, LruInsert(p)
    PROVE  IInv'
<1>1. PICK l \in {"lru_delete", loc[p].ret} : Goto(p, l)
  BY DEF LruInsert
<1>2. UNCHANGED <<procVars, memVars, swapVars, loc>> /\ pc[p] = "get_lru" /\ state[p] = "RUNNABLE"
  BY DEF LruInsert, At, IInv, ProcOK
<1>3. Advance(p, l, loc[p]) /\ LocOK(loc[p]) /\ l \in Labels
  BY <1>1, <1>2 DEF Advance, Goto, IInv, LocTyped, LocOK, Labels
<1>4. TypeOK' /\ Pte' = Pte /\ UNCHANGED <<state, kstack, pgdir, freelist>>
  BY <1>2 DEF IInv, TypeOK, Pte, procVars, memVars, swapVars
<1>5. /\ InFlight(p)' => InFlight(p)
      /\ InFork(p)' => InFork(p) /\ loc[p].dir \in PA
      /\ ~InExec(p)'
  BY <1>2, <1>3 DEF Advance, InFlight, InFork, InExec, Evicting, IInv, LocTyped, LocOK, ForkOK
<1> QED  BY <1>2, <1>3, <1>4, <1>5, Local

\* The locals hold the same pages and the same slot, and return to the same place.
SameHold(x, y) ==
    /\ DOMAIN x = DOMAIN y
    /\ x.dir = y.dir /\ x.page = y.page /\ x.np = y.np /\ x.ret = y.ret

\* Inside get_lru and swap_out a process keeps its hold and clears or keeps loc.space,
\* so its locals stay well formed.
LEMMA HoldTyped ==
    ASSUME NEW x, NEW y, LocOK(y), SameHold(x, y), x.space \in {y.space, 0}
    PROVE  LocOK(x)
BY SMT DEF LocOK, SameHold

\* A step from one label of get_lru and swap_out to another preserves the invariant.
LEMMA EvictStep ==
    ASSUME IInv, NEW p \in Procs, NEW l \in Evicting, NEW x, Advance(p, l, x),
           pc[p] \in Evicting, SameHold(x, loc[p]), x.space \in {loc[p].space, 0},
           UNCHANGED <<state, kstack, pgdir, freelist>>,
           TypeOK',
           \A d \in PA, a \in VA : Pte'[d][a] \in {Pte[d][a], NoPage},
           InExec(p)' => InExec(p)
    PROVE  IInv'
<1>1. LocOK(loc[p]) /\ loc'[p] = x /\ pc'[p] = l /\ state[p] = "RUNNABLE" /\ l \in Labels
  BY DEF IInv, LocTyped, Advance, ProcOK, Evicting, Labels
<1>2. LocOK(x)
  BY <1>1, HoldTyped, SMT
<1>3. InFlight(p)' => InFlight(p)
  BY <1>1 DEF InFlight, SameHold, Evicting
<1>4. InFork(p)' => InFork(p) /\ x.np = loc[p].np /\ x.dir \in PA
  BY <1>1, ZenonT(30) DEF IInv, ForkOK, InFork, SameHold, Evicting
<1>5. InExec(p)' => x.dir \in PA
  BY DEF IInv, ProcOK, SameHold
<1>6. x.dir = loc[p].dir /\ x.page = loc[p].page
  BY DEF SameHold
<1> QED  BY <1>1, <1>2, <1>3, <1>4, <1>5, <1>6, Local

\* lru_delete within get_lru preserves the invariant.
LEMMA LruDeleteStep ==
    ASSUME IInv, NEW p \in Procs, LruDelete(p)
    PROVE  IInv'
<1>1. /\ UNCHANGED <<procVars, memVars, swapVars>> /\ pc[p] = "lru_delete"
      /\ Goto(p, "victim")
  BY DEF LruDelete, At
<1>2. \E v, t : loc' = [loc EXCEPT ![p].vpid = v, ![p].tva = t]
  <2>1. CASE lru = <<>>
    BY <2>1, ZenonT(30) DEF LruDelete
  <2>2. CASE lru # <<>>
    BY <2>2, ZenonT(30) DEF LruDelete
  <2> QED  BY <2>1, <2>2, ZenonT(30)
<1>3. /\ Advance(p, "victim", loc'[p]) /\ SameHold(loc'[p], loc[p])
      /\ loc'[p].space = loc[p].space
  BY <1>1, <1>2 DEF Advance, Goto, SameHold, IInv, LocTyped, LocOK, Idle
<1>4. TypeOK' /\ Pte' = Pte /\ UNCHANGED <<state, kstack, pgdir, freelist>>
  BY <1>1 DEF IInv, TypeOK, Pte, procVars, memVars, swapVars
<1>5. ~InExec(p)' /\ "victim" \in Evicting /\ pc[p] \in Evicting
  BY <1>1, <1>3 DEF InExec, Advance, IInv, LocTyped, Evicting
<1> QED  BY <1>3, <1>4, <1>5, EvictStep

\* panic preserves the invariant: nothing moves any more.
LEMMA PanicStep ==
    ASSUME IInv, NEW m, Panic(m)
    PROVE  IInv'
BY Stutter DEF Panic, procVars, memVars, swapVars

\* The start of swap_out for the page that lru_delete returned preserves the invariant.
LEMMA VictimStep ==
    ASSUME IInv, NEW p \in Procs, Victim(p)
    PROVE  IInv'
<1>0. CASE Panic("Over the KERNBASE!")
  BY <1>0, PanicStep, ZenonT(30)
<1>a. SUFFICES ASSUME ~Panic("Over the KERNBASE!") PROVE IInv'
  BY <1>0, ZenonT(30)
<1>1. /\ UNCHANGED <<procVars, memVars, swapused, df>> /\ pc[p] = "victim"
      /\ \/ Goto(p, "get_lru") /\ UNCHANGED loc
         \/ /\ Goto(p, "swap_out")
            /\ loc' = [loc EXCEPT ![p].tp = get_proc(loc[p].vpid), ![p].space = 0]
  BY <1>a, ZenonT(30) DEF Victim, At, swapVars
<1>2. PICK l \in {"get_lru", "swap_out"} :
        /\ Goto(p, l)
        /\ l = "swap_out" => loc' = [loc EXCEPT ![p].tp = get_proc(loc[p].vpid), ![p].space = 0]
  BY <1>1 DEF Goto
<1>3. Advance(p, l, loc'[p]) /\ SameHold(loc'[p], loc[p]) /\ loc'[p].space \in {loc[p].space, 0}
  BY <1>1, <1>2 DEF Advance, Goto, SameHold, IInv, LocTyped, LocOK, Idle
<1>4. TypeOK' /\ Pte' = Pte /\ UNCHANGED <<state, kstack, pgdir, freelist>>
  BY <1>1 DEF IInv, TypeOK, Pte, procVars, memVars
<1>5. l = "swap_out" => loc'[p].space = 0
  BY <1>2 DEF IInv, LocTyped, LocOK, Idle
<1>6. ~InExec(p)' /\ l \in Evicting /\ pc[p] \in Evicting
  BY <1>1, <1>3, <1>5 DEF InExec, Advance, IInv, LocTyped, Evicting
<1> QED  BY <1>3, <1>4, <1>6, EvictStep

\* The walk to the end of the swap list preserves the invariant.
LEMMA SwapTailStep ==
    ASSUME IInv, NEW p \in Procs, SwapTail(p)
    PROVE  IInv'
<1>1. UNCHANGED <<procVars, memVars, swapVars>> /\ pc[p] = "swap_out" /\ Goto(p, "swap_alloc")
  BY DEF SwapTail, At
<1>2. PICK t : loc' = [loc EXCEPT ![p].tail = t]
  BY ZenonT(30) DEF SwapTail
<1>3. Advance(p, "swap_alloc", loc'[p]) /\ SameHold(loc'[p], loc[p]) /\ loc'[p].space = loc[p].space
  BY <1>1, <1>2 DEF Advance, Goto, SameHold, IInv, LocTyped, LocOK, Idle
<1>4. TypeOK' /\ Pte' = Pte /\ UNCHANGED <<state, kstack, pgdir, freelist>>
  BY <1>1 DEF IInv, TypeOK, Pte, procVars, memVars, swapVars
<1>5. (InExec(p)' => InExec(p)) /\ "swap_alloc" \in Evicting /\ pc[p] \in Evicting
  BY <1>1, <1>3 DEF InExec, Advance, IInv, LocTyped, Evicting
<1> QED  BY <1>3, <1>4, <1>5, EvictStep

\* writeswap preserves the invariant.
LEMMA WriteSwapStep ==
    ASSUME IInv, NEW p \in Procs, WriteSwap(p)
    PROVE  IInv'
<1>1. UNCHANGED <<procVars, memVars, swapused, df, loc>> /\ pc[p] = "writeswap" /\ Goto(p, "demap")
  BY Zenon DEF WriteSwap, At
<1>3. Advance(p, "demap", loc'[p]) /\ SameHold(loc'[p], loc[p]) /\ loc'[p].space = loc[p].space
  BY <1>1 DEF Advance, Goto, SameHold, IInv, LocTyped
<1>4. TypeOK' /\ Pte' = Pte /\ UNCHANGED <<state, kstack, pgdir, freelist>>
  BY <1>1 DEF IInv, TypeOK, Pte, procVars, memVars
<1>5. (InExec(p)' => InExec(p)) /\ "demap" \in Evicting /\ pc[p] \in Evicting
  BY <1>1, <1>3 DEF InExec, Advance, IInv, LocTyped, Evicting
<1> QED  BY <1>3, <1>4, <1>5, EvictStep

\* Returning to user mode with nothing allocated or freed preserves the invariant.
LEMMA ReturnStep ==
    ASSUME IInv, NEW p \in Procs, Return(p), state[p] = "RUNNABLE",
           UNCHANGED <<state, kstack, pgdir, freelist>>, TypeOK',
           \A d \in PA, a \in VA : Pte'[d][a] \in {Pte[d][a], NoPage}
    PROVE  IInv'
<1>1. Advance(p, "user", Idle) /\ LocOK(Idle) /\ Idle.dir = NoPage /\ "user" \in Labels
  BY Returns, Zenon DEF IInv
<1>2. ~InFlight(p)' /\ ~InFork(p)' /\ ~InExec(p)'
  BY <1>1 DEF Advance, IInv, LocTyped, InFlight, InFork, InExec, Evicting
<1> QED  BY <1>1, <1>2, Local

\* Taking a swap slot, or failing to, preserves the invariant.
LEMMA SwapAllocStep ==
    ASSUME IInv, NEW p \in Procs, SwapAlloc(p)
    PROVE  IInv'
<1>0. pc[p] = "swap_alloc" /\ state[p] = "RUNNABLE"
  BY Zenon DEF SwapAlloc, At, IInv, ProcOK
<1>1. CASE Slots = swapused /\ loc[p].space \in {0, 1}
  <2>1. loc[p].space # 2
    BY <1>1
  <2>2. Panic("Swap Space is Full")
    BY <1>1, <2>1, ZenonT(30) DEF SwapAlloc
  <2> QED  BY <2>2, PanicStep, ZenonT(30)
<1>2. CASE Slots = swapused /\ loc[p].space = 2
  <2>1. Return(p) /\ UNCHANGED <<procVars, memVars, swapused, df>>
    BY <1>2 DEF SwapAlloc
  <2>2. TypeOK' /\ Pte' = Pte /\ UNCHANGED <<state, kstack, pgdir, freelist>>
    BY <2>1 DEF IInv, TypeOK, Pte, procVars, memVars
  <2> QED  BY <1>0, <2>1, <2>2, ReturnStep
<1>3. CASE Slots # swapused
  <2> DEFINE f == swap_get_free_frame
  <2>1. f \in Slots
    <3>1. Slots \ swapused # {}
      BY <1>3, ZenonT(30) DEF IInv, TypeOK
    <3>3. Slots \ swapused \subseteq Nat
      BY PagingAssumption DEF Slots
    <3>2. \E x \in Slots \ swapused : \A y \in Slots \ swapused : x <= y
      BY <3>1, <3>3, MinExists, ZenonT(30)
    <3> QED  BY <3>2 DEF swap_get_free_frame
  <2>2. /\ swapused' = swapused \cup {f} /\ DOMAIN df' = Slots
        /\ loc' = [loc EXCEPT ![p].slot = f] /\ Goto(p, "writeswap")
        /\ UNCHANGED <<procVars, memVars>>
    BY <1>3, Zenon DEF SwapAlloc
  <2>3. Advance(p, "writeswap", loc'[p]) /\ SameHold(loc'[p], loc[p]) /\ loc'[p].space = loc[p].space
    BY <2>2 DEF Advance, Goto, SameHold, IInv, LocTyped, LocOK, Idle
  <2>4. TypeOK' /\ Pte' = Pte /\ UNCHANGED <<state, kstack, pgdir, freelist>>
    BY <2>1, <2>2 DEF IInv, TypeOK, Pte, procVars, memVars
  <2>5. (InExec(p)' => InExec(p)) /\ "writeswap" \in Evicting /\ pc[p] \in Evicting
    BY <1>0, <2>3 DEF InExec, Advance, IInv, LocTyped, Evicting
  <2> QED  BY <2>3, <2>4, <2>5, EvictStep
<1>4. loc[p].space \in {0, 1} \/ loc[p].space = 2
  BY DEF IInv, LocTyped, LocOK
<1> QED  BY <1>1, <1>2, <1>3, <1>4, ZenonT(30)

\* demappages_swap_out unmaps one entry at most.
LEMMA DemappedOK ==
    ASSUME TypeOK, NEW d, NEW a, vm' = Demapped(d, a)
    PROVE  /\ vm' \in [PA -> [VA -> PteType]]
           /\ \A g \in PA, b \in VA : Pte'[g][b] \in {Pte[g][b], NoPage}
BY DEF TypeOK, PteType, Demapped, Absent, Pte

\* demappages_swap_out, even of a page that belongs to another process, preserves the
\* invariant.
LEMMA DemapStep ==
    ASSUME IInv, NEW p \in Procs, Demap(p)
    PROVE  IInv'
<1>1. /\ pc[p] = "demap" /\ state[p] = "RUNNABLE" /\ UNCHANGED <<procVars, freelist, swapVars, loc>>
      /\ vm' = Demapped(pgdir[loc[p].tp], loc[p].tva \div PGSIZE)
      /\ Goto(p, <<"get_lru", "exec", "grow">>[loc[p].space + 1])
  BY ZenonT(30) DEF Demap, At, IInv, ProcOK
<1>2. PICK l \in {"get_lru", "exec", "grow"} : Goto(p, l) /\ (l = "exec" => loc[p].space = 1)
  BY <1>1 DEF IInv, LocTyped, LocOK
<1>3. Advance(p, l, loc[p]) /\ l \in Labels /\ LocOK(loc[p])
  BY <1>1, <1>2, ZenonT(30) DEF Advance, Goto, IInv, LocTyped, Labels
<1>4. /\ UNCHANGED <<state, kstack, pgdir, freelist>> /\ TypeOK'
      /\ \A d \in PA, a \in VA : Pte'[d][a] \in {Pte[d][a], NoPage}
  BY <1>1, DemappedOK, ZenonT(30) DEF IInv, TypeOK, procVars, swapVars
<1>5. /\ InFlight(p)' => InFlight(p)
      /\ InFork(p)' => InFork(p) /\ loc[p].dir \in PA
      /\ InExec(p)' => loc[p].dir \in PA
  BY <1>1, <1>2, <1>3 DEF Advance, InFlight, InFork, InExec, Evicting, IInv, LocTyped, ForkOK, ProcOK
<1> QED  BY <1>1, <1>3, <1>4, <1>5, Local, ZenonT(30)

\* swap_in up to readswap preserves the invariant.
LEMMA SwapInStep ==
    ASSUME IInv, NEW p \in Procs, SwapIn(p)
    PROVE  IInv'
<1> DEFINE f == Lookup(swap_list[p], loc[p].va * PGSIZE)
<1>1. CASE f = NoSlot
  <2>1. Panic("Swap In not working!")
    BY <1>1, ZenonT(30) DEF SwapIn
  <2> QED  BY <2>1, PanicStep, ZenonT(30)
<1>2. CASE f # NoSlot
  <2>1. /\ pc[p] = "swap_in" /\ state[p] = "RUNNABLE" /\ UNCHANGED <<procVars, memVars>>
        /\ DOMAIN df' = Slots /\ swapused' \subseteq swapused
        /\ loc' = [loc EXCEPT ![p].slot = f] /\ Goto(p, "readswap")
    BY <1>2 DEF SwapIn, At, IInv, ProcOK
  <2>2. Advance(p, "readswap", loc'[p]) /\ SameHold(loc'[p], loc[p]) /\ loc'[p].space = loc[p].space
    BY <2>1 DEF Advance, Goto, SameHold, IInv, LocTyped, LocOK, Idle
  <2>3. TypeOK' /\ Pte' = Pte /\ UNCHANGED <<state, kstack, pgdir, freelist>>
    BY <2>1 DEF IInv, TypeOK, Pte, procVars, memVars
  <2>4. ~InExec(p)' /\ ~InFork(p)' /\ ~InFlight(p)' /\ "readswap" \in Labels
    BY <2>2 DEF InExec, InFork, InFlight, Advance, IInv, LocTyped, Evicting, Labels
  <2>5. LocOK(loc'[p]) /\ loc'[p].dir = loc[p].dir
    BY <2>2 DEF IInv, LocTyped, LocOK, SameHold
  <2> QED  BY <2>1, <2>2, <2>3, <2>4, <2>5, Local, ZenonT(30)
<1> QED  BY <1>1, <1>2

\* What returning to user mode does to the pages held inside the kernel: it lets them go.
LEMMA Returned ==
    ASSUME IInv, NEW p \in Procs, Return(p), state[p] = "RUNNABLE", UNCHANGED <<state, kstack, pgdir>>
    PROVE  /\ LocTyped' /\ ProcOK' /\ ForkOK'
           /\ Dir' = Dir
           /\ \A q \in Procs : q # p => Old'[q] = Old[q] /\ Tmp'[q] = Tmp[q]
           /\ Old'[p] = NoPage /\ Tmp'[p] = NoPage
<1>1. Advance(p, "user", Idle) /\ LocOK(Idle) /\ Idle.dir = NoPage /\ "user" \in Labels
  BY Returns, Zenon DEF IInv
<1>2. ~InFlight(p)' /\ ~InFork(p)' /\ ~InExec(p)'
  BY <1>1 DEF Advance, IInv, LocTyped, InFlight, InFork, InExec, Evicting
<1>3. LocTyped' /\ ProcOK' /\ ForkOK'
  BY <1>1, <1>2, Moves, ZenonT(30) DEF IInv, ProcOK
<1>4. Dir' = Dir
  BY DEF Dir
<1>5. \A q \in Procs : q # p => Old'[q] = Old[q] /\ Tmp'[q] = Tmp[q]
  BY <1>1 DEF Advance, Old, Tmp, InFlight, IInv, LocTyped
<1>6. Old'[p] = NoPage /\ Tmp'[p] = NoPage
  BY <1>1, <1>2 DEF Advance, Old, Tmp
<1> QED  BY <1>3, <1>4, <1>5, <1>6

\* Mapping a new page in pgflt_handler preserves the invariant.
LEMMA LoadStep ==
    ASSUME IInv, NEW p \in Procs, Load(p)
    PROVE  IInv'
<1>1. CASE freelist = {}
  <2>1. Panic("No Free Page")
    BY <1>1, ZenonT(30) DEF Load
  <2> QED  BY <2>1, PanicStep, ZenonT(30)
<1>2. CASE freelist # {}
  <2> DEFINE g == Kalloc
             a == loc[p].va
             r == PteRef(pgdir[p], a)
  <2>1. g \in freelist /\ g \in PA
    BY <1>2, KallocFree DEF IInv
  <2>2. /\ freelist' = freelist \ {g}
        /\ vm' = Put(pgdir[p], a, Present(TRUE, g))
        /\ Return(p) /\ pc[p] = "load" /\ state[p] = "RUNNABLE"
        /\ UNCHANGED <<state, kstack, pgdir, swapused, df>>
    BY <1>2, ZenonT(30) DEF Load, Put, At, IInv, ProcOK, procVars, swapVars
  <2>3. Present(TRUE, g) \in PteType /\ Present(TRUE, g).pa = g
    BY <2>1 DEF Present, PteType, PA, NoPage
  <2>4. /\ vm' \in [PA -> [VA -> PteType]]
        /\ \A d \in PA, b \in VA : (d = pgdir[p] /\ b = a) \/ Pte'[d][b] = Pte[d][b]
        /\ \A d \in PA, b \in VA : d = pgdir[p] /\ b = a => Pte'[d][b] \in {g, NoPage}
    <3> DEFINE e == Present(TRUE, g)
               d0 == pgdir[p]
    <3>1. TypeOK /\ e \in PteType /\ e.pa = g /\ vm' = Put(d0, a, e)
      BY <2>2, <2>3, ZenonT(30) DEF IInv
    <3> HIDE DEF a, e, d0, g
    <3>2. /\ vm' \in [PA -> [VA -> PteType]]
          /\ \A d \in PA, b \in VA : (d = d0 /\ b = a) \/ Pte'[d][b] = Pte[d][b]
          /\ \A d \in PA, b \in VA : d = d0 /\ b = a => Pte'[d][b] \in {e.pa, NoPage}
      BY <3>1, VmPut, ZenonT(30)
    <3> QED  BY <3>1, <3>2 DEF d0
  <2>5. TypeOK'
    BY <2>2, <2>4, Zenon DEF IInv, TypeOK
  <2>6. Changes(r, g, r, g)
    BY <2>2, <2>4, Returned, ZenonT(30) DEF Changes, MayHold
  <2>7. PagesExclusive'
    BY <2>1, <2>2, <2>6, TakeStep, ZenonT(30) DEF IInv
  <2> QED  BY <2>2, <2>5, <2>7, Returned, ZenonT(30) DEF IInv
<1> QED  BY <1>1, <1>2

\* The kalloc of readswap preserves the invariant.
LEMMA ReadSwapAllocStep ==
    ASSUME IInv, NEW p \in Procs, ReadSwapAlloc(p)
    PROVE  IInv'
<1>1. CASE freelist = {}
  <2>1. Panic("No Free Page")
    BY <1>1, ZenonT(30) DEF ReadSwapAlloc
  <2> QED  BY <2>1, PanicStep, Zenon
<1>2. CASE freelist # {}
  <2> DEFINE g == Kalloc
             r == ProcRef("page", p)
             x == loc'[p]
  <2>1. g \in freelist /\ g \in PA
    BY <1>2, KallocFree DEF IInv
  <2>2. /\ freelist' = freelist \ {g} /\ loc' = [loc EXCEPT ![p].page = g] /\ Goto(p, "mappages")
        /\ state[p] = "RUNNABLE" /\ UNCHANGED <<state, kstack, pgdir, vm, swapused, df>>
    BY <1>2, ZenonT(30) DEF ReadSwapAlloc, At, IInv, ProcOK, procVars, swapVars
  <2>3. Advance(p, "mappages", x) /\ LocOK(x) /\ x.page = g /\ x.dir = loc[p].dir /\ "mappages" \in Labels
    BY <2>1, <2>2 DEF Advance, Goto, IInv, LocTyped, LocOK, Idle, Labels
  <2>4. ~InFork(p)' /\ ~InExec(p)'
    BY <2>3 DEF InExec, InFork, Advance, IInv, LocTyped, Evicting
  <2>5. LocTyped' /\ ProcOK' /\ ForkOK'
    BY <2>1, <2>2, <2>3, <2>4, Moves, ZenonT(30) DEF IInv, ProcOK
  <2>6. TypeOK' /\ Pte' = Pte /\ Dir' = Dir
    BY <2>2 DEF IInv, TypeOK, Pte, Dir
  <2>7. \A q \in Procs : Old'[q] = Old[q] /\ (q # p => Tmp'[q] = Tmp[q])
    BY <2>3 DEF Advance, Old, Tmp, InFlight, IInv, LocTyped
  <2>8. Tmp'[p] \in {g, NoPage}
    BY <2>3 DEF Tmp
  <2>9. PagesExclusive'
    <3>1. Changes(r, g, r, g)
      BY <2>2, <2>6, <2>7, <2>8 DEF Changes, MayHold
    <3> QED  BY <2>1, <2>2, <3>1, TakeStep DEF IInv
  <2> QED  BY <2>5, <2>6, <2>9 DEF IInv
<1> QED  BY <1>1, <1>2

\* mappages_swap_in of the page that was read preserves the invariant.
LEMMA ReadSwapMapStep ==
    ASSUME IInv, NEW p \in Procs, ReadSwapMap(p)
    PROVE  IInv'
<1> DEFINE g == loc[p].page
           a == loc[p].va
           r == PteRef(pgdir[p], a)
           s == ProcRef("page", p)
<1>1. /\ vm' = Put(pgdir[p], a, Present(TRUE, g))
      /\ Return(p) /\ pc[p] = "mappages" /\ state[p] = "RUNNABLE" /\ freelist' = freelist
      /\ UNCHANGED <<state, kstack, pgdir, swapused, df>>
  BY DEF ReadSwapMap, Put, At, IInv, ProcOK, procVars, swapVars
<1>2. TypeOK /\ g \in PA /\ Present(TRUE, g) \in PteType /\ Present(TRUE, g).pa = g
  BY <1>1 DEF IInv, ProcOK, InFlight, Present, PteType, PA, NoPage
<1>3. /\ vm' \in [PA -> [VA -> PteType]]
      /\ \A d \in PA, b \in VA : (d = pgdir[p] /\ b = a) \/ Pte'[d][b] = Pte[d][b]
      /\ \A d \in PA, b \in VA : d = pgdir[p] /\ b = a => Pte'[d][b] \in {g, NoPage}
  <2> DEFINE e == Present(TRUE, g)
             d0 == pgdir[p]
  <2>1. TypeOK /\ e \in PteType /\ e.pa = g /\ vm' = Put(d0, a, e)
    BY <1>1, <1>2, Zenon
  <2> HIDE DEF a, e, d0
  <2>2. /\ vm' \in [PA -> [VA -> PteType]]
        /\ \A d \in PA, b \in VA : (d = d0 /\ b = a) \/ Pte'[d][b] = Pte[d][b]
        /\ \A d \in PA, b \in VA : d = d0 /\ b = a => Pte'[d][b] \in {e.pa, NoPage}
    BY <2>1, VmPut, ZenonT(30)
  <2> QED  BY <2>1, <2>2 DEF d0
<1>4. TypeOK'
  BY <1>1, <1>3, ZenonT(30) DEF IInv, TypeOK
<1>5. s \in Refs /\ Hold[s] = g /\ Hold'[s] = NoPage
  <2>1. Tmp[p] = g /\ Tmp'[p] = NoPage
    BY <1>1, Returned DEF Tmp, InFlight
  <2> QED  BY <2>1, HoldHolds, HoldHoldsNext, ZenonT(30) DEF Holds
<1>6. Changes(r, g, r, g)
  BY <1>1, <1>3, Returned, ZenonT(30) DEF Changes, MayHold
<1>7. PagesExclusive'
  BY <1>1, <1>5, <1>6, MoveStep, ZenonT(30) DEF IInv
<1> QED  BY <1>1, <1>4, <1>7, Returned, ZenonT(30) DEF IInv

=============================================================================
