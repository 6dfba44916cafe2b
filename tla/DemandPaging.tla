---------------------------- MODULE DemandPaging ----------------------------
(***************************************************************************)
(* Demand paging: the page-fault handler, the swap space, the page         *)
(* replacement loop get_lru, kalloc/kfree, the page tables, and the system *)
(* calls that build, grow, shrink, copy and destroy an address space.      *)
(*                                                                         *)
(* A process is a slot of ptable with a program counter pc; one step is    *)
(* one critical section or one disk transfer, the points between which     *)
(* another process can run.  Addresses are counted in units of which       *)
(* PGSIZE make a page, so that sizes need not be page aligned.  A page     *)
(* table is identified by the physical page of its pgdir.  Second-level    *)
(* page-table pages are not modelled.                                      *)
(***************************************************************************)
EXTENDS Integers, FiniteSets, LruQueue

CONSTANTS
    NPROC,          \* slots of ptable; slot 1 is init
    NPAGE,          \* physical pages kalloc manages
    NVA,            \* user pages of an address space
    PGSIZE,         \* units per page
    MAX_FRAME_LRU,  \* entries of the page list
    MAX_FRAME_SWAP, \* slots of the swap table
    SwapStart,      \* first disk page of swap spaces 0, 1, 2
    Progs,          \* executable files
    MemSz,          \* their memory size (code, data, bss), in units
    InitProg,       \* the program init runs
    MaxPid,         \* bound: processes ever created
    Vers,           \* bound: distinct values a user writes to a page
    Sbrk,           \* bound: amounts passed to sbrk, in units, at most PGSIZE
    Calls,          \* the system calls user programs make
    Overlap         \* TRUE: kernel operations of different processes interleave

ASSUME PagingAssumption ==
    /\ NPROC \in Nat \ {0} /\ NPAGE \in Nat \ {0, 1} /\ NVA \in Nat /\ PGSIZE \in Nat \ {0}
    /\ MAX_FRAME_LRU \in Nat \ {0, 1} /\ MAX_FRAME_SWAP \in Nat \ {0}
    /\ InitProg \in Progs /\ Overlap \in BOOLEAN
    /\ Sbrk \subseteq 1..PGSIZE

Procs == 1..NPROC
PA    == 1..NPAGE
VA    == 0..(NVA - 1)
Slots == 0..(MAX_FRAME_SWAP - 1)
NoProc == 0
NoPage == 0
NoSlot == -1
Initproc == 1

VARIABLES
    state, pid, parent, nextpid,      \* ptable
    kstack, pgdir, sz, cdb_size,      \* struct proc: memory
    ip, ph,                           \* struct proc: file behind the image, its memsz
    swap_list, forked, write_buffer,  \* struct proc: swapping
    vm,                               \* page tables, by the page of their pgdir
    freelist, kmemlock,               \* struct kmem; kmemlock: who sleeps with it
    mem,                              \* contents of the physical pages
    lru,                              \* the page list, as a queue (see LruList)
    swapused, df, disk,               \* swap_bitmap, swap_frame_list, the disk
    swaplock,                         \* TRUE: left locked by a failed swap_out
    pc, loc,                          \* kernel position and locals of each process
    panic,                            \* message of the panic that stopped the machine
    user                              \* ghost: what each process has stored in its pages

procVars == <<state, pid, parent, nextpid, kstack, pgdir, sz, cdb_size, ip, ph, forked>>
memVars  == <<vm, freelist, kmemlock, mem>>
swapVars == <<swap_list, write_buffer, swapused, df, disk, swaplock>>
vars == <<procVars, memVars, swapVars, lru, pc, loc, panic, user>>

\* Contents of a page.
Zero == <<"zero">>
Junk == <<"junk">>                       \* the fill of kfree
Args(f) == <<"args", f>>                 \* the stack page exec builds
File(f, a) == <<"file", f, a>>
Data(id, a, v) == <<"data", id, a, v>>
None == <<"none">>                       \* ghost only: not part of the address space

\* Page-table entries.
ZeroPte == [st |-> "zero", u |-> FALSE, pa |-> NoPage]
Absent(u, g) == [st |-> "absent", u |-> u, pa |-> g]     \* nonzero, PTE_P clear
Present(u, g) == [st |-> "present", u |-> u, pa |-> g]
ZeroTable == [a \in VA |-> ZeroPte]
PteType == {e \in [st : {"zero", "absent", "present"}, u : BOOLEAN, pa : PA \cup {NoPage}] :
              e.st = "present" => e.pa # NoPage}

Idle == [va |-> 0, lpid |-> 0, ret |-> "user", swapno |-> 0, vpid |-> 0,
         tp |-> NoProc, tva |-> 0, space |-> 0, tail |-> NoSlot, slot |-> NoSlot,
         page |-> NoPage, dir |-> NoPage, np |-> NoProc]

PGROUNDUP(n) == ((n + PGSIZE - 1) \div PGSIZE) * PGSIZE
Pages(n) == PGROUNDUP(n) \div PGSIZE            \* pages that hold n units

-----------------------------------------------------------------------------
(* Helpers. *)

\* The process may take a step: the machine has not panicked and, when operations
\* do not overlap, no other process is inside the kernel.
Runs(p) == /\ panic = "none"
           /\ Overlap \/ \A q \in Procs \ {p} : pc[q] = "user"

At(p, l) == Runs(p) /\ pc[p] = l
User(p) == At(p, "user") /\ state[p] = "RUNNABLE"

Goto(p, l) == pc' = [pc EXCEPT ![p] = l]
Return(p) == Goto(p, "user") /\ loc' = [loc EXCEPT ![p] = Idle]
Panic(msg) == panic' = msg /\ UNCHANGED <<procVars, memVars, swapVars, lru, pc, loc, user>>

\* kmem.lock is free, or its holder is p itself.
KmemFree(p) == kmemlock \in {NoProc, p}

\* kalloc: which free page is returned does not matter, all hold the fill of kfree.
Kalloc == CHOOSE g \in PA : g \in freelist

\* The contents of memory once kfree has filled the pages of S.
Filled(S) == [g \in PA |-> IF g \in S THEN Junk ELSE mem[g]]

\* get_proc: the first slot that holds this pid.
get_proc(id) ==
    IF \E p \in Procs : pid[p] = id
    THEN CHOOSE p \in Procs : pid[p] = id /\ \A q \in Procs : pid[q] = id => p <= q
    ELSE NoProc

\* The slots of the swap list that starts at h, following next.
Chain(h) ==
    LET c[n \in 0..MAX_FRAME_SWAP] ==
          IF n = 0 THEN <<h>>
          ELSE LET s == c[n - 1] IN
               IF df[s[Len(s)]].next = NoSlot THEN s ELSE Append(s, df[s[Len(s)]].next)
    IN  IF h = NoSlot THEN <<>> ELSE c[MAX_FRAME_SWAP]

\* The first slot of the list for this address (swap_check and swap_in search alike).
Lookup(h, addr) ==
    LET c == Chain(h)
        hits == {i \in 1..Len(c) : df[c[i]].vaddr = addr}
    IN  IF hits = {} THEN NoSlot ELSE c[CHOOSE i \in hits : \A j \in hits : i <= j]

SwapBlock(space, f) == SwapStart[space] + f

\* The pages a page table maps; freevm gives them back together with pgdir itself.
Resident(d) == {vm[d][a].pa : a \in {b \in VA : vm[d][b].st = "present"}}
VmPages(d) == Resident(d) \cup {d}

-----------------------------------------------------------------------------
(* Initial state: init has just executed exec(InitProg), the only process. *)

ImageSize(f) == PGROUNDUP(MemSz[f]) + 2 * PGSIZE

\* The page table exec builds: nothing present, the guard page without PTE_U.
ImageTable(f) == [a \in VA |-> IF a * PGSIZE >= ImageSize(f) THEN ZeroPte
                               ELSE Absent(a # Pages(MemSz[f]), NoPage)]

\* What the process may expect to find in its pages after exec.
ImageView(f) == [a \in VA |-> IF a < Pages(MemSz[f]) THEN File(f, a)
                              ELSE IF a = Pages(MemSz[f]) + 1 THEN Args(f)
                              ELSE None]

DiskPages == {SwapBlock(s, f) : s \in 0..2, f \in Slots}
FreeFrame == [vaddr |-> 0, next |-> NoSlot, swap |-> 0, count |-> 0]

Init ==
    LET only(x, y) == [p \in Procs |-> IF p = Initproc THEN x ELSE y]
        top == ImageSize(InitProg) - PGSIZE IN
    /\ state = only("RUNNABLE", "UNUSED") /\ pid = only(1, 0) /\ nextpid = 2
    /\ parent = [p \in Procs |-> NoProc]
    /\ kstack = only(1, NoPage) /\ pgdir = only(2, NoPage)
    /\ sz = only(ImageSize(InitProg), 0) /\ cdb_size = only(MemSz[InitProg], 0)
    /\ ip = only(InitProg, "") /\ ph = only(MemSz[InitProg], 0)
    /\ swap_list = only(0, NoSlot) /\ forked = [p \in Procs |-> FALSE]
    /\ write_buffer = [p \in Procs |-> Zero]
    /\ vm = [g \in PA |-> IF g = 2 THEN ImageTable(InitProg) ELSE ZeroTable]
    /\ freelist = PA \ {1, 2} /\ kmemlock = NoProc
    /\ mem = [g \in PA |-> Junk]
    /\ lru = <<>>
    /\ swapused = {0} /\ swaplock = FALSE
    /\ df = [f \in Slots |-> IF f = 0 THEN [vaddr |-> top, next |-> NoSlot,
                                            swap |-> 1, count |-> 1]
                             ELSE FreeFrame]
    /\ disk = [b \in DiskPages |-> IF b = SwapBlock(1, 0) THEN Args(InitProg) ELSE Zero]
    /\ pc = [p \in Procs |-> "user"] /\ loc = [p \in Procs |-> Idle]
    /\ panic = "none"
    /\ user = only(ImageView(InitProg), [a \in VA |-> None])

-----------------------------------------------------------------------------
(* User mode: a store to a present page, and the fault on an absent one.   *)

Store(p) == \E a \in VA, v \in Vers :
    LET e == vm[pgdir[p]][a]
        x == Data(pid[p], a, v) IN
    /\ User(p)
    /\ user[p][a] # None /\ e.st = "present" /\ e.u
    /\ mem' = [mem EXCEPT ![e.pa] = x]
    /\ user' = [user EXCEPT ![p][a] = x]
    /\ UNCHANGED <<procVars, vm, freelist, kmemlock, swapVars, lru, pc, loc, panic>>

\* pgflt_handler up to and including swap_check.  A page outside the image (the
\* guard page, or beyond sz, which the handler does not look at) is touched only by
\* programs that make "stray" accesses.
Fault(p) == \E a \in VA :
    LET f == Lookup(swap_list[p], a * PGSIZE) IN
    /\ User(p)
    /\ vm[pgdir[p]][a].st # "present"
    /\ user[p][a] # None \/ "stray" \in Calls
    /\ swap_list[p] # NoSlot => ~swaplock
    /\ loc' = [loc EXCEPT ![p] = [Idle EXCEPT !.va = a, !.lpid = pid[p], !.ret = "swap_in",
                                    !.swapno = IF f = NoSlot THEN 0 ELSE df[f].swap]]
    /\ Goto(p, IF f = NoSlot THEN "load" ELSE "get_lru")
    /\ UNCHANGED <<procVars, memVars, swapVars, lru, panic, user>>

\* The rest of pgflt_handler for a page that is not in the swap space: a new page
\* is mapped and filled from the file if it lies below memsz.
Load(p) ==
    LET a == loc[p].va
        g == Kalloc IN
    /\ At(p, "load") /\ KmemFree(p)
    /\ IF freelist = {} THEN Panic("No Free Page")
       ELSE /\ freelist' = freelist \ {g}
            /\ mem' = [mem EXCEPT ![g] = IF a * PGSIZE < ph[p] THEN File(ip[p], a) ELSE @]
            /\ vm' = [vm EXCEPT ![pgdir[p]][a] = Present(TRUE, g)]
            /\ Return(p)
            /\ UNCHANGED <<procVars, kmemlock, swapVars, lru, panic, user>>

-----------------------------------------------------------------------------
(* get_lru: insert the page (loc.lpid, loc.va), evicting until there is    *)
(* room, then go on at loc.ret.                                            *)

\* Variant: get_lru waits for room and evicts nothing.
LruInsertRetry(p) ==
    /\ At(p, "get_lru")
    /\ IF Len(lru) < MAX_FRAME_LRU
       THEN lru' = Append(lru, Entry(loc[p].lpid, loc[p].va)) /\ Goto(p, loc[p].ret)
       ELSE UNCHANGED <<lru, pc>>
    /\ UNCHANGED <<procVars, memVars, swapVars, loc, panic, user>>

LruInsert(p) ==
    /\ At(p, "get_lru")
    /\ IF Len(lru) < MAX_FRAME_LRU
       THEN lru' = Append(lru, Entry(loc[p].lpid, loc[p].va)) /\ Goto(p, loc[p].ret)
       ELSE Goto(p, "lru_delete") /\ UNCHANGED lru
    /\ UNCHANGED <<procVars, memVars, swapVars, loc, panic, user>>

\* lru_delete, the reads of the frame and lru_release_frame.  Should the list have
\* been emptied meanwhile, lru.head is left pointing to a free frame (see LruList), and
\* the victim is whatever page that frame last named.
LruDelete(p) ==
    /\ At(p, "lru_delete")
    /\ IF lru = <<>>
       THEN \E id \in 1..MaxPid, a \in VA :
              loc' = [loc EXCEPT ![p].vpid = id, ![p].tva = a * PGSIZE] /\ UNCHANGED lru
       ELSE /\ lru' = Tail(lru)
            /\ loc' = [loc EXCEPT ![p].vpid = Head(lru).pid, ![p].tva = Head(lru).vaddr * PGSIZE]
    /\ Goto(p, "victim")
    /\ UNCHANGED <<procVars, memVars, swapVars, panic, user>>

\* The pgdir of q is a page table now.  That of a process which fork is still building
\* is not: it is 0, or what wait freed with the last process in the slot.
HasTable(q) ==
    /\ pgdir[q] # NoPage
    /\ \E r \in Procs : \/ state[r] \in {"RUNNABLE", "ZOMBIE"} /\ pgdir[r] = pgdir[q]
                       \/ loc[r].dir = pgdir[q]

\* Lines 650-660: the owner of the page is looked up and the page copied to its
\* write_buffer (read_vaddr).  The test in read_vaddr is true of any nonzero entry; one
\* without a physical page gives the bytes at address 0, which are not the page's.
\* Where there is no page table, any bytes are taken for one: read_vaddr fails, or
\* copies something, or faults.
Victim(p) ==
    LET q == get_proc(loc[p].vpid)
        e == vm[pgdir[q]][loc[p].tva \div PGSIZE] IN
    /\ At(p, "victim")
    /\ \/ /\ q = NoProc
          /\ lru' = QFree(lru, loc[p].vpid)
          /\ Goto(p, "get_lru")
          /\ UNCHANGED <<procVars, memVars, swapVars, loc, panic, user>>
       \/ /\ q # NoProc /\ (HasTable(q) => e.st = "zero")
          /\ Goto(p, "get_lru")
          /\ UNCHANGED <<procVars, memVars, swapVars, lru, loc, panic, user>>
       \/ /\ q # NoProc /\ (HasTable(q) => e.st # "zero")
          /\ write_buffer' = [write_buffer EXCEPT ![q] = IF HasTable(q) /\ e.pa # NoPage
                                                          THEN mem[e.pa] ELSE Junk]
          /\ loc' = [loc EXCEPT ![p].tp = q, ![p].space = 0]
          /\ Goto(p, "swap_out")
          /\ UNCHANGED <<procVars, memVars, swap_list, swapused, df, disk, swaplock, lru,
                         panic, user>>
       \/ /\ q # NoProc /\ ~HasTable(q)
          /\ Panic("Over the KERNBASE!")

-----------------------------------------------------------------------------
(* swap_out, swap_out_stack and swap_out_heap differ in the swap space     *)
(* (loc.space: 0, 1, 2), in the buffer they write and in what the caller   *)
(* does next.  The page is address loc.tva of process loc.tp.              *)

\* The end of the list is found before swap.lk is acquired.
SwapTail(p) ==
    LET c == Chain(swap_list[loc[p].tp]) IN
    /\ At(p, "swap_out")
    /\ loc' = [loc EXCEPT ![p].tail = IF c = <<>> THEN NoSlot ELSE c[Len(c)]]
    /\ Goto(p, "swap_alloc")
    /\ UNCHANGED <<procVars, memVars, swapVars, lru, panic, user>>

\* Variant: the scan goes down, from one past the last slot.
swap_get_free_frame_downwards ==
    LET free == (Slots \cup {MAX_FRAME_SWAP}) \ swapused IN
    CHOOSE f \in free : \A g \in free : f >= g

swap_get_free_frame ==
    CHOOSE f \in Slots \ swapused : \A g \in Slots \ swapused : f <= g

\* Under swap.lk: take a free slot and link it.  With no free slot the function
\* returns -1 with the lock held; get_lru and exec then panic, growproc returns -1.
SwapAlloc(p) ==
    LET f == swap_get_free_frame
        t == loc[p].tail
        new == [vaddr |-> loc[p].tva, next |-> NoSlot, swap |-> loc[p].space, count |-> 1] IN
    /\ At(p, "swap_alloc") /\ ~swaplock
    /\ \/ /\ Slots = swapused /\ loc[p].space \in {0, 1}
          /\ Panic("Swap Space is Full")
       \/ /\ Slots = swapused /\ loc[p].space = 2
          /\ swaplock' = TRUE
          /\ Return(p)
          /\ UNCHANGED <<procVars, memVars, swap_list, write_buffer, swapused, df, disk,
                         lru, panic, user>>
       \/ /\ Slots # swapused
          /\ swapused' = swapused \cup {f}
          /\ df' = [g \in Slots |-> IF g = f THEN new
                                    ELSE IF g = t THEN [df[g] EXCEPT !.next = f] ELSE df[g]]
          /\ swap_list' = IF t = NoSlot THEN [swap_list EXCEPT ![loc[p].tp] = f] ELSE swap_list
          /\ loc' = [loc EXCEPT ![p].slot = f]
          /\ Goto(p, "writeswap")
          /\ UNCHANGED <<procVars, memVars, write_buffer, disk, swaplock, lru, panic, user>>

\* writeswap of p->write_buffer, p->stack_buffer or p->heap_buffer.
WriteSwap(p) ==
    LET l == loc[p]
        buf == <<write_buffer[l.tp], Args(ip[l.tp]), Zero>>[l.space + 1] IN
    /\ At(p, "writeswap")
    /\ disk' = [disk EXCEPT ![SwapBlock(l.space, l.slot)] = buf]
    /\ Goto(p, "demap")
    /\ UNCHANGED <<procVars, memVars, swap_list, write_buffer, swapused, df, swaplock,
                   lru, loc, panic, user>>

\* demappages_swap_out clears PTE_P in the entry of the page that holds the address.
Demapped(d, a) ==
    [g \in PA |-> [b \in VA |-> IF g = d /\ b = a /\ vm[g][b].st = "present"
                                THEN Absent(vm[g][b].u, vm[g][b].pa) ELSE vm[g][b]]]

\* demappages_swap_out and klru_free_swap.  The address given to klru_free_swap is a
\* user address, below the kernel's "end": it only drops the list entry, and the
\* physical page is not freed.
Demap(p) ==
    LET l == loc[p] IN
    /\ At(p, "demap")
    /\ vm' = Demapped(pgdir[l.tp], l.tva \div PGSIZE)
    /\ lru' = IF l.tva % PGSIZE = 0 THEN QFreeFrame(lru, pid[l.tp], l.tva \div PGSIZE) ELSE lru
    /\ Goto(p, <<"get_lru", "exec", "grow">>[l.space + 1])
    /\ UNCHANGED <<procVars, freelist, kmemlock, mem, swapVars, loc, panic, user>>

-----------------------------------------------------------------------------
(* swap_in, swap_in_stack, swap_in_heap: loc.swapno says which one runs.   *)

\* Under swap.lk: find the slot again, drop one reference, and when it was the last
\* unlink the slot and free it.  The page is read afterwards.
SwapIn(p) ==
    LET c == Chain(swap_list[p])
        f == Lookup(swap_list[p], loc[p].va * PGSIZE)
        last == df[f].count = 1
        before == CHOOSE g \in Range(c) : df[g].next = f IN
    /\ At(p, "swap_in")
    /\ swap_list[p] # NoSlot => ~swaplock
    /\ IF f = NoSlot THEN Panic("Swap In not working!")
       ELSE /\ swap_list' = IF last /\ f = swap_list[p]
                            THEN [swap_list EXCEPT ![p] = df[f].next] ELSE swap_list
            /\ df' = [g \in Slots |->
                        IF g = f THEN [df[g] EXCEPT !.count = @ - 1]
                        ELSE IF last /\ f # swap_list[p] /\ g = before
                             THEN [df[g] EXCEPT !.next = df[f].next]
                             ELSE df[g]]
            /\ swapused' = IF last THEN swapused \ {f} ELSE swapused
            /\ loc' = [loc EXCEPT ![p].slot = f]
            /\ Goto(p, "readswap")
            /\ UNCHANGED <<procVars, memVars, write_buffer, disk, swaplock, lru, panic, user>>

\* readswap allocates a page, without the page list ...
ReadSwapAlloc(p) ==
    /\ At(p, "readswap") /\ KmemFree(p)
    /\ IF freelist = {} THEN Panic("No Free Page")
       ELSE /\ freelist' = freelist \ {Kalloc}
            /\ loc' = [loc EXCEPT ![p].page = Kalloc]
            /\ Goto(p, "mappages")
            /\ UNCHANGED <<procVars, vm, kmemlock, mem, swapVars, lru, panic, user>>

\* Variant: all three swap_in functions read the generic swap space.
ReadSwapMapGeneric(p) ==
    LET l == loc[p] IN
    /\ At(p, "mappages")
    /\ mem' = [mem EXCEPT ![l.page] = disk[SwapBlock(0, l.slot)]]
    /\ vm' = [vm EXCEPT ![pgdir[p]][l.va] = Present(TRUE, l.page)]
    /\ Return(p)
    /\ UNCHANGED <<procVars, freelist, kmemlock, swapVars, lru, panic, user>>

\* ... reads the blocks of the slot, and mappages_swap_in maps the page.
ReadSwapMap(p) ==
    LET l == loc[p] IN
    /\ At(p, "mappages")
    /\ mem' = [mem EXCEPT ![l.page] = disk[SwapBlock(l.swapno, l.slot)]]
    /\ vm' = [vm EXCEPT ![pgdir[p]][l.va] = Present(TRUE, l.page)]
    /\ Return(p)
    /\ UNCHANGED <<procVars, freelist, kmemlock, swapVars, lru, panic, user>>

-----------------------------------------------------------------------------
(* growproc. *)

\* sbrk(n), n > 0: allocuvm enters the new pages as absent; for a new page,
\* swap_out_heap puts a page of zeros into the swap space at address p->sz.
Grow(p) == \E n \in Sbrk :
    LET new == {a \in VA : Pages(sz[p]) <= a /\ a < Pages(sz[p] + n)} IN
    /\ User(p) /\ "sbrk" \in Calls
    /\ sz[p] + n <= NVA * PGSIZE
    /\ vm' = [g \in PA |-> [a \in VA |-> IF g = pgdir[p] /\ a \in new
                                         THEN Absent(TRUE, NoPage) ELSE vm[g][a]]]
    /\ loc' = [loc EXCEPT ![p] = [Idle EXCEPT !.va = sz[p] + n, !.tp = p,
                                              !.tva = sz[p], !.space = 2]]
    /\ Goto(p, IF new = {} THEN "grow" ELSE "swap_out")
    /\ UNCHANGED <<procVars, freelist, kmemlock, mem, swapVars, lru, panic, user>>

\* The size is updated last (loc.va holds the new one).
GrowDone(p) ==
    LET size == loc[p].va IN
    /\ At(p, "grow")
    /\ sz' = [sz EXCEPT ![p] = size]
    /\ user' = [user EXCEPT ![p] = [a \in VA |-> IF Pages(sz[p]) <= a /\ a < Pages(size)
                                                 THEN Zero ELSE user[p][a]]]
    /\ Return(p)
    /\ UNCHANGED <<state, pid, parent, nextpid, kstack, pgdir, cdb_size, ip, ph, forked,
                   memVars, swapVars, lru, panic>>

\* sbrk(-n), down to the stack at most: deallocuvm frees the present pages and
\* clears their entries; the page list and the swap list are left as they are.
Shrink(p) == \E n \in Sbrk :
    LET size == sz[p] - n
        gone == {a \in VA : Pages(size) <= a /\ a * PGSIZE < sz[p]
                            /\ vm[pgdir[p]][a].st = "present"}
        pages == {vm[pgdir[p]][a].pa : a \in gone} IN
    /\ User(p) /\ "sbrk-" \in Calls /\ KmemFree(p)
    /\ size >= PGROUNDUP(cdb_size[p]) + 2 * PGSIZE
    /\ freelist' = freelist \cup pages
    /\ mem' = Filled(pages)
    /\ vm' = [g \in PA |-> [a \in VA |-> IF g = pgdir[p] /\ a \in gone
                                         THEN ZeroPte ELSE vm[g][a]]]
    /\ sz' = [sz EXCEPT ![p] = size]
    /\ user' = [user EXCEPT ![p] = [a \in VA |-> IF a < Pages(size) THEN user[p][a] ELSE None]]
    /\ UNCHANGED <<state, pid, parent, nextpid, kstack, pgdir, cdb_size, ip, ph, forked,
                   kmemlock, swapVars, lru, pc, loc, panic>>

-----------------------------------------------------------------------------
(* freevm, swap_free and exec. *)

\* freevm(d) together with kfree of the pages of S.
FreeVm(d, S) ==
    /\ freelist' = freelist \cup VmPages(d) \cup S
    /\ mem' = Filled(VmPages(d) \cup S)
    /\ vm' = [vm EXCEPT ![d] = ZeroTable]

\* Variant: the last slot of the list is forgotten.
swap_free_but_last(p) ==
    LET c == Chain(swap_list[p]) IN
    /\ forked[p] \/ ~swaplock
    /\ swapused' = IF forked[p] THEN swapused ELSE swapused \ Range(SubSeq(c, 1, Len(c) - 1))
    /\ swap_list' = [swap_list EXCEPT ![p] = NoSlot]

\* swap_free: the slots of the list are freed, whatever their count, unless the
\* process has ever forked; a list of one slot is not cut off from the process.
swap_free(p) ==
    LET c == Chain(swap_list[p]) IN
    /\ forked[p] \/ ~swaplock
    /\ swapused' = IF forked[p] THEN swapused ELSE swapused \ Range(c)
    /\ swap_list' = IF ~forked[p] /\ Len(c) = 1 THEN swap_list
                    ELSE [swap_list EXCEPT ![p] = NoSlot]

\* exec up to the commit: a page table with nothing present; the stack page goes to
\* the swap space.  The old image's swap list and page-list entries stay.
Exec(p) == \E f \in Progs :
    LET d == Kalloc IN
    /\ User(p) /\ "exec" \in Calls /\ KmemFree(p)
    /\ ImageSize(f) <= NVA * PGSIZE /\ freelist # {}
    /\ freelist' = freelist \ {d}
    /\ vm' = [vm EXCEPT ![d] = ImageTable(f)]
    /\ ip' = [ip EXCEPT ![p] = f] /\ ph' = [ph EXCEPT ![p] = MemSz[f]]
    /\ cdb_size' = [cdb_size EXCEPT ![p] = MemSz[f]]
    /\ pgdir' = [pgdir EXCEPT ![p] = d]
    /\ sz' = [sz EXCEPT ![p] = ImageSize(f)]
    /\ user' = [user EXCEPT ![p] = ImageView(f)]
    /\ loc' = [loc EXCEPT ![p] = [Idle EXCEPT !.tp = p, !.tva = ImageSize(f) - PGSIZE,
                                              !.space = 1, !.dir = pgdir[p]]]
    /\ Goto(p, "swap_out")
    /\ UNCHANGED <<state, pid, parent, nextpid, kstack, forked, kmemlock, mem, swapVars,
                   lru, panic>>

\* Variant: the new page table is freed, not the old one.
ExecDoneNew(p) ==
    /\ At(p, "exec") /\ KmemFree(p)
    /\ FreeVm(pgdir[p], {})
    /\ Return(p)
    /\ UNCHANGED <<procVars, kmemlock, swapVars, lru, panic, user>>

\* freevm(oldpgdir).
ExecDone(p) ==
    /\ At(p, "exec") /\ KmemFree(p)
    /\ FreeVm(loc[p].dir, {})
    /\ Return(p)
    /\ UNCHANGED <<procVars, kmemlock, swapVars, lru, panic, user>>

\* exec fails on the ELF header, or for want of a page: ip already names the file.
ExecFailEarly(p) == \E f \in Progs :
    /\ User(p) /\ "exec-" \in Calls
    /\ ip' = [ip EXCEPT ![p] = f]
    /\ UNCHANGED <<state, pid, parent, nextpid, kstack, pgdir, sz, cdb_size, ph, forked,
                   memVars, swapVars, lru, pc, loc, panic, user>>

\* exec fails after setupkvm, in the program headers or in the arguments: "bad:"
\* frees the page-list entries and the swap slots of the process, which goes on with
\* its old image.  The new page table is allocated and freed in between.  How far
\* exec got decides whether ph, and then cdb_size, are already those of the file.
ExecFailLate(p) == \E f \in Progs, loaded, sized \in BOOLEAN :
    /\ User(p) /\ "exec-" \in Calls /\ KmemFree(p) /\ freelist # {}
    /\ ip' = [ip EXCEPT ![p] = f]
    /\ ph' = IF loaded THEN [ph EXCEPT ![p] = MemSz[f]] ELSE ph
    /\ cdb_size' = IF loaded /\ sized THEN [cdb_size EXCEPT ![p] = MemSz[f]] ELSE cdb_size
    /\ lru' = QFree(lru, pid[p])
    /\ swap_free(p)
    /\ UNCHANGED <<state, pid, parent, nextpid, kstack, pgdir, sz, forked, memVars,
                   write_buffer, df, disk, swaplock, pc, loc, panic, user>>

-----------------------------------------------------------------------------
(* fork. *)

\* When Calls has "fork" a process forks at any time.  With "fork resident" it forks
\* only with every page present, and room in the page list for the child's pages.
MayFork(p) ==
    \/ "fork" \in Calls
    \/ /\ "fork resident" \in Calls
       /\ \A a \in VA : user[p][a] # None => vm[pgdir[p]][a].st = "present"
       /\ Len(lru) + Cardinality({a \in VA : cdb_size[p] < a * PGSIZE /\ a * PGSIZE < sz[p]})
            <= MAX_FRAME_LRU

\* Variant: allocproc does not mark the slot before it lets go of ptable.lock.
ForkAllocUnmarked(p) ==
    LET free == {q \in Procs : state[q] = "UNUSED"}
        np == CHOOSE q \in free : \A r \in free : q <= r IN
    /\ User(p) /\ MayFork(p) /\ KmemFree(p)
    /\ nextpid <= MaxPid /\ free # {}
    /\ pid' = [pid EXCEPT ![np] = nextpid]
    /\ nextpid' = nextpid + 1
    /\ IF freelist = {} THEN UNCHANGED <<state, kstack, freelist, pc, loc>>
       ELSE /\ UNCHANGED state
            /\ kstack' = [kstack EXCEPT ![np] = Kalloc]
            /\ freelist' = freelist \ {Kalloc}
            /\ loc' = [loc EXCEPT ![p] = [Idle EXCEPT !.np = np, !.lpid = nextpid,
                                                      !.ret = "copy_map"]]
            /\ Goto(p, "copyuvm")
    /\ UNCHANGED <<parent, pgdir, sz, cdb_size, ip, ph, forked, vm, kmemlock, mem, swapVars,
                   lru, panic, user>>

\* allocproc takes the first unused slot and allocates the kernel stack; failing
\* that, the slot is unused again but keeps the pid.
ForkAlloc(p) ==
    LET free == {q \in Procs : state[q] = "UNUSED"}
        np == CHOOSE q \in free : \A r \in free : q <= r IN
    /\ User(p) /\ MayFork(p) /\ KmemFree(p)
    /\ nextpid <= MaxPid /\ free # {}
    /\ pid' = [pid EXCEPT ![np] = nextpid]
    /\ nextpid' = nextpid + 1
    /\ IF freelist = {} THEN UNCHANGED <<state, kstack, freelist, pc, loc>>
       ELSE /\ state' = [state EXCEPT ![np] = "EMBRYO"]
            /\ kstack' = [kstack EXCEPT ![np] = Kalloc]
            /\ freelist' = freelist \ {Kalloc}
            /\ loc' = [loc EXCEPT ![p] = [Idle EXCEPT !.np = np, !.lpid = nextpid,
                                                      !.ret = "copy_map"]]
            /\ Goto(p, "copyuvm")
    /\ UNCHANGED <<parent, pgdir, sz, cdb_size, ip, ph, forked, vm, kmemlock, mem, swapVars,
                   lru, panic, user>>

\* setupkvm in copyuvm; without a page fork gives the slot back.
CopyDir(p) ==
    LET np == loc[p].np IN
    /\ At(p, "copyuvm") /\ KmemFree(p)
    /\ IF freelist = {}
       THEN /\ freelist' = {kstack[np]}
            /\ mem' = Filled({kstack[np]})
            /\ kstack' = [kstack EXCEPT ![np] = NoPage]
            /\ pgdir' = [pgdir EXCEPT ![np] = NoPage]
            /\ state' = [state EXCEPT ![np] = "UNUSED"]
            /\ Return(p)
       ELSE /\ freelist' = freelist \ {Kalloc}
            /\ loc' = [loc EXCEPT ![p].dir = Kalloc]
            /\ Goto(p, "copy_page")
            /\ UNCHANGED <<mem, kstack, pgdir, state>>
    /\ UNCHANGED <<pid, parent, nextpid, sz, cdb_size, ip, ph, forked, vm, kmemlock,
                   swapVars, lru, panic, user>>

\* One round of copyuvm's loop: an absent page stays absent (its entry gets the
\* address of the page copied last); for a present one kalloc gets a page, with
\* kmem.lock held through get_lru when the page lies above cdb_size.
CopyPage(p) ==
    LET a == loc[p].va
        listed == a * PGSIZE > cdb_size[p] IN
    /\ At(p, "copy_page")
    /\ \/ /\ a * PGSIZE >= sz[p]
          /\ Goto(p, "fork")
          /\ UNCHANGED <<vm, freelist, kmemlock, loc>>
       \/ /\ a * PGSIZE < sz[p] /\ vm[pgdir[p]][a].st # "present"
          /\ vm' = [vm EXCEPT ![loc[p].dir][a] = Absent(TRUE, loc[p].page)]
          /\ loc' = [loc EXCEPT ![p].va = a + 1]
          /\ UNCHANGED <<freelist, kmemlock, pc>>
       \/ /\ a * PGSIZE < sz[p] /\ vm[pgdir[p]][a].st = "present" /\ KmemFree(p)
          /\ freelist = {}
          /\ Goto(p, "fork_bad")
          /\ UNCHANGED <<vm, freelist, kmemlock, loc>>
       \/ /\ a * PGSIZE < sz[p] /\ vm[pgdir[p]][a].st = "present" /\ KmemFree(p)
          /\ freelist # {}
          /\ freelist' = freelist \ {Kalloc}
          /\ loc' = [loc EXCEPT ![p].page = Kalloc]
          /\ kmemlock' = IF listed THEN p ELSE kmemlock
          /\ Goto(p, IF listed THEN "get_lru" ELSE "copy_map")
          /\ UNCHANGED vm
    /\ UNCHANGED <<procVars, mem, swapVars, lru, panic, user>>

\* kalloc returns; the page is copied and mapped in the child.
CopyMap(p) ==
    LET l == loc[p]
        e == vm[pgdir[p]][l.va] IN
    /\ At(p, "copy_map")
    /\ kmemlock' = IF kmemlock = p THEN NoProc ELSE kmemlock
    /\ mem' = [mem EXCEPT ![l.page] = mem[e.pa]]
    /\ vm' = [vm EXCEPT ![l.dir][l.va] = Present(e.u, l.page)]
    /\ loc' = [loc EXCEPT ![p].va = l.va + 1]
    /\ Goto(p, "copy_page")
    /\ UNCHANGED <<procVars, freelist, swapVars, lru, panic, user>>

\* copyuvm's "bad:" and the failure path of fork.
ForkBad(p) ==
    LET np == loc[p].np IN
    /\ At(p, "fork_bad") /\ KmemFree(p)
    /\ lru' = QFree(lru, pid[np])
    /\ swap_free(np)
    /\ FreeVm(loc[p].dir, {kstack[np]})
    /\ kstack' = [kstack EXCEPT ![np] = NoPage]
    /\ pgdir' = [pgdir EXCEPT ![np] = NoPage]
    /\ state' = [state EXCEPT ![np] = "UNUSED"]
    /\ Return(p)
    /\ UNCHANGED <<pid, parent, nextpid, sz, cdb_size, ip, ph, forked, kmemlock,
                   write_buffer, df, disk, swaplock, panic, user>>

\* swap_fork: each slot of the list is counted once more.
swap_fork(p) ==
    LET shared == Range(Chain(swap_list[p])) IN
    [f \in Slots |-> IF f \in shared THEN [df[f] EXCEPT !.count = @ + 1] ELSE df[f]]

\* The child shares the parent's swap list.
\* It gets neither cdb_size nor ph nor ip.
ForkDone(p) ==
    LET np == loc[p].np IN
    /\ At(p, "fork")
    /\ pgdir' = [pgdir EXCEPT ![np] = loc[p].dir]
    /\ sz' = [sz EXCEPT ![np] = sz[p]]
    /\ parent' = [parent EXCEPT ![np] = p]
    /\ forked' = [forked EXCEPT ![np] = FALSE, ![p] = TRUE]
    /\ swap_list' = [swap_list EXCEPT ![np] = swap_list[p]]
    /\ df' = swap_fork(p)
    /\ state' = [state EXCEPT ![np] = "RUNNABLE"]
    /\ user' = [user EXCEPT ![np] = user[p]]
    /\ Return(p)
    /\ UNCHANGED <<pid, nextpid, kstack, cdb_size, ip, ph, memVars, write_buffer, swapused,
                   disk, swaplock, lru, panic>>

-----------------------------------------------------------------------------
(* exit and wait. *)

Exit(p) ==
    /\ User(p) /\ "exit" \in Calls /\ p # Initproc
    /\ state' = [state EXCEPT ![p] = "ZOMBIE"]
    /\ parent' = [q \in Procs |-> IF parent[q] = p THEN Initproc ELSE parent[q]]
    /\ UNCHANGED <<pid, nextpid, kstack, pgdir, sz, cdb_size, ip, ph, forked, memVars,
                   swapVars, lru, pc, loc, panic, user>>

\* wait reaps the first zombie child, under ptable.lock.
Wait(p) ==
    LET dead == {q \in Procs : parent[q] = p /\ state[q] = "ZOMBIE"}
        c == CHOOSE q \in dead : \A r \in dead : q <= r IN
    /\ User(p) /\ dead # {} /\ KmemFree(p)
    /\ lru' = QFree(lru, pid[c])
    /\ swap_free(c)
    /\ FreeVm(pgdir[c], {kstack[c]})
    /\ kstack' = [kstack EXCEPT ![c] = NoPage]
    /\ pid' = [pid EXCEPT ![c] = 0]
    /\ parent' = [parent EXCEPT ![c] = NoProc]
    /\ state' = [state EXCEPT ![c] = "UNUSED"]
    /\ user' = [user EXCEPT ![c] = [a \in VA |-> None]]
    /\ UNCHANGED <<nextpid, pgdir, sz, cdb_size, ip, ph, forked, kmemlock, write_buffer,
                   df, disk, swaplock, pc, loc, panic>>

\* A panic stops the machine; a CPU that waits for a lock nobody will release spins.
Halted == (panic # "none" \/ swaplock) /\ UNCHANGED vars

\* What a process does: user code, the page fault and the system calls of trap.
Run(p) ==
    \/ Store(p) \/ Fault(p) \/ Load(p)
    \/ LruInsert(p) \/ LruDelete(p) \/ Victim(p)
    \/ SwapTail(p) \/ SwapAlloc(p) \/ WriteSwap(p) \/ Demap(p)
    \/ SwapIn(p) \/ ReadSwapAlloc(p) \/ ReadSwapMap(p)
    \/ Grow(p) \/ GrowDone(p) \/ Shrink(p)
    \/ Exec(p) \/ ExecDone(p) \/ ExecFailEarly(p) \/ ExecFailLate(p)
    \/ ForkAlloc(p) \/ CopyDir(p) \/ CopyPage(p) \/ CopyMap(p) \/ ForkBad(p) \/ ForkDone(p)
    \/ Exit(p) \/ Wait(p)

Next == (\E p \in Procs : Run(p)) \/ Halted

Spec == Init /\ [][Next]_vars

\* The scheduler goes round ptable and the timer takes the CPU away from user code:
\* an operation that has entered the kernel gets to take its next step.
Step(p) == pc[p] # "user" /\ Run(p)
FairSpec == Spec /\ \A p \in Procs : WF_vars(Step(p))

-----------------------------------------------------------------------------
(* Properties. *)

\* The process table, the page tables, the free list and the swap table keep their
\* types; an entry with PTE_P set has a physical page, which freevm relies on.
TypeOK ==
    /\ state \in [Procs -> {"UNUSED", "EMBRYO", "RUNNABLE", "ZOMBIE"}]
    /\ kstack \in [Procs -> PA \cup {NoPage}]
    /\ pgdir \in [Procs -> PA \cup {NoPage}]
    /\ freelist \subseteq PA
    /\ vm \in [PA -> [VA -> PteType]]
    /\ swapused \subseteq Slots
    /\ DOMAIN df = Slots

\* What process p would read from page a if it touched it now.
View(p, a) ==
    LET e == vm[pgdir[p]][a]
        f == Lookup(swap_list[p], a * PGSIZE) IN
    IF e.st = "present" THEN mem[e.pa]
    ELSE IF f # NoSlot THEN disk[SwapBlock(df[f].swap, f)]
    ELSE IF a * PGSIZE < ph[p] THEN File(ip[p], a)
    ELSE Junk

\* The pages that a process outside the kernel may use.
UserPages == {x \in Procs \X VA : state[x[1]] = "RUNNABLE" /\ pc[x[1]] = "user"
                                  /\ user[x[1]][x[2]] # None}
Intact(x) == View(x[1], x[2]) = user[x[1]][x[2]]

\* A process finds in every page of its image what it last stored there, or what
\* exec or sbrk put there, whether the page is present, swapped out or not yet loaded.
PageIntegrity == \A x \in UserPages : Intact(x)

\* Where a physical page can be held: an entry of a page table, a kernel stack, the
\* page table of a process, and, inside the kernel, the page table that exec is about
\* to free or copyuvm is filling ("dir") and the page that is to be mapped ("page").
Refs == ({"pte"} \X PA \X VA) \cup ({"kstack", "pgdir", "dir", "page"} \X Procs \X {0})

\* loc.page is held between kalloc and mappages only.
InFlight(p) ==
    \/ pc[p] \in {"mappages", "copy_map"}
    \/ loc[p].ret = "copy_map"
       /\ pc[p] \in {"get_lru", "lru_delete", "victim", "swap_out", "swap_alloc",
                     "writeswap", "demap"}

RefPage(r) ==
    IF r[1] = "pte" THEN IF vm[r[2]][r[3]].st = "present" THEN vm[r[2]][r[3]].pa ELSE NoPage
    ELSE IF r[1] = "kstack" THEN kstack[r[2]]
    ELSE IF r[1] = "pgdir" THEN
         IF state[r[2]] \in {"RUNNABLE", "ZOMBIE"} THEN pgdir[r[2]] ELSE NoPage
    ELSE IF r[1] = "dir" THEN loc[r[2]].dir
    ELSE IF InFlight(r[2]) THEN loc[r[2]].page ELSE NoPage

\* No physical page is in two places: it is mapped at most once, in at most one
\* address space, and a page that is mapped or used by the kernel is not on the free
\* list.  This is what keeps processes apart, whatever kalloc, kfree, copyuvm, exec,
\* the fault handler and evictions by other processes do in between.
PagesExclusive ==
    LET held == {r \in Refs : RefPage(r) # NoPage} IN
    \A r \in held : /\ RefPage(r) \notin freelist
                   /\ \A s \in held : RefPage(s) = RefPage(r) => s = r

Quiet == \A p \in Procs : pc[p] = "user"
Live == {p \in Procs : state[p] \in {"RUNNABLE", "ZOMBIE"}}
Listed(p) == Range(Chain(swap_list[p]))

\* Between operations the swap table is exact: every slot in use belongs to exactly
\* one process, no two slots hold the same page, and a page that has a slot is absent.
SwapTableExact ==
    Quiet /\ ~swaplock =>
        /\ swapused = UNION {Listed(p) : p \in Live}
        /\ \A p, q \in Live : p # q => Listed(p) \cap Listed(q) = {}
        /\ \A p \in Live : \A f, g \in Listed(p) : df[f].vaddr = df[g].vaddr => f = g
        /\ \A p \in Live : \A f \in Listed(p) :
             vm[pgdir[p]][df[f].vaddr \div PGSIZE].st = "absent"

\* Between operations the page list holds exactly the present pages above the code of
\* the program, each once: what get_lru can evict is what is resident.
LruExact ==
    Quiet =>
        LET evictable == {x \in Live \X VA : /\ x[2] * PGSIZE >= MemSz[InitProg]
                                              /\ vm[pgdir[x[1]]][x[2]].st = "present"}
        IN  /\ Range(lru) = {Entry(pid[x[1]], x[2]) : x \in evictable}
            /\ Len(lru) = Cardinality(Range(lru))

\* Every fault and every system call that touches the address space returns to the
\* user program, or the machine panics: the loop of get_lru, which goes on as long as
\* lru_insert finds no room, ends.
OperationsEnd == \A p \in Procs : pc[p] # "user" ~> pc[p] = "user" \/ panic # "none"

-----------------------------------------------------------------------------
(* The inductive invariant behind PagesExclusive.                          *)

\* Where a process can be: in user mode or at a step of a kernel operation.
Labels == {"user", "load", "get_lru", "lru_delete", "victim", "swap_out", "swap_alloc",
           "writeswap", "demap", "swap_in", "readswap", "mappages", "grow", "exec",
           "copyuvm", "copy_page", "copy_map", "fork", "fork_bad"}

\* The labels of get_lru and of the swap_out it calls.
Evicting == {"get_lru", "lru_delete", "victim", "swap_out", "swap_alloc", "writeswap", "demap"}

\* The locals of an operation.
LocOK(l) ==
    /\ DOMAIN l = DOMAIN Idle
    /\ l.dir \in PA \cup {NoPage} /\ l.page \in PA \cup {NoPage}
    /\ l.ret \in {"user", "swap_in", "copy_map"} /\ l.space \in 0..2

LocTyped ==
    /\ pc \in [Procs -> Labels]
    /\ DOMAIN loc = Procs /\ \A p \in Procs : LocOK(loc[p])

\* p is inside fork, possibly evicting pages on behalf of copyuvm.
InFork(p) ==
    \/ pc[p] \in {"copyuvm", "copy_page", "copy_map", "fork", "fork_bad"}
    \/ pc[p] \in Evicting /\ loc[p].ret = "copy_map"

\* p is inside exec, past the commit (swap_out_stack uses swap space 1).
InExec(p) ==
    \/ pc[p] = "exec"
    \/ pc[p] \in {"swap_out", "swap_alloc", "writeswap", "demap"} /\ loc[p].space = 1

\* A fork owns the slot of its child, which nobody else touches, and once setupkvm
\* has returned it owns the page table it fills.
ForkOK ==
    /\ \A p \in Procs : InFork(p) =>
         /\ loc[p].np \in Procs /\ state[loc[p].np] = "EMBRYO"
         /\ pc[p] # "copyuvm" => loc[p].dir \in PA
    /\ \A p, q \in Procs : InFork(p) /\ InFork(q) /\ loc[p].np = loc[q].np => p = q

\* What a process slot holds in each state, and what an operation holds at each step.
ProcOK ==
    /\ \A p \in Procs : pc[p] # "user" => state[p] = "RUNNABLE"
    /\ \A p \in Procs : state[p] # "UNUSED" => kstack[p] \in PA
    /\ \A p \in Procs : state[p] \in {"RUNNABLE", "ZOMBIE"} => pgdir[p] \in PA
    /\ \A p \in Procs : InExec(p) => loc[p].dir \in PA
    /\ \A p \in Procs : InFlight(p) => loc[p].page \in PA

\* The inductive invariant.
IInv == TypeOK /\ LocTyped /\ ProcOK /\ ForkOK /\ PagesExclusive

-----------------------------------------------------------------------------
(* What comments and tests say of the program, and the code does not do.   *)

\* A page that sbrk has added and nobody has written "should be zero"
\* (usertests.c:1484), also after the page was given back and added again.
FreshPagesAreZero == \A x \in UserPages : user[x[1]][x[2]] = Zero => Intact(x)

\* What a process stored stays, whatever sizes it passes to sbrk: they "need not be
\* page aligned" (vm.c:218).
StoresSurvive ==
    \A x \in UserPages : user[x[1]][x[2]] \in {Data(pid[x[1]], x[2], v) : v \in Vers} => Intact(x)

\* exec touches the image of the process only when it commits to the new one
\* (exec.c:104): after a failed exec every page is as it was.
FailedExecKeepsImage == \A x \in UserPages : Intact(x)

\* exec makes the page below the stack inaccessible (exec.c:73).
GuardInaccessible ==
    \A p \in Procs : state[p] = "RUNNABLE" =>
        LET e == vm[pgdir[p]][Pages(cdb_size[p])] IN ~(e.st = "present" /\ e.u)

\* fork creates "a new process copying p" (proc.c:194): the child reads what the
\* parent would.
ChildIsCopy == \A x \in UserPages : x[1] # Initproc => Intact(x)

Evicts(p) == pc[p] = "demap" /\ loc[p].space = 0 /\ pc'[p] = "get_lru"
SlotHoldsPage(l) ==
    disk[SwapBlock(0, l.slot)] = mem[vm[pgdir[l.tp]][l.tva \div PGSIZE].pa]

\* swap_out writes "the page" to the swap space (lru_swap.c:245): when the page is
\* taken from its owner, the slot holds what the owner has stored in it by then.
EvictionWritesPage == [][\A p \in Procs : Evicts(p) => SlotHoldsPage(loc[p])]_vars

\* swap_in reads "the page from the generic swap space" (lru_swap.c:378): until it has
\* read it, no other process is given the slot.
SlotKeptUntilRead ==
    \A p, q \in Procs : p # q /\ pc[p] \in {"readswap", "mappages"} =>
        ~(pc[q] \in {"writeswap", "demap"}
          /\ SwapBlock(loc[q].space, loc[q].slot) = SwapBlock(loc[p].swapno, loc[p].slot))

\* swap_free frees the slots of one process only (lru_swap.c:562): no slot that a
\* process still has in its list is free.
ListedSlotsInUse == Quiet => \A p \in Procs : state[p] = "RUNNABLE" => Listed(p) \subseteq swapused

\* growproc fails by returning -1 (proc.c:161), with no lock left behind: the process,
\* and all others, can go on faulting.
NoLockLeftBehind == Quiet => ~swaplock
=============================================================================
