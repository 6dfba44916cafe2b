--------------------------- MODULE MCDemandPaging ---------------------------
(***************************************************************************)
(* Small instances of DemandPaging for TLC.  A page is two units, init has *)
(* one page of code, sh has two.                                           *)
(***************************************************************************)
EXTENDS DemandPaging, TLC

const_Progs == {"init", "sh"}
const_MemSz == [f \in const_Progs |-> IF f = "init" THEN 2 ELSE 4]

\* The layout of param.h, in pages of eight blocks, from SWAP1_START on:
\* SWAP2_START is 250 pages further, SWAP3_START 285.
const_SwapStart == [s \in 0..2 |-> <<0, 250, 285>>[s + 1]]

\* Control state: everything except the contents of pages, and the address bits of
\* absent entries, which only select contents.  No guard and no page-ownership
\* property looks at them.
Entries(d) == [a \in VA |-> IF vm[d][a].st = "present" THEN vm[d][a]
                            ELSE [vm[d][a] EXCEPT !.pa = NoPage]]
Control ==
    <<procVars, freelist, kmemlock, swap_list, swapused, df, swaplock, lru, pc, loc, panic,
      [p \in Procs |-> {a \in VA : user[p][a] = None}], [d \in PA |-> Entries(d)]>>

\* When no slot of ptable is used twice, which physical page is where does not matter
\* either, as long as no page is in two places (Spread tells); nor does what a free slot
\* outside all lists last held.
Table(d) == IF d = NoPage THEN <<>> ELSE [a \in VA |-> <<vm[d][a].st, vm[d][a].u>>]
Reach(p) ==
    UNION {VmPages(d) : d \in {pgdir[p], loc[p].dir} \ {NoPage}}
        \cup ({kstack[p], IF InFlight(p) THEN loc[p].page ELSE NoPage} \ {NoPage})
Spread == Cardinality(freelist \cup UNION {Reach(p) : p \in Procs})
Shape ==
    <<Spread, state, pid, parent, nextpid, sz, cdb_size, forked,
      Cardinality(freelist), kmemlock, swap_list, swapused,
      [f \in Slots |-> IF f \in swapused \cup UNION {Listed(p) : p \in Procs}
                       THEN df[f] ELSE FreeFrame],
      swaplock, lru, pc, panic,
      [p \in Procs |-> <<[loc[p] EXCEPT !.page = NoPage, !.dir = NoPage], kstack[p] = NoPage,
                         {a \in VA : user[p][a] = None}, Table(pgdir[p]), Table(loc[p].dir)>>]>>
=============================================================================
