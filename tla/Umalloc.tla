------------------------------ MODULE Umalloc -------------------------------
(***************************************************************************)
(* malloc and free of umalloc.c.  Memory is counted in Headers: a block is *)
(* its address and size, its header included, and the free ones form a     *)
(* ring through base, which lies below the heap.  The program that uses    *)
(* them may call sbrk itself, so that the heap has gaps.                   *)
(***************************************************************************)
EXTENDS Integers, FiniteSetsExt

CONSTANTS NALLOC,   \* 4096, the least that morecore asks for
          LIMIT,    \* how far sbrk goes
          Sizes     \* what is asked for, in units with the header

ASSUME MallocAssumption == NALLOC \in Nat \ {0} /\ LIMIT \in Nat /\ Sizes \subseteq Nat \ {0, 1}

base == 0
Addr == 2..LIMIT    \* base is not adjacent to the heap
Header == {base} \cup Addr
NULL == -1

VARIABLES ptr, size,  \* the headers, by address
          freep,
          brk,        \* the end of the heap
          used,       \* the blocks that the program has
          gaps        \* what it got from sbrk

vars == <<ptr, size, freep, brk, used, gaps>>

Init ==
    /\ ptr = [a \in Header |-> base]
    /\ size = [a \in Header |-> 0]
    /\ freep = NULL
    /\ brk = 2
    /\ used = {}
    /\ gaps = {}

\* ptr, size and freep, as free and malloc change them.
Heap == [ptr |-> ptr, size |-> size, freep |-> freep]

\* The k-th header of the ring from freep on.
Walk(h) ==
    LET walk[k \in 0..(LIMIT + 1)] == IF k = 0 THEN h.freep ELSE h.ptr[walk[k - 1]] IN walk

\* The place of bp: between p and its successor, or at the end or the start of the heap.
Belongs(h, p, bp) ==
    \/ p < bp /\ bp < h.ptr[p]
    \/ p >= h.ptr[p] /\ (bp > p \/ bp < h.ptr[p])

\* Variant: only the upper neighbour is joined.
JoinLowerNot(h, p, bp) == [h EXCEPT !.ptr[p] = bp, !.freep = p]

\* free: the block bp joins the one before it.
JoinLower(h, p, bp) ==
    IF p + h.size[p] = bp
    THEN [h EXCEPT !.size[p] = @ + h.size[bp], !.ptr[p] = h.ptr[bp], !.freep = p]
    ELSE [h EXCEPT !.ptr[p] = bp, !.freep = p]

\* Variant: the upper neighbour leaves the ring, but its size is not added.
JoinUpperShort(h, p, bp) ==
    [h EXCEPT !.ptr[bp] = IF bp + h.size[bp] = h.ptr[p] THEN h.ptr[h.ptr[p]] ELSE h.ptr[p]]

\* free: the block bp joins the one behind it.
JoinUpper(h, p, bp) ==
    LET next == h.ptr[p]
    IN  IF bp + h.size[bp] = next
        THEN [h EXCEPT !.size[bp] = @ + h.size[next], !.ptr[bp] = h.ptr[next]]
        ELSE [h EXCEPT !.ptr[bp] = next]

free(h, bp) ==
    LET w == Walk(h)
        p == w[Min({k \in DOMAIN w : Belongs(h, w[k], bp)})]
    IN  JoinLower(JoinUpper(h, p, bp), p, bp)

\* The headers malloc passes on its way round the ring, and the places where n units fit.
Round(h) == LET w == Walk(h) IN 1..Min({k \in 1..(LIMIT + 1) : w[k] = h.freep})
Fits(h, n) == {k \in Round(h) : h.size[Walk(h)[k]] >= n}

\* malloc takes n units from the first block where they fit, from the end of a larger one.
Taken(h, n) ==
    LET k == Min(Fits(h, n))
        prevp == Walk(h)[k - 1]
        p == Walk(h)[k]
        rest == h.size[p] - n
    IN  IF rest = 0
        THEN [heap |-> [h EXCEPT !.ptr[prevp] = h.ptr[p], !.freep = prevp], at |-> p]
        ELSE [heap |-> [h EXCEPT !.size[p] = rest, !.size[p + rest] = n, !.freep = prevp],
              at |-> p + rest]

\* The first call makes base the whole ring.
Started ==
    IF freep # NULL THEN Heap
    ELSE [Heap EXCEPT !.ptr[base] = base, !.size[base] = 0, !.freep = base]

\* morecore
Grow(n) == IF n < NALLOC THEN NALLOC ELSE n
Cored(h, n) == free([h EXCEPT !.size[brk] = Grow(n)], brk)

Becomes(h) == ptr' = h.ptr /\ size' = h.size /\ freep' = h.freep
Got(t, n) == Becomes(t.heap) /\ used' = used \cup {[at |-> t.at, size |-> n]}

malloc(n) ==
    LET h == Started
    IN  /\ \/ Fits(h, n) # {} /\ Got(Taken(h, n), n) /\ UNCHANGED brk
           \/ /\ Fits(h, n) = {} /\ brk + Grow(n) <= LIMIT + 1
              /\ Got(Taken(Cored(h, n), n), n)
              /\ brk' = brk + Grow(n)
           \/ /\ Fits(h, n) = {} /\ brk + Grow(n) > LIMIT + 1
              /\ Becomes(h) /\ UNCHANGED <<used, brk>>
        /\ UNCHANGED gaps

Free(b) ==
    /\ b \in used
    /\ used' = used \ {b}
    /\ Becomes(free(Heap, b.at))
    /\ UNCHANGED <<brk, gaps>>

Sbrk ==
    /\ brk < LIMIT + 1
    /\ gaps' = gaps \cup {brk}
    /\ brk' = brk + 1
    /\ UNCHANGED <<ptr, size, freep, used>>

Next == (\E n \in Sizes : malloc(n)) \/ (\E b \in used : Free(b)) \/ Sbrk

Spec == Init /\ [][Next]_vars

-----------------------------------------------------------------------------
Ring == IF freep = NULL THEN {} ELSE {Walk(Heap)[k] : k \in Round(Heap)}
Extent(at, n) == at..(at + n - 1)

\* Every unit of the heap is in exactly one block, free or in use, or the program's own: no
\* sequence of malloc, free and sbrk loses memory or gives it out twice, and the header of
\* a block in use still has its size.
HeapExact ==
    LET blocks == used \cup {[at |-> a, size |-> size[a]] : a \in Ring \ {base}}
    IN  /\ \A a \in 2..(brk - 1) :
             Cardinality({b \in blocks : a \in Extent(b.at, b.size)}) + (IF a \in gaps THEN 1 ELSE 0) = 1
        /\ \A b \in blocks : b.size > 0 /\ Extent(b.at, b.size) \subseteq 2..(brk - 1)
        /\ \A b \in used : size[b.at] = b.size

\* The ring goes up through the heap once, and two free blocks are never neighbours, so that
\* memory that has been freed can be had again in larger pieces.
Coalesced ==
    \A a \in Ring :
        /\ a # base => a + size[a] # ptr[a]
        /\ ptr[a] = IF \E b \in Ring : b > a THEN Min({b \in Ring : b > a}) ELSE base
=============================================================================
