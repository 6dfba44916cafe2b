------------------------------ MODULE LruQueue ------------------------------
(***************************************************************************)
(* The page list of lru_swap.c seen as a queue of (pid, vaddr) entries,    *)
(* oldest insertion first: what each operation on the circular list does   *)
(* to the queue.  Nothing in the kernel moves an entry when its page is    *)
(* used, so the order is the order of insertion.                           *)
(***************************************************************************)
EXTENDS Naturals, Sequences, Functions

Entry(pid, vaddr) == [pid |-> pid, vaddr |-> vaddr]

\* The queue without its i-th entry.
Without(q, i) == SubSeq(q, 1, i - 1) \o SubSeq(q, i + 1, Len(q))

\* lru_free_frame: the first entry for this page leaves the queue.
QFreeFrame(q, pid, vaddr) ==
    LET hits == {i \in 1..Len(q) : q[i] = Entry(pid, vaddr)}
    IN  IF hits = {} THEN q
        ELSE Without(q, CHOOSE i \in hits : \A j \in hits : i <= j)

\* Variant: only the oldest entry of the process leaves.
QFreeOne(q, pid) ==
    LET hits == {i \in 1..Len(q) : q[i].pid = pid}
    IN  IF hits = {} THEN q
        ELSE Without(q, CHOOSE i \in hits : \A j \in hits : i <= j)

\* lru_free: every entry of the process leaves the queue, except that the walk
\* stops on reaching a node linked to itself (line 209): when all of two or more
\* entries belong to the process, the newest one stays.
QFree(q, pid) ==
    LET rest == SelectSeq(q, LAMBDA e : e.pid # pid)
    IN  IF rest = <<>> /\ Len(q) > 1 THEN <<q[Len(q)]>> ELSE rest

=============================================================================
