------------------------------ MODULE LruList -------------------------------
(***************************************************************************)
(* The circular doubly linked page list of lru_swap.c, pointer by pointer. *)
(* Every operation is two steps of the CPU that runs it, as in the code:   *)
(* it reads lru.head (and lru.head->prev) before it acquires lru.lk, and   *)
(* does the rest under the lock.                                           *)
(*                                                                         *)
(* Frames are numbered 1..MAX_FRAME_LRU and the null pointer is 0.         *)
(***************************************************************************)
EXTENDS LruQueue, FiniteSets

CONSTANTS MAX_FRAME_LRU,    \* nodes of the list
          Pids, Vaddrs,     \* processes and page addresses named by the callers
          CPUs              \* CPUs inside the list code at the same time

ASSUME FrameAssumption == MAX_FRAME_LRU \in Nat \ {0}

Null   == 0
Frames == 1..MAX_FRAME_LRU

VARIABLES head, pid, vaddr, next, prev,   \* struct lru
          bitmap,                         \* frame_bitmap: TRUE when allocated (1)
          cpu,                            \* the call each CPU is in, and its locals
          drained,                        \* history: the list has been emptied
          crash                           \* a null pointer was followed, or a walk never ends

ring == <<head, pid, vaddr, next, prev, bitmap>>
vars == <<ring, cpu, drained, crash>>

Idle == [at |-> "idle", pid |-> 0, vaddr |-> 0, ptr |-> Null]

Init ==
    /\ head = Null
    /\ pid = [f \in Frames |-> 0] /\ vaddr = [f \in Frames |-> 0]
    /\ next = [f \in Frames |-> Null] /\ prev = [f \in Frames |-> Null]
    /\ bitmap = [f \in Frames |-> FALSE]
    /\ cpu = [c \in CPUs |-> Idle]
    /\ drained = FALSE
    /\ crash = FALSE

-----------------------------------------------------------------------------
(* Helpers. *)

\* A search loop that runs one past the end of the bitmap.
get_free_frame_lru_past_end ==
    IF \A f \in Frames : bitmap[f] THEN MAX_FRAME_LRU + 1
    ELSE CHOOSE f \in Frames : ~bitmap[f] /\ \A g \in Frames : ~bitmap[g] => f <= g

\* get_free_frame_lru: the lowest free index, Null when there is none.
get_free_frame_lru ==
    IF \A f \in Frames : bitmap[f] THEN Null
    ELSE CHOOSE f \in Frames : ~bitmap[f] /\ \A g \in Frames : ~bitmap[g] => f <= g

\* The history flag: the last allocated frame has just been given back.
NoteDrain(map) ==
    drained' = (drained \/ (head # Null /\ \A f \in Frames : ~map[f]))

\* CPU c calls op: the part that runs before acquire(&lru.lk).
Enter(c, op, id, va, p) ==
    /\ ~crash /\ cpu[c].at = "idle"
    /\ cpu' = [cpu EXCEPT ![c] = [at |-> op, pid |-> id, vaddr |-> va, ptr |-> p]]
    /\ UNCHANGED <<ring, drained, crash>>

Leave(c) == cpu' = [cpu EXCEPT ![c] = Idle]

\* A null pointer was followed: what happens next is not defined.
Crash(c) == crash' = TRUE /\ Leave(c) /\ UNCHANGED <<ring, drained>>

-----------------------------------------------------------------------------
(* lru_insert, as get_lru's loop calls it. *)

\* Lines 50 and 67: the tail is read without the lock.
lru_insert_tail == IF head = Null THEN Null ELSE prev[head]

\* The first insertion ever is made while init is the only process, and a process
\* is inside get_lru on at most one CPU.
InsertEnter(c) == \E id \in Pids, va \in Vaddrs :
    /\ head = Null => \A d \in CPUs : cpu[d] = Idle
    /\ \A d \in CPUs : cpu[d].pid # id
    /\ Enter(c, IF head = Null THEN "insert_first" ELSE "insert", id, va, lru_insert_tail)

\* Lines 52-65: the list was seen empty.
InsertFirst(c) ==
    LET i == get_free_frame_lru IN
    /\ ~crash /\ cpu[c].at = "insert_first"
    /\ i # Null
    /\ pid' = [pid EXCEPT ![i] = cpu[c].pid]
    /\ vaddr' = [vaddr EXCEPT ![i] = cpu[c].vaddr]
    /\ next' = [next EXCEPT ![i] = i]
    /\ prev' = [prev EXCEPT ![i] = i]
    /\ head' = i
    /\ bitmap' = [bitmap EXCEPT ![i] = TRUE]
    /\ Leave(c)
    /\ UNCHANGED <<drained, crash>>

\* An insertion that moves lru.head to the new frame.
InsertAtFront(c) ==
    LET i == get_free_frame_lru
        last == cpu[c].ptr IN
    /\ ~crash /\ cpu[c].at = "insert" /\ i # Null /\ last # Null
    /\ pid' = [pid EXCEPT ![i] = cpu[c].pid]
    /\ vaddr' = [vaddr EXCEPT ![i] = cpu[c].vaddr]
    /\ next' = [[next EXCEPT ![i] = head] EXCEPT ![last] = i]
    /\ prev' = [[prev EXCEPT ![i] = last] EXCEPT ![head] = i]
    /\ bitmap' = [bitmap EXCEPT ![i] = TRUE]
    /\ head' = i
    /\ Leave(c) /\ UNCHANGED <<drained, crash>>

\* Lines 68-83: link the frame between the tail read earlier and the head.
Insert(c) ==
    LET i == get_free_frame_lru
        last == cpu[c].ptr IN
    /\ ~crash /\ cpu[c].at = "insert"
    /\ i # Null
    /\ IF last = Null THEN Crash(c)
       ELSE /\ pid' = [pid EXCEPT ![i] = cpu[c].pid]
            /\ vaddr' = [vaddr EXCEPT ![i] = cpu[c].vaddr]
            /\ next' = [[next EXCEPT ![i] = head] EXCEPT ![last] = i]
            /\ prev' = [[prev EXCEPT ![i] = last] EXCEPT ![head] = i]
            /\ bitmap' = [bitmap EXCEPT ![i] = TRUE]
            /\ Leave(c)
            /\ UNCHANGED <<head, drained, crash>>

\* Lines 54-58 and 70-74: no free frame; get_lru goes on to lru_delete.
InsertFull(c) ==
    /\ ~crash /\ cpu[c].at \in {"insert", "insert_first"}
    /\ get_free_frame_lru = Null
    /\ cpu' = [cpu EXCEPT ![c].at = "delete"]
    /\ UNCHANGED <<ring, drained, crash>>

\* The loop of get_lru calls lru_insert again.
Retry(c) ==
    /\ ~crash /\ cpu[c].at = "retry"
    /\ cpu' = [cpu EXCEPT ![c].at = "insert", ![c].ptr = lru_insert_tail]
    /\ UNCHANGED <<ring, drained, crash>>

-----------------------------------------------------------------------------
(* lru_delete, the reads of the frame, and lru_release_frame: one critical *)
(* section, since lru_delete returns with lru.lk held.                     *)

Delete(c) ==
    LET only == next[head] = head
        cut  == [next EXCEPT ![prev[head]] = next[head]]
        back == [prev EXCEPT ![next[head]] = prev[head]]
        map  == [bitmap EXCEPT ![head] = FALSE] IN
    /\ ~crash /\ cpu[c].at = "delete"
    /\ IF head = Null \/ next[head] = Null \/ prev[head] = Null THEN Crash(c)
       ELSE /\ next' = [(IF only THEN next ELSE cut) EXCEPT ![head] = Null]
            /\ prev' = [(IF only THEN prev ELSE back) EXCEPT ![head] = Null]
            /\ head' = IF only THEN head ELSE next[head]
            /\ bitmap' = map
            /\ NoteDrain(map)
            /\ cpu' = [cpu EXCEPT ![c].at = "retry", ![c].ptr = Null]
            /\ UNCHANGED <<pid, vaddr, crash>>

-----------------------------------------------------------------------------
(* lru_free_frame. *)

FreeFrameEnter(c) == \E id \in Pids, va \in Vaddrs :
    head # Null /\ Enter(c, "free_frame", id, va, head)

\* The nodes the search loop of lines 97-105 visits from node f on, at most
\* MAX_FRAME_LRU + 1 of them; it ends on a match, or on the node before lru.head.
\* A search that meets Null, or is longer, does not end well.
Search(f, id, va) ==
    LET path[n \in 0..MAX_FRAME_LRU] ==
          IF n = 0 THEN <<f>>
          ELSE LET s == path[n - 1]
                   l == s[Len(s)] IN
               IF l = Null \/ (pid[l] = id /\ vaddr[l] = va) \/ next[l] = head
               THEN s ELSE Append(s, next[l])
    IN  path[MAX_FRAME_LRU]

FreeFrame(c) ==
    LET id == cpu[c].pid
        va == cpu[c].vaddr
        path == Search(cpu[c].ptr, id, va)
        curr == path[Len(path)]
        hit  == pid[curr] = id /\ vaddr[curr] = va
        h    == IF curr = head THEN next[head] ELSE head
        before == IF Len(path) > 1 THEN path[Len(path) - 1] ELSE Null
        up   == IF curr = h /\ before # Null THEN before ELSE prev[curr]
        down == IF curr = h /\ before # Null THEN h ELSE next[curr]
        map  == [bitmap EXCEPT ![curr] = FALSE] IN
    /\ ~crash /\ cpu[c].at = "free_frame"
    /\ IF \/ curr = Null
          \/ ~hit /\ next[curr] # head
          \/ hit /\ (up = Null \/ down = Null)
       THEN Crash(c)
       ELSE IF ~hit THEN Leave(c) /\ UNCHANGED <<ring, drained, crash>>
       ELSE /\ head' = h
            /\ next' = [next EXCEPT ![up] = down]
            /\ prev' = [prev EXCEPT ![down] = up]
            /\ bitmap' = map
            /\ NoteDrain(map)
            /\ Leave(c)
            /\ UNCHANGED <<pid, vaddr, crash>>

-----------------------------------------------------------------------------
(* lru_free. *)

FreeEnter(c) == \E id \in Pids :
    head # Null /\ Enter(c, "free", id, 0, head)

\* A removal that forgets the back pointer of the following node.
FreeNodeOneWay(s, id) ==
    LET f == s.curr IN
    IF pid[f] # id THEN s
    ELSE [s EXCEPT !.head = IF f = s.head THEN s.next[f] ELSE s.head,
                   !.next = IF s.prev[f] = Null THEN s.next
                            ELSE [s.next EXCEPT ![s.prev[f]] = s.next[f]],
                   !.map[f] = FALSE]

\* Lines 190-207: node s.curr leaves the list if it belongs to the process.
FreeNode(s, id) ==
    LET f == s.curr IN
    IF pid[f] # id THEN s
    ELSE [s EXCEPT !.head = IF f = s.head THEN s.next[f] ELSE s.head,
                   !.next = IF s.prev[f] = Null THEN s.next
                            ELSE [s.next EXCEPT ![s.prev[f]] = s.next[f]],
                   !.prev = IF s.next[f] = Null THEN s.prev
                            ELSE [s.prev EXCEPT ![s.next[f]] = s.prev[f]],
                   !.map[f] = FALSE]

\* One round of the do-while of lines 187-212.
FreeRound(s, id) ==
    LET t == FreeNode(s, id)
        flag == pid[s.curr] = id /\ s.curr = s.head
        f == t.next[s.curr] IN
    IF f = Null THEN [t EXCEPT !.curr = Null, !.run = FALSE]
    ELSE [t EXCEPT !.curr = f,
                   !.run = ~(f = t.next[f] /\ f = t.prev[f])
                           /\ (flag \/ f # t.head)]

\* The whole loop; run stays TRUE when it would not end.
FreeLoop(f, id) ==
    LET s[n \in 0..(2 * MAX_FRAME_LRU)] ==
          IF n = 0
          THEN [head |-> head, next |-> next, prev |-> prev, map |-> bitmap,
                curr |-> f, run |-> TRUE]
          ELSE IF s[n - 1].run THEN FreeRound(s[n - 1], id) ELSE s[n - 1]
    IN  s[2 * MAX_FRAME_LRU]

Free(c) ==
    LET s == FreeLoop(cpu[c].ptr, cpu[c].pid) IN
    /\ ~crash /\ cpu[c].at = "free"
    /\ IF s.run \/ s.curr = Null THEN Crash(c)
       ELSE /\ head' = s.head /\ next' = s.next /\ prev' = s.prev
            /\ bitmap' = s.map
            /\ NoteDrain(s.map)
            /\ Leave(c)
            /\ UNCHANGED <<pid, vaddr, crash>>

-----------------------------------------------------------------------------
\* After a crash the machine is stopped.
Stopped == crash /\ UNCHANGED vars

Next == \/ \E c \in CPUs : \/ InsertEnter(c) \/ InsertFirst(c) \/ Insert(c)
                           \/ InsertFull(c) \/ Retry(c) \/ Delete(c)
                           \/ FreeFrameEnter(c) \/ FreeFrame(c)
                           \/ FreeEnter(c) \/ Free(c)
        \/ Stopped

Spec == Init /\ [][Next]_vars

-----------------------------------------------------------------------------
(* Properties. *)

\* Pointers name frames of the table: get_free_frame_lru and the link updates of
\* lru_insert, lru_delete and the two lru_free functions never leave the array.
TypeOK ==
    /\ head \in Frames \cup {Null}
    /\ pid \in [Frames -> Pids \cup {0}] /\ vaddr \in [Frames -> Vaddrs \cup {0}]
    /\ next \in [Frames -> Frames \cup {Null}]
    /\ prev \in [Frames -> Frames \cup {Null}]
    /\ bitmap \in [Frames -> BOOLEAN]
    /\ \A c \in CPUs : cpu[c].ptr \in Frames \cup {Null}

Used == {f \in Frames : bitmap[f]}

\* The frames met from lru.head along next, until the walk is back at lru.head
\* (or has gone on for too long).
RingFrom ==
    LET path[n \in 0..MAX_FRAME_LRU] ==
          IF n = 0 THEN <<head>>
          ELSE LET s == path[n - 1] IN
               IF s[Len(s)] = Null \/ next[s[Len(s)]] = head THEN s
               ELSE Append(s, next[s[Len(s)]])
    IN  IF head = Null THEN <<>> ELSE path[MAX_FRAME_LRU]

\* The circular list is intact: going round along next meets every allocated
\* frame exactly once and no free one, and prev is the inverse of next.
Intact ==
    /\ Range(RingFrom) = Used
    /\ Len(RingFrom) = Cardinality(Used)
    /\ \A f \in Used : prev[next[f]] = f /\ next[prev[f]] = f

\* As long as the list has never been emptied, insertion, eviction, lru_free_frame
\* and lru_free keep it intact, and none of them follows a null pointer or loops
\* for ever (a call of lru_free that stops early, line 209, included).
RingIntact == drained \/ (Intact /\ ~crash)

\* The queue that the list stands for.
Queue == IF drained THEN <<>>
         ELSE [i \in 1..Len(RingFrom) |-> Entry(pid[RingFrom[i]], vaddr[RingFrom[i]])]

Fifo == INSTANCE LruFifo WITH queue <- Queue

\* Until it is emptied, the pointer code is a FIFO queue of pages: get_lru appends
\* the new page and evicts the page inserted first, and the two lru_free functions
\* remove what LruQueue says.
ImplementsFifo == Fifo!FifoSpec

\* lru_swap.h: lru.head "will store a least recently used frame and will be used to
\* swap out": when set, it points to an allocated frame.
HeadIsAllocated == head # Null => bitmap[head]

\* Notes, on table locks: "the table locks protect both free-ness and public
\* variables of table elements".  lru.lk is the lock of this table: whenever no
\* CPU is inside an operation, and the list has not been emptied, it is intact.
LockProtectsTable ==
    (\A c \in CPUs : cpu[c].at = "idle") => drained \/ crash \/ Intact
=============================================================================
