------------------------------ MODULE LruFifo -------------------------------
(***************************************************************************)
(* What the page list of lru_swap.c promises its callers: a bounded queue, *)
(* inserted at the back, evicted from the front.  The promise lasts until  *)
(* the queue is emptied; from then on (drained) nothing is promised.       *)
(***************************************************************************)
EXTENDS LruQueue

CONSTANTS MAX_FRAME_LRU, Pids, Vaddrs

VARIABLES queue, drained

fifoVars == <<queue, drained>>

FifoInit == queue = <<>> /\ drained = FALSE

\* The queue becomes q; emptying it ends the promise.
Become(q) ==
    /\ queue' = q
    /\ drained' = (q = <<>>)

Insert == \E id \in Pids, va \in Vaddrs :
            /\ Len(queue) < MAX_FRAME_LRU
            /\ Become(Append(queue, Entry(id, va)))

Evict == Len(queue) = MAX_FRAME_LRU /\ Become(Tail(queue))

FreeFrame == \E id \in Pids, va \in Vaddrs :
               /\ queue # <<>>
               /\ Become(QFreeFrame(queue, id, va))

Free == \E id \in Pids : queue # <<>> /\ Become(QFree(queue, id))

FifoNext == ~drained /\ (Insert \/ Evict \/ FreeFrame \/ Free)

FifoSpec == FifoInit /\ [][FifoNext]_fifoVars
=============================================================================
