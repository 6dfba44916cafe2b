----------------------------- MODULE BlockStore -----------------------------
(***************************************************************************)
(* What the buffer cache promises: one copy of every block, which only the *)
(* process that holds the block changes.                                   *)
(***************************************************************************)
CONSTANTS Procs, Blocks, Vals, Zero, NoProc

VARIABLES content, holder

vars == <<content, holder>>

Init ==
    /\ content = [k \in Blocks |-> Zero]
    /\ holder = [k \in Blocks |-> NoProc]

Hold(p, k) ==
    /\ holder[k] = NoProc
    /\ holder' = [holder EXCEPT ![k] = p]
    /\ UNCHANGED content

Change(k, v) ==
    /\ holder[k] # NoProc
    /\ content' = [content EXCEPT ![k] = v]
    /\ UNCHANGED holder

Release(k) ==
    /\ holder' = [holder EXCEPT ![k] = NoProc]
    /\ UNCHANGED content

Next ==
    \E k \in Blocks :
        (\E p \in Procs : Hold(p, k)) \/ (\E v \in Vals : Change(k, v)) \/ Release(k)

Spec == Init /\ [][Next]_vars
=============================================================================
