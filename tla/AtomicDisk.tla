----------------------------- MODULE AtomicDisk -----------------------------
(***************************************************************************)
(* What the log promises to the file system: a disk whose blocks are       *)
(* changed by operations, made durable all together while no operation is  *)
(* active, and brought back by a crash to what was durable last.           *)
(***************************************************************************)
CONSTANTS Procs, Blocks, Vals, Zero

VARIABLES mem,      \* what the operations read and write
          durable,  \* what a crash leaves
          active    \* the processes inside an operation

vars == <<mem, durable, active>>

Init ==
    /\ mem = [b \in Blocks |-> Zero]
    /\ durable = mem
    /\ active = {}

Begin(p) ==
    /\ active' = active \cup {p}
    /\ UNCHANGED <<mem, durable>>

Write(p, b, v) ==
    /\ p \in active
    /\ mem' = [mem EXCEPT ![b] = v]
    /\ UNCHANGED <<durable, active>>

End(p) ==
    /\ active' = active \ {p}
    /\ UNCHANGED <<mem, durable>>

Commit ==
    /\ active = {}
    /\ durable' = mem
    /\ UNCHANGED <<mem, active>>

Crash ==
    /\ mem' = durable
    /\ active' = {}
    /\ UNCHANGED durable

Next ==
    \/ \E p \in Procs : Begin(p) \/ End(p) \/ \E b \in Blocks, v \in Vals : Write(p, b, v)
    \/ Commit
    \/ Crash

Spec == Init /\ [][Next]_vars
=============================================================================
