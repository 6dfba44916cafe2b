------------------------------ MODULE Console -------------------------------
(***************************************************************************)
(* The console: consoleintr edits a line in input.buf, consoleread gives   *)
(* what is complete to the processes that read, consolewrite shares the    *)
(* inode of the device with them.  A step is what happens under cons.lock; *)
(* sleep releases that lock and waits in one step, which Pipeline looks    *)
(* into.                                                                   *)
(***************************************************************************)
EXTENDS Integers, Sequences

CONSTANTS Readers, Writers,
          INPUT_BUF,
          UINT,        \* 2^32, the range of r, w and e
          Sizes,       \* the sizes of reads
          Keys,        \* what is typed: "x", "\r", "^D", "^H", "^U", "^P"
          MaxCalls,    \* how many reads and writes there are
          MayKill      \* a reader may be killed

ASSUME ConsoleAssumption ==
    /\ INPUT_BUF \in Nat \ {0} /\ UINT \in Nat /\ UINT > INPUT_BUF /\ UINT % INPUT_BUF = 0
    /\ Sizes \subseteq Nat

Procs == Readers \cup Writers
NoProc == "none"
None == -2

VARIABLES buf, r, w, e,  \* struct input
          lock,          \* the lock of the inode of the console
          pc,            \* where each process is in its call
          n,             \* what is left of the read of each reader
          target,        \* what it asked for
          asleep,        \* the processes that sleep on input.r
          killed,
          calls,         \* reads and writes begun so far
          unread,        \* the complete lines that no reader has taken yet
          result         \* what the read of each reader returns

vars == <<buf, r, w, e, lock, pc, n, target, asleep, killed, calls, unread, result>>
input == <<buf, r, w, e>>
call == <<lock, pc, n, target, result>>

Init ==
    /\ buf = [i \in 0..(INPUT_BUF - 1) |-> "x"]
    /\ r = 0 /\ w = 0 /\ e = 0
    /\ lock = NoProc
    /\ pc = [p \in Procs |-> "user"]
    /\ n = [p \in Procs |-> 0]
    /\ target = [p \in Procs |-> 0]
    /\ asleep = {}
    /\ killed = {}
    /\ calls = 0
    /\ unread = <<>>
    /\ result = [p \in Procs |-> None]

Minus(a, b) == (a - b) % UINT
At(i) == buf[i % INPUT_BUF]

\* The text from index a to index b.
Text(a, b) == [i \in 1..Minus(b, a) |-> At(a + i - 1)]

-----------------------------------------------------------------------------
\* Variant: backspace stops at r.
ErasableFromR == e # r

\* consoleintr at ^H: the edit index stays behind w.
Erasable == e # w

\* consoleintr at ^U: back to w, or to the last newline.
LineStart ==
    LET k == CHOOSE k \in 0..Minus(e, w) :
               /\ k = Minus(e, w) \/ At(Minus(e, k + 1)) = "\n"
               /\ \A j \in 0..(k - 1) : At(Minus(e, j + 1)) # "\n"
    IN  Minus(e, k)

\* Variant: a line that fills the buffer waits for its end.
CompletesAtEnd(c) == c \in {"\n", "^D"}

\* consoleintr, the default case: what makes the line available to readers.
Completes(c) == c \in {"\n", "^D"} \/ Minus(e + 1, r) = INPUT_BUF

wakeup == asleep' = {}

\* One round of the loop of consoleintr.
Intr(key) ==
    LET c == IF key = "\r" THEN "\n" ELSE key
    IN  /\ \/ /\ c = "^P"
              /\ UNCHANGED <<input, asleep, unread>>
           \/ /\ c = "^U"
              /\ e' = LineStart
              /\ UNCHANGED <<buf, r, w, asleep, unread>>
           \/ /\ c = "^H"
              /\ e' = IF Erasable THEN Minus(e, 1) ELSE e
              /\ UNCHANGED <<buf, r, w, asleep, unread>>
           \/ /\ c \notin {"^P", "^U", "^H"} /\ Minus(e, r) < INPUT_BUF
              /\ buf' = [buf EXCEPT ![e % INPUT_BUF] = c]
              /\ e' = (e + 1) % UINT
              /\ IF Completes(c)
                 THEN /\ w' = e' /\ wakeup
                      /\ unread' = unread \o Append(Text(w, e), c)
                 ELSE UNCHANGED <<w, asleep, unread>>
              /\ UNCHANGED r
           \/ /\ c \notin {"^P", "^U", "^H"} /\ Minus(e, r) = INPUT_BUF
              /\ UNCHANGED <<input, asleep, unread>>
        /\ UNCHANGED <<call, killed, calls>>

-----------------------------------------------------------------------------
Goto(p, l) == pc' = [pc EXCEPT ![p] = l]
Ready(p, l) == pc[p] = l /\ p \notin asleep

\* A call of read or write: fileread and filewrite lock the inode.
Enter(p) ==
    /\ Ready(p, "user") /\ p \notin killed
    /\ calls < MaxCalls
    /\ calls' = calls + 1
    /\ lock = NoProc /\ lock' = p
    /\ \E s \in IF p \in Readers THEN Sizes ELSE {0} :
          n' = [n EXCEPT ![p] = s] /\ target' = [target EXCEPT ![p] = s]
    /\ Goto(p, "enter")
    /\ UNCHANGED <<input, asleep, killed, unread, result>>

\* Variant: consoleread keeps the inode locked.
UnlockInodeWriters(p) == lock' = IF p \in Writers THEN NoProc ELSE lock

\* consoleread and consolewrite begin with iunlock(ip).
UnlockInode(p) == lock' = NoProc

Unlock(p) ==
    /\ Ready(p, "enter")
    /\ UnlockInode(p)
    /\ Goto(p, "cons")
    /\ UNCHANGED <<input, n, target, asleep, killed, calls, unread, result>>

\* consolewrite puts all of its text on the screen under cons.lock.
Write(p) ==
    /\ p \in Writers /\ Ready(p, "cons")
    /\ Goto(p, "relock")
    /\ UNCHANGED <<input, lock, n, target, asleep, killed, calls, unread, result>>

\* Variant: a ^D after other text is used up.
KeptNever(p, k, c) == FALSE

\* consoleread: ^D is left for the next call when there is text before it.
Kept(p, k, c) == c = "^D" /\ n[p] - (k - 1) < target[p]

\* consoleread, one pass through its loops under cons.lock: it takes text up to the end of a
\* line, a ^D, the size asked for, or what there is; then it returns or sleeps.
Read(p) ==
    LET avail == Text(r, w)
        most == IF Len(avail) < n[p] THEN Len(avail) ELSE n[p]
        ends == {i \in 1..most : avail[i] \in {"\n", "^D"}}
        k == IF ends = {} THEN most ELSE CHOOSE i \in ends : \A j \in ends : i <= j
        c == IF ends = {} THEN "x" ELSE avail[k]
        used == IF Kept(p, k, c) THEN k - 1 ELSE k
        rest == n[p] - (IF c = "^D" THEN k - 1 ELSE k)
    IN  /\ p \in Readers /\ Ready(p, "cons")
        /\ n' = [n EXCEPT ![p] = rest]
        /\ r' = (r + used) % UINT
        /\ unread' = SubSeq(unread, used + 1, Len(unread))
        /\ \/ /\ ends # {} \/ rest = 0
              /\ Goto(p, "relock")
              /\ result' = [result EXCEPT ![p] = target[p] - rest]
              /\ UNCHANGED asleep
           \/ /\ ends = {} /\ rest > 0 /\ p \in killed
              /\ Goto(p, "relock")
              /\ result' = [result EXCEPT ![p] = -1]
              /\ UNCHANGED asleep
           \/ /\ ends = {} /\ rest > 0 /\ p \notin killed
              /\ asleep' = asleep \cup {p}
              /\ UNCHANGED <<pc, result>>
        /\ UNCHANGED <<buf, w, e, lock, target, killed, calls>>

\* ilock(ip) before the return, and iunlock in fileread or filewrite.
Relock(p) ==
    /\ Ready(p, "relock")
    /\ lock = NoProc /\ lock' = p
    /\ Goto(p, "leave")
    /\ UNCHANGED <<input, n, target, asleep, killed, calls, unread, result>>

Leave(p) ==
    /\ Ready(p, "leave")
    /\ lock' = NoProc
    /\ Goto(p, "user")
    /\ n' = [n EXCEPT ![p] = 0] /\ target' = [target EXCEPT ![p] = 0]
    /\ result' = [result EXCEPT ![p] = None]
    /\ UNCHANGED <<input, asleep, killed, calls, unread>>

Kill(p) ==
    /\ MayKill /\ p \in Readers \ killed
    /\ killed' = killed \cup {p}
    /\ asleep' = asleep \ {p}
    /\ UNCHANGED <<input, call, calls, unread>>

Step(p) == Unlock(p) \/ Write(p) \/ Read(p) \/ Relock(p) \/ Leave(p)

Next ==
    \/ \E p \in Procs : Enter(p) \/ Step(p) \/ Kill(p)
    \/ \E key \in Keys : Intr(key)

Spec == Init /\ [][Next]_vars

\* A process that can run does; nobody has to type.
FairSpec == Spec /\ \A p \in Procs : WF_vars(Step(p))

-----------------------------------------------------------------------------
\* The text from r to w is what was completed and not yet taken, in its order: several
\* readers, a ^D put back and the wrapping of r, w and e lose and repeat nothing, and editing
\* never reaches what is available already.
InputOrder == Text(r, w) = unread

\* A full buffer is available to readers, so that typing can go on: readers that have taken
\* part of a line and sleep move r while the rest of it is typed.
NeverStuck == Minus(e, r) = INPUT_BUF => w = e

\* A read returns nothing only for a ^D that was the next thing to read, and such a ^D is
\* then used up; one that follows other text is still there for the next read.
EndsWell(p) ==
    result[p] = None /\ result'[p] # None =>
        /\ result'[p] = 0 => At(r) = "^D" /\ r' # r
        /\ result'[p] > 0 => r' = r \/ At(Minus(r', 1)) # "^D"

EofOnce == [][\A p \in Readers : EndsWell(p)]_vars

\* No reader sleeps for good while there is text to read, and a process that only writes
\* ends its call although others are waiting for the keyboard.
NobodyBlocked ==
    /\ \A p \in Readers : []<>(r = w \/ p \notin asleep)
    /\ \A p \in Writers : []<>(pc[p] = "user")

=============================================================================
