----------------------------- MODULE FileBlocks -----------------------------
(***************************************************************************)
(* The content of files: balloc, bfree, bmap, itrunc, readi and writei of  *)
(* fs.c under fileread and filewrite of file.c, on the disk that mkfs      *)
(* made.  A block is a row of words, which are data or, in an indirect     *)
(* block, block numbers.  Each file here is a struct file with its offset  *)
(* and its inode, shared by the processes as after fork.  A step is a      *)
(* round of writei's loop or what precedes or follows it; the blocks that  *)
(* log_write has got since begin_op are counted.                           *)
(***************************************************************************)
EXTENDS Integers, Sequences, SequencesExt, FiniteSets

CONSTANTS Procs, Files,
          NDIRECT,
          BSIZE,        \* words in a block
          SIZE,         \* blocks of the file system
          MAXOPBLOCKS,
          ImageSize,    \* words that mkfs puts into each file
          Sizes, Vals,  \* sizes of reads and writes, and what is written
          MaxCalls

NINDIRECT == BSIZE
MAXFILE == NDIRECT + NINDIRECT

\* Block 0 is the boot block, and a number 0 means that there is no block.  One block has the
\* inodes of the instance and one the bitmap, as FSSIZE < BPB.
BBLOCK == 1
IBLOCK == 2
NMETA == 3
Blocks == 0..(SIZE - 1)

ASSUME BlocksAssumption ==
    /\ NDIRECT \in Nat \ {0} /\ BSIZE \in Nat \ {0} /\ MAXOPBLOCKS \in Nat
    /\ Cardinality(Files) * (MAXFILE + 1) + NMETA <= SIZE

NoProc == "none"
NoFile == "none"
Zero == [i \in 0..(BSIZE - 1) |-> 0]

VARIABLES disk,     \* the blocks, as the buffer cache shows them
          bitmap,   \* the blocks that are in use
          inode,    \* size and addrs of each inode
          off,      \* f->off
          lock,     \* the sleep lock of each inode
          pc, loc,  \* where each process is, and its local variables
          logged,   \* the blocks logged by its transaction
          content,  \* what should be in each file
          calls     \* calls so far

vars == <<disk, bitmap, inode, off, lock, pc, loc, logged, content, calls>>

Least(a, b) == IF a < b THEN a ELSE b

-----------------------------------------------------------------------------
\* mkfs: iappend gives the k-th file its blocks in the order of their use, so that they
\* follow each other, the indirect block right before the first block it leads to.
ImageBlocks == (ImageSize + BSIZE - 1) \div BSIZE
ImageTotal == ImageBlocks + (IF ImageBlocks > NDIRECT THEN 1 ELSE 0)
ImageStart(k) == NMETA + (k - 1) * ImageTotal
ImageBlock(k, bn) == ImageStart(k) + bn + (IF bn >= NDIRECT THEN 1 ELSE 0)
ImageWord(i) == IF i < ImageSize THEN CHOOSE v \in Vals : \A u \in Vals : v <= u ELSE 0

Image(k) ==
    [size |-> ImageSize,
     addrs |-> [a \in 0..NDIRECT |->
                  CASE a < NDIRECT /\ a < ImageBlocks -> ImageBlock(k, a)
                    [] a = NDIRECT /\ ImageBlocks > NDIRECT -> ImageStart(k) + NDIRECT
                    [] OTHER -> 0]]

\* balloc of mkfs: all blocks that were handed out.
ImageBitmap == 0..(NMETA + Cardinality(Files) * ImageTotal - 1)

Number == CHOOSE g \in [Files -> 1..Cardinality(Files)] : IsInjective(g)

\* mkfs, main: the image, with balloc marking all that was handed out.
Init ==
    LET num == Number
        owner(b) == {<<f, bn>> \in Files \X (0..(ImageBlocks - 1)) : ImageBlock(num[f], bn) = b}
        indirect(b) == {f \in Files : ImageBlocks > NDIRECT /\ ImageStart(num[f]) + NDIRECT = b}
    IN  /\ inode = [f \in Files |-> Image(num[f])]
        /\ bitmap = ImageBitmap
        /\ disk = [b \in Blocks |->
               [i \in 0..(BSIZE - 1) |->
                  IF owner(b) # {} THEN ImageWord((CHOOSE x \in owner(b) : TRUE)[2] * BSIZE + i)
                  ELSE IF indirect(b) # {} /\ NDIRECT + i < ImageBlocks
                  THEN ImageBlock(num[CHOOSE f \in indirect(b) : TRUE], NDIRECT + i)
                  ELSE 0]]
        /\ off = [f \in Files |-> 0]
        /\ lock = [f \in Files |-> NoProc]
        /\ pc = [p \in Procs |-> "user"]
        /\ loc = [p \in Procs |-> [file |-> NoFile, n |-> 0, n1 |-> 0, tot |-> 0, val |-> 0]]
        /\ logged = [p \in Procs |-> {}]
        /\ content = [f \in Files |-> [i \in 1..ImageSize |-> ImageWord(0)]]
        /\ calls = 0

-----------------------------------------------------------------------------
\* The disk, the bitmap, the addresses of an inode and the log of the transaction.
State(p, f) == [disk |-> disk, bitmap |-> bitmap, addrs |-> inode[f].addrs, log |-> logged[p]]

log_write(s, b) == [s EXCEPT !.log = @ \cup {b}]

\* balloc: the first free block.
Free(s) == CHOOSE b \in Blocks \ s.bitmap : \A c \in Blocks \ s.bitmap : b <= c

\* Variant: the block is not zeroed.
ballocDirty(s) == log_write([s EXCEPT !.bitmap = @ \cup {Free(s)}], BBLOCK)

balloc(s) ==
    log_write(log_write([s EXCEPT !.bitmap = @ \cup {Free(s)}, !.disk[Free(s)] = Zero], BBLOCK),
              Free(s))

\* bmap: the state with the bn-th block allocated, and the number of that block.
bmapped(s, bn) ==
    IF bn < NDIRECT
    THEN IF s.addrs[bn] # 0 THEN s ELSE [balloc(s) EXCEPT !.addrs[bn] = Free(s)]
    ELSE LET t == IF s.addrs[NDIRECT] # 0 THEN s
                  ELSE [balloc(s) EXCEPT !.addrs[NDIRECT] = Free(s)]
             ind == t.addrs[NDIRECT]
         IN  IF t.disk[ind][bn - NDIRECT] # 0 THEN t
             ELSE log_write([balloc(t) EXCEPT !.disk[ind][bn - NDIRECT] = Free(t)], ind)
bmap(s, bn) ==
    IF bn < NDIRECT THEN s.addrs[bn] ELSE s.disk[s.addrs[NDIRECT]][bn - NDIRECT]

\* memmove of the words from o to o + m - 1 of a file, all of value v, in block b.
Put(s, b, o, m, v) ==
    log_write([s EXCEPT !.disk[b] = [i \in DOMAIN @ |->
                 IF (o % BSIZE) <= i /\ i < (o % BSIZE) + m THEN v ELSE @[i]]], b)

-----------------------------------------------------------------------------
\* Variant: only the inode and the indirect block are allowed for.
MaxChunkTight == (MAXOPBLOCKS - 1 - 1) * BSIZE

\* The most that filewrite writes in one transaction.
MaxChunk == ((MAXOPBLOCKS - 1 - 1 - 2) \div 2) * BSIZE

BeginWrite(p, f, n, v) ==
    /\ pc[p] = "user" /\ calls < MaxCalls
    /\ calls' = calls + 1
    /\ pc' = [pc EXCEPT ![p] = "chunk"]
    /\ loc' = [loc EXCEPT ![p] = [file |-> f, n |-> n, n1 |-> 0, tot |-> 0, val |-> v]]
    /\ UNCHANGED <<disk, bitmap, inode, off, lock, logged, content>>

\* Variant: the chunks of two writers overlap.
LockableAlways(f) == TRUE

\* ilock(f->ip)
Lockable(f) == lock[f] = NoProc

\* The tests of writei.
ChunkFits(f, n) == off[f] <= inode[f].size /\ off[f] + n <= MAXFILE * BSIZE

Done(p) ==
    /\ pc' = [pc EXCEPT ![p] = "user"]
    /\ loc' = [loc EXCEPT ![p] = [file |-> NoFile, n |-> 0, n1 |-> 0, tot |-> 0, val |-> 0]]

\* filewrite, a round of its loop, up to the tests of writei.
Chunk(p) ==
    LET f == loc[p].file
        n1 == Least(loc[p].n, MaxChunk)
    IN  /\ pc[p] = "chunk"
        /\ Lockable(f)
        /\ \/ /\ ChunkFits(f, n1)
              /\ lock' = [lock EXCEPT ![f] = p]
              /\ pc' = [pc EXCEPT ![p] = "writei"]
              /\ loc' = [loc EXCEPT ![p].n1 = n1, ![p].tot = 0]
           \/ ~ChunkFits(f, n1) /\ Done(p) /\ UNCHANGED lock
        /\ UNCHANGED <<disk, bitmap, inode, off, logged, content, calls>>

\* writei, a round of its loop.
WriteBlock(p) ==
    LET l == loc[p]
        f == l.file
        o == off[f] + l.tot
        m == Least(l.n1 - l.tot, BSIZE - (o % BSIZE))
        s == bmapped(State(p, f), o \div BSIZE)
        t == Put(s, bmap(s, o \div BSIZE), o, m, l.val)
    IN  /\ pc[p] = "writei" /\ l.tot < l.n1
        /\ disk' = t.disk /\ bitmap' = t.bitmap
        /\ inode' = [inode EXCEPT ![f].addrs = t.addrs]
        /\ logged' = [logged EXCEPT ![p] = t.log]
        /\ loc' = [loc EXCEPT ![p].tot = @ + m]
        /\ UNCHANGED <<off, lock, pc, content, calls>>

\* writei after its loop, f->off += r, iunlock and end_op; iupdate only when the file grows.
EndChunk(p) ==
    LET l == loc[p]
        f == l.file
        end == off[f] + l.n1
        grows == end > inode[f].size
    IN  /\ pc[p] = "writei" /\ l.tot = l.n1
        /\ inode' = [inode EXCEPT ![f].size = IF grows THEN end ELSE @]
        /\ off' = [off EXCEPT ![f] = end]
        /\ lock' = [lock EXCEPT ![f] = NoProc]
        /\ logged' = [logged EXCEPT ![p] = {}]
        /\ content' = [content EXCEPT ![f] =
             [i \in 1..(IF end > Len(@) THEN end ELSE Len(@)) |->
                IF off[f] < i /\ i <= end THEN l.val ELSE @[i]]]
        /\ IF l.n = l.n1 THEN Done(p)
           ELSE /\ pc' = [pc EXCEPT ![p] = "chunk"]
                /\ loc' = [loc EXCEPT ![p].n = @ - l.n1]
        /\ UNCHANGED <<disk, bitmap, calls>>

\* readi of the whole file.
readi(f) ==
    [i \in 1..inode[f].size |->
        disk[bmap(State(CHOOSE p \in Procs : TRUE, f), (i - 1) \div BSIZE)][(i - 1) % BSIZE]]

\* fileread: readi, and f->off += r.
Read(p, f, n) ==
    /\ pc[p] = "user" /\ calls < MaxCalls
    /\ calls' = calls + 1
    /\ Lockable(f)
    /\ off' = [off EXCEPT ![f] = @ + Least(n, inode[f].size - @)]
    /\ UNCHANGED <<disk, bitmap, inode, lock, pc, loc, logged, content>>

\* The blocks of a file as itrunc finds them: direct, through the indirect block, and that.
Owned(f) ==
    LET a == inode[f].addrs
    IN  ({a[i] : i \in 0..NDIRECT}
         \cup (IF a[NDIRECT] = 0 THEN {} ELSE {disk[a[NDIRECT]][i] : i \in 0..(NINDIRECT - 1)})) \ {0}

\* The last iput of a file without links: itrunc, and the inode is given out again.
Truncate(p, f) ==
    /\ pc[p] = "user" /\ calls < MaxCalls
    /\ calls' = calls + 1
    /\ \A q \in Procs : loc[q].file # f
    /\ bitmap' = bitmap \ Owned(f)
    /\ inode' = [inode EXCEPT ![f] = [size |-> 0, addrs |-> [i \in 0..NDIRECT |-> 0]]]
    /\ off' = [off EXCEPT ![f] = 0]
    /\ content' = [content EXCEPT ![f] = <<>>]
    /\ UNCHANGED <<disk, lock, pc, loc, logged>>

Next ==
    \E p \in Procs :
        \/ Chunk(p) \/ WriteBlock(p) \/ EndChunk(p)
        \/ \E f \in Files :
             \/ \E n \in Sizes : Read(p, f, n) \/ \E v \in Vals : BeginWrite(p, f, n, v)
             \/ Truncate(p, f)

Spec == Init /\ [][Next]_vars

-----------------------------------------------------------------------------
\* Every block in use is a block of one file and of one place in it, or one of mkfs's own:
\* whatever files grow and are truncated at the same time, no block is shared and none is
\* lost.
OwnedOnce ==
    /\ bitmap = (0..(NMETA - 1)) \cup UNION {Owned(f) : f \in Files}
    /\ \A f, g \in Files : f # g => Owned(f) \cap Owned(g) = {}
    /\ \A f \in Files : Owned(f) \cap (0..(NMETA - 1)) = {}
    /\ \A f \in Files : (\A p \in Procs : loc[p].file # f) => Cardinality(Owned(f)) =
         LET k == (inode[f].size + BSIZE - 1) \div BSIZE
         IN  k + (IF k > NDIRECT THEN 1 ELSE 0)

\* A file that nobody has locked has the text that was written to it: each chunk of a write
\* at the offset where the one before it ended, whichever of the processes sharing the file
\* made it, and nothing else, through the indirect block as well.
ContentExact == \A f \in Files : lock[f] = NoProc => readi(f) = content[f]

\* A transaction of filewrite logs no more than MAXOPBLOCKS blocks, with the inode that
\* iupdate may still add, also when the chunk is not aligned and needs the indirect block.
ChunkFitsLog == \A p \in Procs : Cardinality(logged[p] \cup {IBLOCK}) <= MAXOPBLOCKS

=============================================================================
