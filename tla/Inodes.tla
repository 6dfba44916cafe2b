------------------------------- MODULE Inodes -------------------------------
(***************************************************************************)
(* The inodes and directories of fs.c under the calls of sysfile.c that    *)
(* change them: open, close, link, unlink, mkdir, mknod, chdir and the     *)
(* path lookup of exec.  What happens between taking and leaving the lock  *)
(* of an inode is one step; a lock that is still held at a point where the *)
(* process may have to wait for another one is held from step to step.     *)
(* A reference to an inode is the number of its entry in the icache.  A    *)
(* directory is the function from names to inode numbers that its content  *)
(* stands for.  The blocks of a file are the subject of FileBlocks, and    *)
(* transactions that of Log.                                               *)
(***************************************************************************)
EXTENDS Integers, Sequences, FiniteSetsExt

CONSTANTS Procs,
          NINODES,     \* inodes of the disk are 1..NINODES - 1
          NINODE,      \* the size of the icache
          Names,       \* the names of entries other than "." and ".."
          DirNames,    \* those that directories are made with
          NOFILE,
          Calls,       \* the calls the processes make
          MaxCalls,    \* how many there are in all
          DeadDirs     \* a directory may be removed while a process is using it

NoProc == "none"
ROOTINO == 1
Inum == 1..(NINODES - 1)
Entry == 1..NINODE
None == 0
Links == Names \cup {".", ".."}

VARIABLES dinode,  \* type and nlink of each inode on the disk
          dir,     \* the entries of each directory, None where there is none
          icache,  \* inum, ref, valid, and the copies of type and nlink
          lock,    \* the holder of the sleep lock of each entry
          cwd, ofile,
          pc, loc, \* where each process is, and its local variables
          calls    \* the calls made so far

vars == <<dinode, dir, icache, lock, cwd, ofile, pc, loc, calls>>

NoEntries == [n \in Links |-> None]
Dots(i, up) == [NoEntries EXCEPT !["."] = i, ![".."] = up]

\* References to inodes are in ip, dp, old (the first argument of link) and put (the
\* argument of iput); path, name and parent belong to namex, which goes on at found or at
\* missing, and iput goes on at then.
NoLoc == [call |-> [op |-> "none"], ip |-> None, dp |-> None, old |-> None, put |-> None,
          path |-> <<>>, name |-> ".", parent |-> FALSE, found |-> "idle", missing |-> "idle",
          then |-> "idle"]

\* The disk as mkfs leaves it, with a file "f" and, from an earlier session, a directory
\* "d"; all processes are in the root directory.
Init ==
    /\ dinode = [i \in Inum |->
          CASE i = 1 -> [type |-> "dir", nlink |-> 2]
            [] i = 2 -> [type |-> "file", nlink |-> 1]
            [] i = 3 -> [type |-> "dir", nlink |-> 1]
            [] OTHER -> [type |-> "none", nlink |-> 0]]
    /\ dir = [i \in Inum |->
          CASE i = 1 -> [Dots(1, 1) EXCEPT !["f"] = 2, !["d"] = 3]
            [] i = 3 -> Dots(3, 1)
            [] OTHER -> NoEntries]
    /\ icache = [e \in Entry |-> [inum |-> IF e = 1 THEN ROOTINO ELSE None,
                                  ref |-> IF e = 1 THEN Cardinality(Procs) ELSE 0,
                                  valid |-> FALSE, type |-> "none", nlink |-> 0]]
    /\ lock = [e \in Entry |-> NoProc]
    /\ cwd = [p \in Procs |-> 1]
    /\ ofile = [p \in Procs |-> <<>>]
    /\ pc = [p \in Procs |-> "idle"]
    /\ loc = [p \in Procs |-> NoLoc]
    /\ calls = 0

-----------------------------------------------------------------------------
First(S) == CHOOSE e \in S : \A f \in S : e <= f

\* Variant: the search of iget ends at the first entry that is not in use.
igetEarly(c, i) == First({e \in Entry : c[e].ref = 0 \/ c[e].inum = i})

\* iget: the entry it returns, and what it makes of the icache.
iget(c, i) ==
    LET cached == {e \in Entry : c[e].ref > 0 /\ c[e].inum = i}
    IN  IF cached # {} THEN First(cached) ELSE First({e \in Entry : c[e].ref = 0})
Gotten(c, i) ==
    LET e == iget(c, i)
    IN  IF c[e].ref > 0 THEN [c EXCEPT ![e].ref = @ + 1]
        ELSE [c EXCEPT ![e] = [@ EXCEPT !.inum = i, !.ref = 1, !.valid = FALSE]]

idup(c, e) == [c EXCEPT ![e].ref = @ + 1]

\* ilock reads the inode from the disk when the entry is not valid.
ilock(e) ==
    /\ lock[e] = NoProc
    /\ icache[e].valid \/ dinode[icache[e].inum].type # "none"
Loaded(e) ==
    LET dip == dinode[icache[e].inum]
    IN  IF icache[e].valid THEN icache
        ELSE [icache EXCEPT ![e] = [@ EXCEPT !.valid = TRUE, !.type = dip.type,
                                             !.nlink = dip.nlink]]

\* The link count changes, and iupdate writes the inode to the disk.
Linked(c, e, n) == [c EXCEPT ![e].nlink = @ + n]
iupdate(c, e) == [dinode EXCEPT ![c[e].inum] = [type |-> c[e].type, nlink |-> c[e].nlink]]

\* dirlookup: the inode number of a name.
dirlookup(e, name) == dir[icache[e].inum][name]

Goto(p, l, r) == pc' = [pc EXCEPT ![p] = l] /\ loc' = [loc EXCEPT ![p] = r]

\* iput(i), then l; r has no longer the reference.
Putting(r, i, l) == [r EXCEPT !.put = i, !.then = l]

\* A lookup in namex begins: of the inode itself, or of its parent.
Lookup(p, r, path, parent, found, missing) ==
    LET ip == IF path.abs THEN iget(icache, ROOTINO) ELSE cwd[p]
    IN  /\ icache' = IF path.abs THEN Gotten(icache, ROOTINO) ELSE idup(icache, ip)
        /\ Goto(p, "namex", [r EXCEPT !.ip = ip, !.path = path.elems, !.parent = parent,
                                      !.found = found, !.missing = missing])

\* The first element of a path, and the rest of it.
skipelem(path) == [name |-> Head(path), rest |-> Tail(path)]

\* namex, the body of its loop, under the lock of ip.
NamexElem(p) ==
    LET r == loc[p]
        ip == r.ip
        c == Loaded(ip)
        elem == skipelem(r.path)
        next == dirlookup(ip, elem.name)
        q == [r EXCEPT !.name = elem.name, !.path = elem.rest]
    IN  /\ pc[p] = "namex" /\ r.path # <<>>
        /\ ilock(ip)
        /\ \/ /\ c[ip].type # "dir" \/ (next = None /\ ~(q.parent /\ q.path = <<>>))
              /\ icache' = c
              /\ Goto(p, "iput", Putting([q EXCEPT !.ip = None], ip, r.missing))
           \/ /\ c[ip].type = "dir" /\ q.parent /\ q.path = <<>>
              /\ icache' = c
              /\ Goto(p, r.found, [q EXCEPT !.ip = None, !.dp = ip])
           \/ /\ c[ip].type = "dir" /\ ~(q.parent /\ q.path = <<>>) /\ next # None
              /\ icache' = Gotten(c, next)
              /\ Goto(p, "iput", Putting([q EXCEPT !.ip = iget(c, next)], ip, "namex"))
        /\ UNCHANGED <<dinode, dir, lock, cwd, ofile, calls>>

\* namex, after its loop.
NamexEnd(p) ==
    LET r == loc[p]
    IN  /\ pc[p] = "namex" /\ r.path = <<>>
        /\ \/ ~r.parent /\ Goto(p, r.found, r)
           \/ r.parent /\ Goto(p, "iput", Putting([r EXCEPT !.ip = None], r.ip, r.missing))
        /\ UNCHANGED <<dinode, dir, icache, lock, cwd, ofile, calls>>


\* iput: no links and no other references.
LastPut(e) == icache[e].valid /\ icache[e].nlink = 0 /\ icache[e].ref = 1

\* iput, the part under the lock of the inode: itrunc, type = 0, iupdate and valid = 0.
Iput(p) ==
    LET e == loc[p].put
        i == icache[e].inum
    IN  /\ pc[p] = "iput"
        /\ lock[e] = NoProc
        /\ IF LastPut(e)
           THEN /\ dinode' = [dinode EXCEPT ![i].type = "none", ![i].nlink = 0]
                /\ dir' = [dir EXCEPT ![i] = NoEntries]
                /\ icache' = [icache EXCEPT ![e].type = "none", ![e].valid = FALSE]
           ELSE UNCHANGED <<dinode, dir, icache>>
        /\ Goto(p, "drop", loc[p])
        /\ UNCHANGED <<lock, cwd, ofile, calls>>

\* iput, the part under icache.lock.
IputDrop(p) ==
    LET r == [loc[p] EXCEPT !.put = None, !.then = "idle"]
    IN  /\ pc[p] = "drop"
        /\ icache' = [icache EXCEPT ![loc[p].put].ref = @ - 1]
        /\ Goto(p, loc[p].then, IF loc[p].then = "idle" THEN NoLoc ELSE r)
        /\ UNCHANGED <<dinode, dir, lock, cwd, ofile, calls>>

-----------------------------------------------------------------------------
\* ialloc: the first inode that is free on the disk.
ialloc == CHOOSE i \in Inum : /\ dinode[i].type = "none"
                              /\ \A j \in 1..(i - 1) : dinode[j].type # "none"

\* The type that create is asked for.
NewType(call) == CASE call.op = "open" -> "file" [] call.op = "mkdir" -> "dir" [] OTHER -> "dev"

\* create, with dp locked, up to iunlockput(dp): the name exists, or a new inode is
\* allocated, which stays locked, and linked into dp.
Create(p) ==
    LET r == loc[p]
        dp == r.dp
        c == Loaded(dp)
        old == dirlookup(dp, r.name)
        type == NewType(r.call)
        inum == ialloc
        up == IF type = "dir" THEN Linked(c, dp, 1) ELSE c
        new == iget(up, inum)
    IN  /\ pc[p] = "create"
        /\ ilock(dp)
        /\ \/ /\ old # None
              /\ icache' = Gotten(c, old)
              /\ Goto(p, "iput", Putting([r EXCEPT !.dp = None, !.ip = iget(c, old)], dp, "exists"))
              /\ UNCHANGED <<dinode, dir, lock>>
           \/ /\ old = None
              /\ icache' = [Gotten(up, inum) EXCEPT
                              ![new] = [@ EXCEPT !.valid = TRUE, !.type = type, !.nlink = 1]]
              /\ dinode' = [iupdate(up, dp) EXCEPT ![inum] = [type |-> type, nlink |-> 1]]
              /\ dir' = [dir EXCEPT ![inum] = IF type = "dir" THEN Dots(inum, c[dp].inum)
                                              ELSE NoEntries,
                                    ![c[dp].inum][r.name] = inum]
              /\ lock' = [lock EXCEPT ![new] = p]
              /\ Goto(p, "iput", Putting([r EXCEPT !.dp = None, !.ip = new], dp, "created"))
        /\ UNCHANGED <<cwd, ofile, calls>>

\* create, when the name exists: only open of a file gets it, and keeps it locked.
CreateExists(p) ==
    LET r == loc[p]
        ip == r.ip
    IN  /\ pc[p] = "exists"
        /\ ilock(ip)
        /\ icache' = Loaded(ip)
        /\ \/ /\ r.call.op = "open" /\ Loaded(ip)[ip].type = "file"
              /\ lock' = [lock EXCEPT ![ip] = p]
              /\ Goto(p, "created", r)
           \/ /\ ~(r.call.op = "open" /\ Loaded(ip)[ip].type = "file")
              /\ Goto(p, "iput", Putting([r EXCEPT !.ip = None], ip, "idle"))
              /\ UNCHANGED lock
        /\ UNCHANGED <<dinode, dir, cwd, ofile, calls>>

\* sys_mkdir and sys_mknod after create: iunlockput(ip).
Made(p) ==
    LET r == loc[p]
    IN  /\ pc[p] = "created" /\ r.call.op # "open"
        /\ lock' = [lock EXCEPT ![r.ip] = NoProc]
        /\ Goto(p, "iput", Putting([r EXCEPT !.ip = None], r.ip, "idle"))
        /\ UNCHANGED <<dinode, dir, icache, cwd, ofile, calls>>

\* sys_open, from filealloc and fdalloc, with ip locked.
GetFile(p, ip, r) ==
    \/ /\ Len(ofile[p]) < NOFILE
       /\ ofile' = [ofile EXCEPT ![p] = Append(@, ip)]
       /\ Goto(p, "idle", NoLoc)
    \/ /\ Len(ofile[p]) = NOFILE
       /\ Goto(p, "iput", Putting([r EXCEPT !.ip = None], ip, "idle"))
       /\ UNCHANGED ofile

\* sys_open, after create.
OpenCreated(p) ==
    /\ pc[p] = "created" /\ loc[p].call.op = "open"
    /\ lock' = [lock EXCEPT ![loc[p].ip] = NoProc]
    /\ GetFile(p, loc[p].ip, loc[p])
    /\ UNCHANGED <<dinode, dir, icache, cwd, calls>>

\* sys_open, after namei; a directory can only be read.
Open(p) ==
    LET r == loc[p]
        ip == r.ip
    IN  /\ pc[p] = "open"
        /\ ilock(ip)
        /\ icache' = Loaded(ip)
        /\ \/ /\ Loaded(ip)[ip].type = "dir" /\ r.call.write
              /\ Goto(p, "iput", Putting([r EXCEPT !.ip = None], ip, "idle"))
              /\ UNCHANGED ofile
           \/ /\ ~(Loaded(ip)[ip].type = "dir" /\ r.call.write)
              /\ GetFile(p, ip, r)
        /\ UNCHANGED <<dinode, dir, lock, cwd, calls>>

\* exec reads the program and leaves the inode with iunlockput.
Exec(p) ==
    LET r == loc[p]
    IN  /\ pc[p] = "exec"
        /\ ilock(r.ip)
        /\ icache' = Loaded(r.ip)
        /\ Goto(p, "iput", Putting([r EXCEPT !.ip = None], r.ip, "idle"))
        /\ UNCHANGED <<dinode, dir, lock, cwd, ofile, calls>>

\* sys_chdir, after namei: iput(curproc->cwd), and ip takes its place.
Chdir(p) ==
    LET r == loc[p]
        ip == r.ip
        isdir == Loaded(ip)[ip].type = "dir"
    IN  /\ pc[p] = "chdir"
        /\ ilock(ip)
        /\ icache' = Loaded(ip)
        /\ cwd' = IF isdir THEN [cwd EXCEPT ![p] = ip] ELSE cwd
        /\ Goto(p, "iput", Putting([r EXCEPT !.ip = None], IF isdir THEN cwd[p] ELSE ip, "idle"))
        /\ UNCHANGED <<dinode, dir, lock, ofile, calls>>

-----------------------------------------------------------------------------
\* sys_link, the first part: nlink++ of the file, then the lookup of the new name.
LinkOld(p) ==
    LET r == loc[p]
        ip == r.ip
        c == Loaded(ip)
    IN  /\ pc[p] = "link"
        /\ ilock(ip)
        /\ \/ /\ c[ip].type = "dir"
              /\ icache' = c
              /\ Goto(p, "iput", Putting([r EXCEPT !.ip = None], ip, "idle"))
              /\ UNCHANGED dinode
           \/ /\ c[ip].type # "dir"
              /\ icache' = Linked(c, ip, 1)
              /\ dinode' = iupdate(icache', ip)
              /\ Goto(p, "linknew", [r EXCEPT !.ip = None, !.old = ip])
        /\ UNCHANGED <<dir, lock, cwd, ofile, calls>>

LinkNew(p) ==
    /\ pc[p] = "linknew"
    /\ Lookup(p, loc[p], loc[p].call.new, TRUE, "dirlink", "bad")
    /\ UNCHANGED <<dinode, dir, lock, cwd, ofile, calls>>

\* sys_link, dirlink with dp locked.  When the name is taken, dirlink calls iput for the
\* inode that has it, and dp is still locked.
DirLink(p) ==
    LET r == loc[p]
        dp == r.dp
        taken == dirlookup(dp, r.name)
    IN  /\ pc[p] = "dirlink"
        /\ ilock(dp)
        /\ \/ /\ taken # None
              /\ icache' = Gotten(Loaded(dp), taken)
              /\ lock' = [lock EXCEPT ![dp] = p]
              /\ Goto(p, "iput", Putting(r, iget(Loaded(dp), taken), "taken"))
              /\ UNCHANGED dir
           \/ /\ taken = None
              /\ icache' = Loaded(dp)
              /\ dir' = [dir EXCEPT ![icache[dp].inum][r.name] = icache[r.old].inum]
              /\ Goto(p, "iput", Putting([r EXCEPT !.dp = None], dp, "linked"))
              /\ UNCHANGED lock
        /\ UNCHANGED <<dinode, cwd, ofile, calls>>

LinkTaken(p) ==
    LET r == loc[p]
    IN  /\ pc[p] = "taken"
        /\ lock' = [lock EXCEPT ![r.dp] = NoProc]
        /\ Goto(p, "iput", Putting([r EXCEPT !.dp = None], r.dp, "bad"))
        /\ UNCHANGED <<dinode, dir, icache, cwd, ofile, calls>>

\* Variant: the link count is not taken back when the new name cannot be made.
LinkBadKeeps(p) ==
    LET r == loc[p]
    IN  /\ pc[p] = "bad"
        /\ ilock(r.old)
        /\ icache' = Loaded(r.old)
        /\ Goto(p, "iput", Putting([r EXCEPT !.old = None], r.old, "idle"))
        /\ UNCHANGED <<dinode, dir, lock, cwd, ofile, calls>>

\* sys_link at bad.
LinkBad(p) ==
    LET r == loc[p]
    IN  /\ pc[p] = "bad"
        /\ ilock(r.old)
        /\ icache' = Linked(Loaded(r.old), r.old, -1)
        /\ dinode' = iupdate(icache', r.old)
        /\ Goto(p, "iput", Putting([r EXCEPT !.old = None], r.old, "idle"))
        /\ UNCHANGED <<dir, lock, cwd, ofile, calls>>

LinkDone(p) ==
    LET r == loc[p]
    IN  /\ pc[p] = "linked"
        /\ Goto(p, "iput", Putting([r EXCEPT !.old = None], r.old, "idle"))
        /\ UNCHANGED <<dinode, dir, icache, lock, cwd, ofile, calls>>

-----------------------------------------------------------------------------
isdirempty(e) == \A n \in Names : dirlookup(e, n) = None

\* sys_unlink, with dp locked: the name is looked up, and dp stays locked.
Unlink(p) ==
    LET r == loc[p]
        dp == r.dp
        inum == dirlookup(dp, r.name)
    IN  /\ pc[p] = "unlink"
        /\ ilock(dp)
        /\ \/ /\ r.name \in {".", ".."} \/ inum = None
              /\ icache' = Loaded(dp)
              /\ Goto(p, "iput", Putting([r EXCEPT !.dp = None], dp, "idle"))
              /\ UNCHANGED lock
           \/ /\ r.name \notin {".", ".."} /\ inum # None
              /\ icache' = Gotten(Loaded(dp), inum)
              /\ lock' = [lock EXCEPT ![dp] = p]
              /\ Goto(p, "erase", [r EXCEPT !.ip = iget(Loaded(dp), inum)])
        /\ UNCHANGED <<dinode, dir, cwd, ofile, calls>>

\* sys_unlink, with ip locked as well: the entry is erased, and dp released.
UnlinkErase(p) ==
    LET r == loc[p]
        dp == r.dp
        ip == r.ip
        c == Loaded(ip)
        isdir == c[ip].type = "dir"
        up == IF isdir THEN Linked(c, dp, -1) ELSE c
    IN  /\ pc[p] = "erase"
        /\ ilock(ip)
        /\ c[ip].nlink >= 1
        /\ \/ /\ isdir /\ ~isdirempty(ip)
              /\ icache' = c
              /\ Goto(p, "iput", Putting([r EXCEPT !.ip = None], ip, "notempty"))
              /\ UNCHANGED <<dinode, dir, lock>>
           \/ /\ ~isdir \/ isdirempty(ip)
              /\ dir' = [dir EXCEPT ![icache[dp].inum][r.name] = None]
              /\ icache' = up
              /\ dinode' = iupdate(up, dp)
              /\ lock' = [lock EXCEPT ![dp] = NoProc, ![ip] = p]
              /\ Goto(p, "iput", Putting([r EXCEPT !.dp = None], dp, "erased"))
        /\ UNCHANGED <<cwd, ofile, calls>>

\* Variant: iunlock(dp) in place of iunlockput(dp).
UnlinkNotEmptyKeeps(p) ==
    LET r == loc[p]
    IN  /\ pc[p] = "notempty"
        /\ lock' = [lock EXCEPT ![r.dp] = NoProc]
        /\ Goto(p, "idle", NoLoc)
        /\ UNCHANGED <<dinode, dir, icache, cwd, ofile, calls>>

\* sys_unlink at bad, after iunlockput(ip) of a directory that is not empty.
UnlinkNotEmpty(p) ==
    LET r == loc[p]
    IN  /\ pc[p] = "notempty"
        /\ lock' = [lock EXCEPT ![r.dp] = NoProc]
        /\ Goto(p, "iput", Putting([r EXCEPT !.dp = None], r.dp, "idle"))
        /\ UNCHANGED <<dinode, dir, icache, cwd, ofile, calls>>

\* sys_unlink: nlink--, iupdate and iunlockput(ip).
UnlinkDone(p) ==
    LET r == loc[p]
    IN  /\ pc[p] = "erased"
        /\ icache' = Linked(icache, r.ip, -1)
        /\ dinode' = iupdate(icache', r.ip)
        /\ lock' = [lock EXCEPT ![r.ip] = NoProc]
        /\ Goto(p, "iput", Putting([r EXCEPT !.ip = None], r.ip, "idle"))
        /\ UNCHANGED <<dir, cwd, ofile, calls>>

-----------------------------------------------------------------------------
RemovesDir(call) == call.op = "unlink" /\ call.path.elems[Len(call.path.elems)] \in DirNames

\* Without DeadDirs, a directory is removed only while nothing else goes on and no process
\* is in a directory other than the root.
Allowed(call) ==
    \/ DeadDirs
    \/ /\ \A q \in Procs : ~RemovesDir(loc[q].call)
       /\ RemovesDir(call) => \A q \in Procs : pc[q] = "idle" /\ icache[cwd[q]].inum = ROOTINO

Starts(p, call) ==
    /\ pc[p] = "idle"
    /\ calls < MaxCalls
    /\ Allowed(call)
    /\ calls' = calls + 1

\* A call begins with the lookup of its path.
Begin(p, call) ==
    LET r == [NoLoc EXCEPT !.call = call]
    IN  /\ call.op # "close"
        /\ Starts(p, call)
        /\ CASE call.op = "open" /\ call.create -> Lookup(p, r, call.path, TRUE, "create", "idle")
             [] call.op \in {"mkdir", "mknod"} -> Lookup(p, r, call.path, TRUE, "create", "idle")
             [] call.op = "unlink" -> Lookup(p, r, call.path, TRUE, "unlink", "idle")
             [] OTHER -> Lookup(p, r, call.path, FALSE, call.op, "idle")
        /\ UNCHANGED <<dinode, dir, lock, cwd, ofile>>

\* sys_close of the oldest file, and fileclose.
Close(p, call) ==
    /\ call.op = "close"
    /\ Starts(p, call)
    /\ ofile[p] # <<>>
    /\ ofile' = [ofile EXCEPT ![p] = Tail(@)]
    /\ Goto(p, "iput", Putting([NoLoc EXCEPT !.call = call], Head(ofile[p]), "idle"))
    /\ UNCHANGED <<dinode, dir, icache, lock, cwd>>

Step(p) ==
    \/ NamexElem(p) \/ NamexEnd(p) \/ Iput(p) \/ IputDrop(p)
    \/ Create(p) \/ CreateExists(p) \/ Made(p) \/ OpenCreated(p) \/ Open(p) \/ Exec(p) \/ Chdir(p)
    \/ LinkOld(p) \/ LinkNew(p) \/ DirLink(p) \/ LinkTaken(p) \/ LinkBad(p) \/ LinkDone(p)
    \/ Unlink(p) \/ UnlinkErase(p) \/ UnlinkNotEmpty(p) \/ UnlinkDone(p)

Next == \E p \in Procs : Step(p) \/ \E call \in Calls : Begin(p, call) \/ Close(p, call)

Spec == Init /\ [][Next]_vars

\* A process in a call that can go on does.
FairSpec == Spec /\ \A p \in Procs : WF_vars(Step(p))

-----------------------------------------------------------------------------
Quiet == \A p \in Procs : pc[p] = "idle"

\* The references a process has: its current directory, its files and its local variables.
Refs(p, e) ==
    Cardinality({k \in 1..Len(ofile[p]) : ofile[p][k] = e})
    + Cardinality({v \in {<<"cwd", cwd[p]>>, <<"ip", loc[p].ip>>, <<"dp", loc[p].dp>>,
                          <<"old", loc[p].old>>, <<"put", loc[p].put>>} : v[2] = e})

\* ref of an entry of the icache is the number of pointers to it: on no path through the
\* calls, the failing ones included, is a reference lost or dropped twice.
RefCounted == \A e \in Entry : icache[e].ref = MapThenSumSet(LAMBDA p : Refs(p, e), Procs)

\* The icache has one entry for an inode, whatever other processes look up at the same
\* time, and an entry that is valid has what the disk has: the cache is write-through, and a
\* recycled entry does not show the inode that was there before.
CacheCurrent ==
    \A e \in Entry : icache[e].ref > 0 =>
        /\ \A f \in Entry : icache[f].ref > 0 /\ icache[f].inum = icache[e].inum => f = e
        /\ icache[e].valid =>
             dinode[icache[e].inum] = [type |-> icache[e].type, nlink |-> icache[e].nlink]


\* Between calls, nlink of an inode is the number of directory entries that refer to it, "."
\* not counted: link, unlink, create and their failing paths change both or neither.
LinksCounted ==
    Quiet => \A i \in Inum : dinode[i].type # "none" =>
        dinode[i].nlink = Cardinality({l \in Inum \X (Links \ {"."}) : dir[l[1]][l[2]] = i})

\* Between calls, an inode that has neither links nor references is free on the disk: "iput()
\* frees if the reference and link counts have fallen to zero" (fs.c).
Reclaimed ==
    Quiet => \A i \in Inum :
        dinode[i].nlink = 0 /\ (\A e \in Entry : icache[e].ref > 0 => icache[e].inum # i)
        => dinode[i].type = "none"

\* Every call returns: the locks of the inodes are taken from the parent to the child, so
\* nobody waits in a circle.
CallsReturn == \A p \in Procs : []<>(pc[p] = "idle")

=============================================================================
