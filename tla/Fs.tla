--------------------------------- MODULE Fs ---------------------------------
(***************************************************************************)
(* Inodes and directories: kernel/fs.c and the calls of kernel/sysfile.c   *)
(* and file.c that use them (open, close, write, mkdir, link, unlink,      *)
(* chdir), run by several processes, with crashes.                         *)
(*                                                                         *)
(* The log is what AtomicDisk says of it: fs is what calls see, durable is *)
(* what a crash leaves, and the last end_op() makes fs durable.  A block   *)
(* of a call that takes and releases one inode's sleep-lock is one step;   *)
(* a lock that is held while another is taken is a variable.  iput() is a  *)
(* sequence of steps of its own, entered with the place to continue at.    *)
(* Contents of files are left out; blocks are counted.  An entry of the    *)
(* inode table that nobody references is blank: iget() resets it.          *)
(***************************************************************************)
EXTENDS Integers, Sequences, FiniteSets, FiniteSetsExt

CONSTANTS Procs, Names,
          NINODES,    \* inode numbers on disk, 1 is the root
          NBLOCKS,    \* data blocks
          DPB,        \* directory entries in a block
          MAXFILE,    \* blocks of a file
          Workloads,  \* for each process the calls it makes ([op, path,
                      \* new]), whether files are written, and a bound on
                      \* crashes
          Nobody

ASSUME FsAssumption ==
  /\ NINODES \in Nat \ {0} /\ NBLOCKS \in Nat \ {0} /\ DPB \in Nat \ {0}
  /\ MAXFILE \in Nat /\ Nobody \notin Procs
  /\ ".." \notin Names

Inums   == 1..NINODES
ROOTINO == 1
Entries == Names \cup {".."}

VARIABLES fs,         \* inodes and free blocks, as the calls see them
          durable,    \* the same, as of the last commit
          itable,     \* itable.inode, by inode number
          R,          \* processes: cwd, open file, and the call in progress
          active,     \* processes between begin_op() and end_op()
          crashes,
          load        \* the workload, chosen once

vars == <<fs, durable, itable, R, active, crashes, load>>

NoEnts == [n \in Entries |-> 0]
FreeInode == [type |-> "none", nlink |-> 0, ents |-> NoEnts, blocks |-> 0]
BlankEntry == [ref |-> 0, valid |-> FALSE, lock |-> Nobody, type |-> "none",
               nlink |-> 0]
NoPath == [abs |-> TRUE, names |-> <<>>]
Idle == [pc |-> "idle", op |-> "none", todo |-> <<>>, new |-> NoPath,
         w |-> 0, ip |-> 0, put |-> 0, next |-> "idle", via |-> 0]
Fresh == [cwd |-> ROOTINO, fd |-> 0, c |-> Idle]

\* What mkfs writes: the root directory, alone.  A ghost, lost, counts for
\* each inode the entries that disappeared with a directory that was freed.
EmptyFs ==
  [ino  |-> [i \in Inums |->
               IF i = ROOTINO
               THEN [type |-> "dir", nlink |-> 1, blocks |-> 1,
                     ents |-> [NoEnts EXCEPT ![".."] = ROOTINO]]
               ELSE FreeInode],
   free |-> NBLOCKS - 1,
   lost |-> [i \in Inums |-> 0]]

BootTable == [i \in Inums |-> IF i = ROOTINO
                THEN [BlankEntry EXCEPT !.ref = Cardinality(Procs)]
                ELSE BlankEntry]

Init ==
  /\ fs = EmptyFs /\ durable = EmptyFs
  /\ itable = BootTable
  /\ R = [p \in Procs |-> Fresh]
  /\ active = {} /\ crashes = 0
  /\ load \in Workloads

Panicked == \E p \in Procs : R[p].c.pc = "panicked"
At(p, l) == ~Panicked /\ R[p].c.pc = l

-----------------------------------------------------------------------------
(* Operations on the inode table and on the disk.                          *)


Iget(T, i) == IF T[i].ref > 0 THEN [T EXCEPT ![i].ref = @ + 1]
              ELSE [T EXCEPT ![i] = [BlankEntry EXCEPT !.ref = 1]]

\* ilock() once the sleep-lock is free: read the inode if it is not valid.
Loaded(T, i) ==
  IF T[i].valid THEN T
  ELSE [T EXCEPT ![i].valid = TRUE, ![i].type = fs.ino[i].type,
                 ![i].nlink = fs.ino[i].nlink]

Lockable(i) == itable[i].lock = Nobody
NoType(i)   == ~itable[i].valid /\ fs.ino[i].type = "none"

Locked(T, i, p)  == [Loaded(T, i) EXCEPT ![i].lock = p]
Unlocked(T, i)   == [T EXCEPT ![i].lock = Nobody]

\* nlink changes in memory and, by iupdate(), on disk.
MemLink(T, i, d)  == [T EXCEPT ![i].nlink = @ + d]
DiskLink(f, i, d) == [f EXCEPT !.ino[i].nlink = @ + d]

\* bmap() of a new block of inode i: balloc() one.
Balloc(f) == [f EXCEPT !.free = @ - 1]
Bmap(f, i) == [Balloc(f) EXCEPT !.ino[i].blocks = @ + 1]

\* bfree() of n blocks.
Bfree(f, n) == [f EXCEPT !.free = @ + n]

\* ialloc() of the inode i, the first that is free.
FreeInums == {i \in Inums : fs.ino[i].type = "none"}
Ialloc(f, i, type) ==
  [f EXCEPT !.ino[i] = [FreeInode EXCEPT !.type = type]]

Dirlookup(d, n) == fs.ino[d].ents[n]

\* dirlink(): into an empty slot, or at the end, which needs a block if all
\* slots of the blocks are used; bmap() fails when none is free.
Dirlink(f, d, n, i) ==
  LET ino  == f.ino[d]
      used == Cardinality({m \in Entries : ino.ents[m] # 0})
      need == used = ino.blocks * DPB IN
  IF ino.ents[n] # 0 \/ (need /\ f.free = 0) THEN [ok |-> FALSE, f |-> f]
  ELSE [ok |-> TRUE,
        f  |-> [(IF need THEN Bmap(f, d) ELSE f) EXCEPT
                  !.ino[d].ents[n] = i]]

\* itrunc(): bfree() every block.
TruncatedKeeps(f, i) ==
  [Bfree(f, f.ino[i].blocks) EXCEPT !.ino[i].ents = NoEnts]

Truncated(f, i) ==
  [Bfree(f, f.ino[i].blocks) EXCEPT !.ino[i].blocks = 0,
                                    !.ino[i].ents = NoEnts]

\* A process goes on at l with its call's other fields c, or ends the call.
Kept(c, l) == IF l = "end" THEN Idle ELSE c
Goto(p, c, l) == R' = [R EXCEPT ![p].c = [Kept(c, l) EXCEPT !.pc = l]]

\* iput(i), then go on at l.
IputThen(p, c, i, l) ==
  R' = [R EXCEPT ![p].c = [Kept(c, l) EXCEPT !.pc = "iput", !.put = i,
                                             !.next = l]]

\* The end of open(): a descriptor for i, which is truncated if trunc
\* (O_TRUNC), or iunlockput() if no descriptor is left (NOFILE is 1).
Opened(p, i, T, trunc) ==
  IF R[p].fd # 0
  THEN itable' = T /\ IputThen(p, R[p].c, i, "end") /\ UNCHANGED fs
  ELSE /\ itable' = T
       /\ fs' = IF trunc /\ T[i].type = "file" THEN Truncated(fs, i) ELSE fs
       /\ R' = [R EXCEPT ![p].fd = i, ![p].c = [Idle EXCEPT !.pc = "end"]]

\* Ghost: the directory whose ".." was followed to the inode at hand.
Via(d, n) == IF n = ".." THEN d ELSE 0

-----------------------------------------------------------------------------
(* iput()                                                                  *)

LastRefCareless(i) == itable[i].valid /\ itable[i].nlink = 0
LastRef(i) == itable[i].ref = 1 /\ itable[i].valid /\ itable[i].nlink = 0

\* With itable.lock held: drop the reference, or take the inode's sleep-lock
\* to free it.
Iput(p) ==
  LET i == R[p].c.put IN
  /\ At(p, "iput")
  /\ IF LastRef(i)
     THEN /\ Lockable(i)
          /\ itable' = [itable EXCEPT ![i].lock = p]
          /\ Goto(p, R[p].c, "iput_free")
     ELSE /\ itable' = [itable EXCEPT ![i] =
                          IF @.ref = 1 THEN BlankEntry
                          ELSE [@ EXCEPT !.ref = @ - 1]]
          /\ Goto(p, [R[p].c EXCEPT !.put = 0, !.next = "idle"], R[p].c.next)
  /\ UNCHANGED <<fs, durable, active, crashes, load>>

\* itrunc(), type = 0, iupdate().
IputFree(p) ==
  LET i == R[p].c.put
      t == Truncated(fs, i) IN
  /\ At(p, "iput_free")
  /\ fs' = [t EXCEPT !.ino[i].type = "none",
                     !.lost = [k \in Inums |-> @[k] +
                        Cardinality({n \in Names : fs.ino[i].ents[n] = k})]]
  /\ itable' = [itable EXCEPT ![i].type = "none"]
  /\ Goto(p, R[p].c, "iput_drop")
  /\ UNCHANGED <<durable, active, crashes, load>>

\* valid = 0, releasesleep(); by now ialloc() may have found the inode free
\* and taken a reference.
IputStaysValid(p) ==
  LET i == R[p].c.put IN
  /\ At(p, "iput_drop")
  /\ itable' = [itable EXCEPT ![i] =
                  IF @.ref = 1 THEN BlankEntry
                  ELSE [@ EXCEPT !.lock = Nobody, !.ref = @ - 1]]
  /\ Goto(p, [R[p].c EXCEPT !.put = 0, !.next = "idle"], R[p].c.next)
  /\ UNCHANGED <<fs, durable, active, crashes, load>>

IputDrop(p) ==
  LET i == R[p].c.put IN
  /\ At(p, "iput_drop")
  /\ itable' = [itable EXCEPT ![i] =
                  IF @.ref = 1 THEN BlankEntry
                  ELSE [BlankEntry EXCEPT !.ref = itable[i].ref - 1]]
  /\ Goto(p, [R[p].c EXCEPT !.put = 0, !.next = "idle"], R[p].c.next)
  /\ UNCHANGED <<fs, durable, active, crashes, load>>

-----------------------------------------------------------------------------
(* begin_op() and end_op(), the calls, and path lookup.                    *)

WantsParent(c) == c.op \in {"create", "mkdir", "unlink", "link2"}

\* namex() starts with a reference to the root or to the cwd.
Start(p, path) == IF path.abs THEN ROOTINO ELSE R[p].cwd

Begin(p, call) ==
  LET w == Start(p, call.path) IN
  /\ At(p, "idle")
  /\ active' = active \cup {p}
  /\ itable' = Iget(itable, w)
  /\ Goto(p, [Idle EXCEPT !.op = call.op, !.todo = call.path.names,
                          !.new = call.new, !.w = w], "namex")
  /\ UNCHANGED <<fs, durable, crashes, load>>

\* The last call to end makes everything durable.
End(p) ==
  /\ At(p, "end")
  /\ active' = active \ {p}
  /\ durable' = IF active' = {} THEN fs ELSE durable
  /\ R' = [R EXCEPT ![p].c = Idle]
  /\ UNCHANGED <<fs, itable, crashes, load>>

\* Where a call goes when its lookup fails.
Failed(c) == IF c.op = "link2" THEN "link_bad" ELSE "end"

Panic(p) == Goto(p, R[p].c, "panicked") /\ UNCHANGED itable

\* One element of the path: ilock(), look it up, iunlockput().
Namex(p) ==
  LET c  == R[p].c
      i  == c.w
      n  == Head(c.todo)
      nx == Dirlookup(i, n)
      T  == Loaded(itable, i) IN
  /\ At(p, "namex")
  /\ c.todo # <<>>
  /\ Lockable(i)
  /\ IF NoType(i) THEN Panic(p)
     ELSE IF T[i].type # "dir"
     THEN itable' = T /\ IputThen(p, c, i, Failed(c))
     ELSE IF WantsParent(c) /\ Len(c.todo) = 1
     THEN itable' = T /\ Goto(p, c, c.op)
     ELSE IF nx = 0
     THEN itable' = T /\ IputThen(p, c, i, Failed(c))
     ELSE /\ itable' = Iget(T, nx)
          /\ IputThen(p, [c EXCEPT !.w = nx, !.todo = Tail(@),
                                   !.via = Via(i, n)], i, "namex")
  /\ UNCHANGED <<fs, durable, active, crashes, load>>

NamexEnds(p) ==
  LET c == R[p].c IN
  /\ At(p, "namex")
  /\ c.todo = <<>>
  /\ IF WantsParent(c) THEN IputThen(p, c, c.w, Failed(c))
                       ELSE Goto(p, c, c.op)
  /\ UNCHANGED <<fs, durable, itable, active, crashes, load>>

-----------------------------------------------------------------------------
(* open() of an existing file, chdir(), close(), write()                   *)

\* A directory is opened for reading only.
Open(p, trunc) ==
  LET c == R[p].c
      i == c.w
      T == Loaded(itable, i) IN
  /\ At(p, "open")
  /\ Lockable(i)
  /\ IF NoType(i) THEN Panic(p) /\ UNCHANGED fs
     ELSE IF T[i].type = "dir" /\ trunc
     THEN itable' = T /\ IputThen(p, c, i, "end") /\ UNCHANGED fs
     ELSE Opened(p, i, T, trunc)
  /\ UNCHANGED <<durable, active, crashes, load>>

\* The new directory is kept in w until iput() of the old one is done.
Chdir(p) ==
  LET c == R[p].c
      i == c.w
      T == Loaded(itable, i) IN
  /\ At(p, "chdir")
  /\ Lockable(i)
  /\ IF NoType(i) THEN Panic(p)
     ELSE /\ itable' = T
          /\ IF T[i].type # "dir" THEN IputThen(p, c, i, "end")
             ELSE IputThen(p, c, R[p].cwd, "chdir_end")
  /\ UNCHANGED <<fs, durable, active, crashes, load>>

ChdirEnd(p) ==
  /\ At(p, "chdir_end")
  /\ R' = [R EXCEPT ![p].cwd = R[p].c.w, ![p].c = [Idle EXCEPT !.pc = "end"]]
  /\ UNCHANGED <<fs, durable, itable, active, crashes, load>>

Close(p) ==
  /\ At(p, "idle")
  /\ R[p].fd # 0
  /\ active' = active \cup {p}
  /\ R' = [R EXCEPT ![p].fd = 0,
                    ![p].c = [Idle EXCEPT !.pc = "iput", !.put = R[p].fd,
                                          !.next = "end"]]
  /\ UNCHANGED <<fs, durable, itable, crashes, load>>

\* filewrite() of one block at the end of the file.
Write(p) ==
  LET i == R[p].fd IN
  /\ At(p, "idle") /\ load.writes
  /\ i # 0 /\ Lockable(i)
  /\ fs.ino[i].type = "file"
  /\ fs.ino[i].blocks < MAXFILE
  /\ fs.free > 0
  /\ fs' = Bmap(fs, i)
  /\ active' = active \cup {p}
  /\ Goto(p, Idle, "end")
  /\ UNCHANGED <<durable, itable, crashes, load>>

-----------------------------------------------------------------------------
(* create(), for open(O_CREATE) and mkdir()                                *)

Create(p) ==
  LET c  == R[p].c
      d  == c.w
      ip == Dirlookup(d, Head(c.todo))
      T  == Loaded(itable, d) IN
  /\ At(p, c.op) /\ c.op \in {"create", "mkdir"}
  /\ Lockable(d)
  /\ IF NoType(d) THEN Panic(p) /\ UNCHANGED fs
     ELSE IF ip # 0
     THEN /\ itable' = Iget(T, ip)
          /\ IputThen(p, [c EXCEPT !.ip = ip, !.via = Via(d, Head(c.todo))], d,
                      "create_old")
          /\ UNCHANGED fs
     ELSE IF FreeInums = {}
     THEN itable' = T /\ IputThen(p, c, d, "end") /\ UNCHANGED fs
     ELSE LET new == Min(FreeInums) IN
          /\ fs' = Ialloc(fs, new, IF c.op = "mkdir" THEN "dir" ELSE "file")
          /\ itable' = Iget(Locked(T, d, p), new)
          /\ Goto(p, [c EXCEPT !.ip = new, !.via = 0], "create_new")
  /\ UNCHANGED <<durable, active, crashes, load>>

\* The name exists: open() takes a file, mkdir() fails.
CreateOld(p, trunc) ==
  LET c == R[p].c
      T == Loaded(itable, c.ip) IN
  /\ At(p, "create_old")
  /\ Lockable(c.ip)
  /\ IF NoType(c.ip) THEN Panic(p) /\ UNCHANGED fs
     ELSE IF c.op = "create" /\ T[c.ip].type = "file"
     THEN Opened(p, c.ip, T, trunc)
     ELSE itable' = T /\ IputThen(p, c, c.ip, "end") /\ UNCHANGED fs
  /\ UNCHANGED <<durable, active, crashes, load>>

\* Both inodes are locked: links and entries, and for a directory ".." and
\* its count; if a block is missing, nlink = 0 and both are put.
CreateNew(p) ==
  LET c    == R[p].c
      ip   == c.ip
      one  == DiskLink(fs, ip, 1)
      dots == IF c.op = "mkdir" THEN Dirlink(one, ip, "..", c.w)
              ELSE [ok |-> TRUE, f |-> one]
      all  == Dirlink(dots.f, c.w, Head(c.todo), ip)
      T    == MemLink(Loaded(itable, ip), ip, 1)
      up   == IF c.op = "mkdir" THEN 1 ELSE 0 IN
  /\ At(p, "create_new")
  /\ Lockable(ip)
  /\ IF NoType(ip) THEN Panic(p) /\ UNCHANGED fs
     ELSE IF dots.ok /\ all.ok
     THEN /\ fs' = DiskLink(all.f, c.w, up)
          /\ itable' = Unlocked([MemLink(T, c.w, up) EXCEPT ![ip].lock = p],
                                c.w)
          /\ IputThen(p, c, c.w, "created")
     ELSE /\ fs' = DiskLink(dots.f, ip, -1)
          /\ itable' = MemLink(T, ip, -1)
          /\ IputThen(p, c, ip, "create_fail")
  /\ UNCHANGED <<durable, active, crashes, load>>

Created(p) ==
  LET c == R[p].c IN
  /\ At(p, "created")
  /\ IF c.op = "mkdir"
     THEN /\ itable' = Unlocked(itable, c.ip)
          /\ IputThen(p, c, c.ip, "end")
          /\ UNCHANGED fs
     ELSE Opened(p, c.ip, Unlocked(itable, c.ip), FALSE)
  /\ UNCHANGED <<durable, active, crashes, load>>

\* iunlockput(dp) on a failure path, in create() and in unlink().
UnlockDp(p) ==
  LET c == R[p].c IN
  /\ At(p, "create_fail") \/ At(p, "unlink_fail")
  /\ itable' = Unlocked(itable, c.w)
  /\ Goto(p, c, "end")
  /\ UNCHANGED <<fs, durable, active, crashes, load>>

UnlockPutDp(p) ==
  LET c == R[p].c IN
  /\ At(p, "create_fail") \/ At(p, "unlink_fail")
  /\ itable' = Unlocked(itable, c.w)
  /\ IputThen(p, c, c.w, "end")
  /\ UNCHANGED <<fs, durable, active, crashes, load>>

-----------------------------------------------------------------------------
(* unlink()                                                                *)

\* "Cannot unlink "." or ".."."
AnyName(n)  == FALSE
IsDotDot(n) == n = ".."

Unlink(p) ==
  LET c  == R[p].c
      d  == c.w
      n  == Head(c.todo)
      ip == Dirlookup(d, n)
      T  == Loaded(itable, d) IN
  /\ At(p, "unlink")
  /\ Lockable(d)
  /\ IF NoType(d) THEN Panic(p)
     ELSE IF IsDotDot(n) \/ ip = 0 THEN itable' = T /\ IputThen(p, c, d, "end")
     ELSE /\ itable' = Iget(Locked(T, d, p), ip)
          /\ Goto(p, [c EXCEPT !.ip = ip, !.via = 0], "unlink_ip")
  /\ UNCHANGED <<fs, durable, active, crashes, load>>

\* The parent stays locked while the child is locked.  An empty directory or
\* a file loses its entry.
IsDirEmpty(i) == \A n \in Names : fs.ino[i].ents[n] = 0
DpLinksKept(f, d, i)    == f
DpLinksDropped(f, d, i) ==
  IF f.ino[i].type = "dir" THEN DiskLink(f, d, -1) ELSE f

UnlinkIp(p) ==
  LET c  == R[p].c
      d  == c.w
      ip == c.ip
      T  == Loaded(itable, ip) IN
  /\ At(p, "unlink_ip")
  /\ Lockable(ip)
  /\ IF NoType(ip) \/ T[ip].nlink < 1 THEN Panic(p) /\ UNCHANGED fs
     ELSE IF T[ip].type = "dir" /\ ~IsDirEmpty(ip)
     THEN itable' = T /\ IputThen(p, c, ip, "unlink_fail") /\ UNCHANGED fs
     ELSE /\ fs' = DpLinksDropped([fs EXCEPT !.ino[d].ents[Head(c.todo)] = 0],
                                  d, ip)
          /\ itable' = Unlocked([MemLink(T, d, fs'.ino[d].nlink
                                                 - fs.ino[d].nlink)
                                   EXCEPT ![ip].lock = p], d)
          /\ IputThen(p, c, d, "unlink_dec")
  /\ UNCHANGED <<durable, active, crashes, load>>

UnlinkDec(p) ==
  LET c == R[p].c IN
  /\ At(p, "unlink_dec")
  /\ fs' = DiskLink(fs, c.ip, -1)
  /\ itable' = Unlocked(MemLink(itable, c.ip, -1), c.ip)
  /\ IputThen(p, c, c.ip, "end")
  /\ UNCHANGED <<durable, active, crashes, load>>

-----------------------------------------------------------------------------
(* link()                                                                  *)

\* Count the link first, then look up the parent of the new name.
Link(p) ==
  LET c == R[p].c
      i == c.w
      T == Loaded(itable, i)
      s == Start(p, c.new) IN
  /\ At(p, "link")
  /\ Lockable(i)
  /\ IF NoType(i) THEN Panic(p) /\ UNCHANGED fs
     ELSE IF T[i].type = "dir"
     THEN itable' = T /\ IputThen(p, c, i, "end") /\ UNCHANGED fs
     ELSE /\ fs' = DiskLink(fs, i, 1)
          /\ itable' = Iget(MemLink(T, i, 1), s)
          /\ Goto(p, [c EXCEPT !.op = "link2", !.todo = c.new.names,
                               !.new = NoPath, !.ip = i, !.w = s, !.via = 0],
                  "namex")
  /\ UNCHANGED <<durable, active, crashes, load>>

LinkDp(p) ==
  LET c == R[p].c
      d == c.w
      r == Dirlink(fs, d, Head(c.todo), c.ip)
      T == Loaded(itable, d) IN
  /\ At(p, "link2")
  /\ Lockable(d)
  /\ IF NoType(d) THEN Panic(p) /\ UNCHANGED fs
     ELSE /\ fs' = r.f
          /\ itable' = T
          /\ IputThen(p, c, d, IF r.ok THEN "link_done" ELSE "link_bad")
  /\ UNCHANGED <<durable, active, crashes, load>>

LinkDone(p) ==
  /\ At(p, "link_done")
  /\ IputThen(p, R[p].c, R[p].c.ip, "end")
  /\ UNCHANGED <<fs, durable, itable, active, crashes, load>>

\* bad: take the link back.
LinkBad(p) ==
  LET i == R[p].c.ip IN
  /\ At(p, "link_bad")
  /\ Lockable(i)
  /\ fs' = DiskLink(fs, i, -1)
  /\ itable' = MemLink(Loaded(itable, i), i, -1)
  /\ IputThen(p, R[p].c, i, "end")
  /\ UNCHANGED <<durable, active, crashes, load>>

-----------------------------------------------------------------------------
\* Power fails; the log is recovered, the tables are empty, and every process
\* starts again in the root directory.
Crash ==
  /\ ~Panicked
  /\ crashes < load.crashes
  /\ crashes' = crashes + 1
  /\ fs' = durable
  /\ itable' = BootTable
  /\ R' = [p \in Procs |-> Fresh]
  /\ active' = {}
  /\ UNCHANGED <<durable, load>>

Step(p) ==
  \/ Close(p) \/ Write(p)
  \/ Iput(p) \/ IputFree(p) \/ IputDrop(p) \/ End(p)
  \/ Namex(p) \/ NamexEnds(p)
  \/ \E b \in BOOLEAN : Open(p, b) \/ CreateOld(p, b)
  \/ Chdir(p) \/ ChdirEnd(p)
  \/ Create(p) \/ CreateNew(p) \/ Created(p)
  \/ UnlockPutDp(p) \/ Unlink(p) \/ UnlinkIp(p) \/ UnlinkDec(p)
  \/ Link(p) \/ LinkDp(p) \/ LinkDone(p) \/ LinkBad(p)

Next ==
  \/ \E p \in Procs :
       \/ Step(p)
       \/ \E call \in load.calls[p] : Begin(p, call)
  \/ Crash
  \/ Panicked /\ UNCHANGED vars

Spec == Init /\ [][Next]_vars

-----------------------------------------------------------------------------
(* Properties.                                                             *)

\* Every variable keeps its type; link counts do not go below zero.
TypeOK ==
  /\ fs.free \in 0..NBLOCKS
  /\ \A i \in Inums :
       /\ fs.ino[i].type \in {"none", "dir", "file"}
       /\ fs.ino[i].nlink \in Nat
       /\ fs.ino[i].blocks \in 0..NBLOCKS
       /\ itable[i].ref \in Nat /\ itable[i].valid \in BOOLEAN
       /\ itable[i].lock \in Procs \cup {Nobody}
  /\ active \subseteq Procs
  /\ \A p \in Procs : R[p].cwd \in Inums /\ R[p].fd \in Inums \cup {0}

Attached(f, i) ==
  i = ROOTINO \/ \E d \in Inums, n \in Names : f.ino[d].ents[n] = i

\* Number of links to i: its names, the ".." of directories that have a
\* name, and for the root one more.
Links(f, i) ==
  Cardinality({<<d, n>> \in Inums \X Names : f.ino[d].ents[n] = i})
    + Cardinality({d \in Inums \ {ROOTINO} :
                     f.ino[d].ents[".."] = i /\ Attached(f, d)})
    + (IF i = ROOTINO THEN 1 ELSE 0)

\* What a crash leaves is a file system: every name leads to an inode that
\* is in use, nlink counts the links exactly (up to names that vanished with
\* a removed directory somebody still created files in), and every block is
\* free or belongs to one inode.
DurableIsConsistent ==
  /\ \A d \in Inums, n \in Names : durable.ino[d].ents[n] # 0 =>
       durable.ino[durable.ino[d].ents[n]].type # "none"
  /\ \A i \in Inums : durable.ino[i].type # "none" =>
       durable.ino[i].nlink = Links(durable, i) + durable.lost[i]
  /\ NBLOCKS = durable.free
                 + FoldSet(LAMBDA i, n : n + durable.ino[i].blocks, 0, Inums)

\* An inode that is open, or is somebody's current directory, or has a name
\* is not free: iput() frees it only when the last of these is gone, also
\* when ialloc() hands its number out while iput() still works on it.
InUseIsAllocated ==
  /\ \A p \in Procs : /\ R[p].fd # 0 => fs.ino[R[p].fd].type # "none"
                      /\ At(p, "idle") => fs.ino[R[p].cwd].type # "none"
  /\ \A d \in Inums, n \in Names : fs.ino[d].ents[n] # 0 =>
       fs.ino[fs.ino[d].ents[n]].type # "none"

\* When no call is in progress the table counts exactly the open files and
\* the current directories, and no inode is locked: no path through a call,
\* the failing ones included, loses or keeps a reference or a lock.
QuiescentRefsExact ==
  active = {} => \A i \in Inums :
    /\ itable[i].ref = Cardinality({p \in Procs : R[p].cwd = i})
                        + Cardinality({p \in Procs : R[p].fd = i})
    /\ itable[i].lock = Nobody

\* A valid entry of the table that nobody has locked agrees with the disk.
TableAgreesWithDisk ==
  \A i \in Inums : itable[i].valid /\ Lockable(i) =>
    itable[i].type = fs.ino[i].type /\ itable[i].nlink = fs.ino[i].nlink

\* "ip->ref == 1 means no other process can have ip locked, so this
\* acquiresleep() won't block (or deadlock)" (fs.c:344).
IputNeverBlocks ==
  \A p \in Procs : At(p, "iput") /\ LastRef(R[p].c.put)
                     => Lockable(R[p].c.put)

\* The inode whose lock p waits for.
Wanted(p) ==
  LET c == R[p].c IN
  IF c.pc \in {"create_old", "create_new", "unlink_ip", "link_bad"} THEN c.ip
  ELSE IF c.pc \in {"namex", "open", "chdir", "create", "mkdir", "unlink",
                    "link", "link2"} THEN c.w
  ELSE IF c.pc = "iput" /\ LastRef(c.put) THEN c.put ELSE 0

\* Processes that wait for inode locks never wait for each other in a
\* circle: locks are taken down the tree, or on a new inode.
NoLockCycle ==
  \A S \in SUBSET Procs \ {{}} :
    \E p \in S : Wanted(p) = 0 \/ itable[Wanted(p)].lock \notin S


\* An inode without links that nobody references is on its way to be freed;
\* only a crash leaves one behind (nothing looks for it at boot).
OrphansOnlyAfterCrash ==
  active = {} /\ crashes = 0 =>
    \A i \in Inums : fs.ino[i].type # "none" /\ fs.ino[i].nlink = 0
                       => itable[i].ref > 0

\* The inode table is sound: types, inodes in use are allocated, and what is
\* cached of an inode is what is on disk.
InodesInUse == TypeOK /\ InUseIsAllocated /\ TableAgreesWithDisk

\* Nobody waits for an inode lock in vain: not in iput(), and not in a circle.
LocksAreOrdered == IputNeverBlocks /\ NoLockCycle

=============================================================================
