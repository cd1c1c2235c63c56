------------------------------- MODULE Bcache -------------------------------
(***************************************************************************)
(* The buffer cache of kernel/bio.c with the sleep-locks of                *)
(* kernel/sleeplock.c: bget, bread, bwrite, brelse, bpin and bunpin by     *)
(* concurrent processes, each using one buffer at a time.                  *)
(*                                                                         *)
(* Grain of atomicity.  A section under bcache.lock, or under the spin-lock*)
(* inside a sleep-lock, is one step; what a process does between two such  *)
(* sections, in particular a disk transfer, is a step of its own.          *)
(***************************************************************************)
EXTENDS Naturals, Sequences, FiniteSets, Functions

CONSTANTS Procs,      \* processes that use the disk
          Blocks,     \* disk blocks
          Uses,       \* the blocks each process's calls touch
          Vals,       \* contents of a block
          NBUF,       \* number of buffers
          NoBlock,    \* block number of a buffer never used
          NoProc      \* nobody

ASSUME BcacheAssumption ==
  /\ NBUF \in Nat \ {0}
  /\ NoBlock \notin Blocks
  /\ IsFiniteSet(Procs) /\ NoProc \notin Procs
  /\ Uses \in [Procs -> SUBSET Blocks]
  /\ Vals # {}

Bufs == 1..NBUF

VARIABLES disk,       \* contents of the disk
          blockno,    \* b->blockno (and b->dev)
          valid,      \* b->valid
          refcnt,     \* b->refcnt
          data,       \* b->data
          holder,     \* owner of the sleep-lock b->lock
          lru,        \* the list from head.next (most recent) to head.prev
          pinned,     \* blocks the log has pinned with bpin()
          pc,         \* where each process is
          want,       \* the block a process asked for
          buf,        \* the buffer bget() chose for it
          panicked    \* bget() called panic() while holding bcache.lock

vars == <<disk, blockno, valid, refcnt, data, holder, lru, pinned, pc, want,
          buf, panicked>>

PCs == {"idle", "lock", "asleep", "read", "hold", "dirty", "unref"}

\* binit() puts every buffer at the head of the list in turn.
Init ==
  /\ disk \in [Blocks -> Vals]
  /\ blockno = [i \in Bufs |-> NoBlock]
  /\ valid = [i \in Bufs |-> FALSE]
  /\ refcnt = [i \in Bufs |-> 0]
  /\ data = [i \in Bufs |-> CHOOSE v \in Vals : TRUE]
  /\ holder = [i \in Bufs |-> NoProc]
  /\ lru = [i \in Bufs |-> NBUF + 1 - i]
  /\ pinned = {}
  /\ pc = [p \in Procs |-> "idle"]
  /\ want = [p \in Procs |-> NoBlock]
  /\ buf = [p \in Procs |-> 0]
  /\ panicked = FALSE

Goto(p, l) == pc' = [pc EXCEPT ![p] = l]

\* brelse(): unlink the buffer and put it at the head of the list.
PutInFront(s, i)  == <<i>> \o s
MoveToFront(s, i) ==
  LET n == CHOOSE k \in Bufs : s[k] = i
  IN  [k \in Bufs |-> IF k = 1 THEN i ELSE IF k <= n THEN s[k - 1] ELSE s[k]]

-----------------------------------------------------------------------------
(* bget(): the search under bcache.lock, then acquiresleep().              *)

CachedIfValid(b) == \E i \in Bufs : blockno[i] = b /\ valid[i]
Cached(b)        == \E i \in Bufs : blockno[i] = b

BgetHit(p, b) ==
  /\ pc[p] = "idle"
  /\ ~panicked
  /\ \E i \in Bufs :
       /\ blockno[i] = b
       /\ refcnt' = [refcnt EXCEPT ![i] = @ + 1]
       /\ buf' = [buf EXCEPT ![p] = i]
  /\ want' = [want EXCEPT ![p] = b]
  /\ Goto(p, "lock")
  /\ UNCHANGED <<disk, blockno, valid, data, holder, lru, pinned, panicked>>

\* A buffer that bget() may take over for another block.
RecyclableUnlocked(i) == holder[i] = NoProc
Recyclable(i)         == refcnt[i] = 0

\* b->valid = 0 for a buffer taken over.
KeepValid(i)  == valid
Invalidate(i) == [valid EXCEPT ![i] = FALSE]

\* The least recently used one: the last in list order.
Victim(i) ==
  /\ Recyclable(i)
  /\ \A j \in Bufs : Recyclable(j) =>
       \E m, n \in 1..NBUF : lru[m] = j /\ lru[n] = i /\ m <= n

BgetMiss(p, b) ==
  /\ pc[p] = "idle"
  /\ ~panicked
  /\ ~Cached(b)
  /\ \E i \in Bufs :
       /\ Victim(i)
       /\ blockno' = [blockno EXCEPT ![i] = b]
       /\ valid' = Invalidate(i)
       /\ refcnt' = [refcnt EXCEPT ![i] = 1]
       /\ buf' = [buf EXCEPT ![p] = i]
  /\ want' = [want EXCEPT ![p] = b]
  /\ Goto(p, "lock")
  /\ UNCHANGED <<disk, data, holder, lru, pinned, panicked>>

\* panic("bget: no buffers"), with bcache.lock held for ever.
BgetPanic(p, b) ==
  /\ pc[p] = "idle"
  /\ ~panicked
  /\ ~Cached(b)
  /\ \A i \in Bufs : ~Recyclable(i)
  /\ panicked' = TRUE
  /\ UNCHANGED <<disk, blockno, valid, refcnt, data, holder, lru, pinned, pc,
                 want, buf>>

AcquireSleep(p) ==
  /\ pc[p] = "lock"
  /\ IF holder[buf[p]] # NoProc
     THEN Goto(p, "asleep") /\ UNCHANGED holder
     ELSE /\ holder' = [holder EXCEPT ![buf[p]] = p]
          /\ Goto(p, IF valid[buf[p]] THEN "hold" ELSE "read")
  /\ UNCHANGED <<disk, blockno, valid, refcnt, data, lru, pinned, want, buf,
                 panicked>>

\* virtio_disk_rw(b, 0) and b->valid = 1.
DiskRead(p) ==
  /\ pc[p] = "read"
  /\ data' = [data EXCEPT ![buf[p]] = disk[blockno[buf[p]]]]
  /\ valid' = [valid EXCEPT ![buf[p]] = TRUE]
  /\ Goto(p, "hold")
  /\ UNCHANGED <<disk, blockno, refcnt, holder, lru, pinned, want, buf,
                 panicked>>

-----------------------------------------------------------------------------
(* What callers do with a locked buffer.  One that changes the data either *)
(* writes it to disk, or hands it to the log, which pins it (log_write())  *)
(* and later writes and unpins it (install_trans()).                       *)

Modify(p, v) ==
  /\ pc[p] = "hold"
  /\ data' = [data EXCEPT ![buf[p]] = v]
  /\ Goto(p, "dirty")
  /\ UNCHANGED <<disk, blockno, valid, refcnt, holder, lru, pinned, want, buf,
                 panicked>>

\* bwrite(): virtio_disk_rw(b, 1), the caller holds the sleep-lock.
Bwrite(p) ==
  /\ pc[p] = "dirty"
  /\ holder[buf[p]] = p
  /\ disk' = [disk EXCEPT ![blockno[buf[p]]] = data[buf[p]]]
  /\ Goto(p, "hold")
  /\ UNCHANGED <<blockno, valid, refcnt, data, holder, lru, pinned, want, buf,
                 panicked>>

\* log_write(): bpin() unless the block is in the log already.
Bpin(p) ==
  /\ pc[p] = "dirty"
  /\ ~panicked
  /\ refcnt' = IF want[p] \in pinned THEN refcnt
               ELSE [refcnt EXCEPT ![buf[p]] = @ + 1]
  /\ pinned' = pinned \cup {want[p]}
  /\ Goto(p, "hold")
  /\ UNCHANGED <<disk, blockno, valid, data, holder, lru, want, buf, panicked>>

\* install_trans(): bwrite() and bunpin() of a pinned block.
WriteAndBunpin(p) ==
  /\ pc[p] = "hold"
  /\ ~panicked
  /\ want[p] \in pinned
  /\ disk' = [disk EXCEPT ![blockno[buf[p]]] = data[buf[p]]]
  /\ refcnt' = [refcnt EXCEPT ![buf[p]] = @ - 1]
  /\ pinned' = pinned \ {want[p]}
  /\ UNCHANGED <<blockno, valid, data, holder, lru, pc, want, buf, panicked>>

\* brelse(), first part: releasesleep(), which wakes the waiters.
ReleaseSilently(p) ==
  /\ pc[p] = "hold"
  /\ holder' = [holder EXCEPT ![buf[p]] = NoProc]
  /\ Goto(p, "unref")
  /\ UNCHANGED <<disk, blockno, valid, refcnt, data, lru, pinned, want, buf,
                 panicked>>

ReleaseSleep(p) ==
  /\ pc[p] = "hold"
  /\ holder' = [holder EXCEPT ![buf[p]] = NoProc]
  /\ pc' = [q \in Procs |->
              IF q = p THEN "unref"
              ELSE IF pc[q] = "asleep" /\ buf[q] = buf[p] THEN "lock"
              ELSE pc[q]]
  /\ UNCHANGED <<disk, blockno, valid, refcnt, data, lru, pinned, want, buf,
                 panicked>>

\* brelse(), second part, under bcache.lock.
Brelse(p) ==
  /\ pc[p] = "unref"
  /\ ~panicked
  /\ refcnt' = [refcnt EXCEPT ![buf[p]] = @ - 1]
  /\ lru' = IF refcnt'[buf[p]] = 0 THEN MoveToFront(lru, buf[p]) ELSE lru
  /\ want' = [want EXCEPT ![p] = NoBlock]
  /\ buf' = [buf EXCEPT ![p] = 0]
  /\ Goto(p, "idle")
  /\ UNCHANGED <<disk, blockno, valid, data, holder, pinned, panicked>>

-----------------------------------------------------------------------------
Finish(p) ==
  \/ AcquireSleep(p) \/ DiskRead(p) \/ Bwrite(p) \/ Bpin(p)
  \/ ReleaseSleep(p) \/ Brelse(p)

Next == \E p \in Procs :
  \/ \E b \in Uses[p] : BgetHit(p, b) \/ BgetMiss(p, b) \/ BgetPanic(p, b)
  \/ \E v \in Vals : Modify(p, v)
  \/ Finish(p)
  \/ WriteAndBunpin(p)

Spec == Init /\ [][Next]_vars

\* Processes in the kernel get on, and release their buffers in the end.
Fairness == \A p \in Procs :
  /\ WF_vars(AcquireSleep(p) \/ DiskRead(p) \/ Bwrite(p) \/ Bpin(p)
             \/ Brelse(p))
  /\ SF_vars(ReleaseSleep(p))

FairSpec == Spec /\ Fairness

-----------------------------------------------------------------------------
(* Properties.                                                             *)

\* Every variable keeps its type; the list holds every buffer once.
TypeOK ==
  /\ disk \in [Blocks -> Vals]
  /\ blockno \in [Bufs -> Blocks \cup {NoBlock}]
  /\ valid \in [Bufs -> BOOLEAN]
  /\ refcnt \in [Bufs -> Nat]
  /\ data \in [Bufs -> Vals]
  /\ holder \in [Bufs -> Procs \cup {NoProc}]
  /\ lru \in [Bufs -> Bufs] /\ Range(lru) = Bufs
  /\ pinned \subseteq Blocks
  /\ pc \in [Procs -> PCs]
  /\ want \in [Procs -> Blocks \cup {NoBlock}]
  /\ buf \in [Procs -> 0..NBUF]
  /\ panicked \in BOOLEAN

\* A block is in at most one buffer, so that its lock protects it.
OneBufferPerBlock ==
  \A i, j \in Bufs : i # j /\ blockno[i] # NoBlock => blockno[i] # blockno[j]

\* A reference count is exactly the number of processes that are using or
\* waiting for the buffer, plus one if the log pins its block.
RefcntIsExact ==
  \A i \in Bufs : refcnt[i] = Cardinality({p \in Procs : buf[p] = i})
                              + (IF blockno[i] \in pinned THEN 1 ELSE 0)

\* From bget() to brelse() a process's buffer stays on the block it asked
\* for, also while it waits for the lock, and it has the lock to itself.
BufferIsStable ==
  \A p \in Procs :
    /\ pc[p] # "idle" => blockno[buf[p]] = want[p]
    /\ pc[p] \in {"read", "hold", "dirty"} => holder[buf[p]] = p

\* The contents of a block: the valid buffer's if there is one.
Store(b) ==
  IF \E i \in Bufs : blockno[i] = b /\ valid[i]
  THEN data[CHOOSE i \in Bufs : blockno[i] = b /\ valid[i]]
  ELSE disk[b]

\* Only a process that holds a block's buffer changes what the block reads
\* as: no update is lost, or undone, by recycling, re-reading or writing.
OnlyHolderChanges ==
  [][\A b \in Blocks : Store(b)' # Store(b) =>
       \E p \in Procs : want[p] = b /\ pc[p] = "hold" /\ pc'[p] = "dirty"]_vars

\* Whoever sleeps on a buffer's sleep-lock has a holder to wait for.
SleeperHasHolder ==
  \A p \in Procs : pc[p] = "asleep" => holder[buf[p]] \notin {NoProc, p}

\* A process asleep on a buffer's lock is woken.
SleepersWake == \A p \in Procs : pc[p] = "asleep" ~> pc[p] # "asleep"

\* A buffer that bget() has returned, or for whose lock a process waits in
\* bget(), is the only one of its block, stays that until brelse(), and has
\* a holder who will wake the waiters; variables keep their types.
BufferIsOurs ==
  TypeOK /\ OneBufferPerBlock /\ BufferIsStable /\ SleeperHasHolder
=============================================================================
