-------------------------------- MODULE Log --------------------------------
(***************************************************************************)
(* The redo log of kernel/log.c: begin_op, log_write, end_op, the commit   *)
(* (write_log, write_head, install_trans), and recovery at boot            *)
(* (recover_from_log), over a disk that keeps its blocks across crashes.   *)
(*                                                                         *)
(* Grain of atomicity.  A section of code that holds log.lock is one step. *)
(* The commit runs without log.lock, so each of its disk writes is a step, *)
(* and the write of a data block is two steps: BSIZE is two 512-byte disk  *)
(* sectors (virtio_disk.c:218), so a crash can leave a block half written, *)
(* the value Torn.  The header fits in one sector (124 bytes) and its      *)
(* write is atomic.  The cache (kernel/bio.c) appears as the contents it   *)
(* holds, who has a buffer locked and how often a buffer is pinned.        *)
(***************************************************************************)
EXTENDS Integers, Sequences, FiniteSets

CONSTANTS Procs,        \* processes that use the file system
          Blocks,       \* home blocks (bitmap, inode and data blocks)
          Vals,         \* contents of a block
          Zero,         \* contents that mkfs gives to a fresh block
          MAXOPBLOCKS,  \* distinct blocks one system call may log
          LOGSIZE,      \* capacity of struct logheader
          nlog,         \* log blocks on disk, the header block included
          Torn,         \* contents of a half written block
          NotCached,    \* no buffer holds this block
          NoBlock       \* no block number

ASSUME LogAssumption ==
  /\ IsFiniteSet(Procs)
  /\ Zero \in Vals
  /\ Torn \notin Vals
  /\ NotCached \notin Vals \cup {Torn}
  /\ NoBlock \notin Blocks
  /\ MAXOPBLOCKS \in Nat \ {0}
  /\ LOGSIZE \in Nat
  /\ MAXOPBLOCKS <= LOGSIZE
  /\ nlog \in Nat \ {0}

VARIABLES home,         \* disk: the home location of every block
          dlog,         \* disk: the log's data blocks, log.start+1 onwards
          dhead,        \* disk: block numbers in the log's header block
          cache,        \* buffer cache: contents of the cached blocks
          pin,          \* buffer cache: references taken by bpin()
          lh,           \* log.lh, the block numbers of this transaction
          outstanding,  \* log.outstanding
          committing,   \* log.committing
          sleeping,     \* processes asleep on the channel &log
          pc,           \* where each process is
          held,         \* the buffer each process has locked
          wrote,        \* blocks each process logged since its begin_op()
          tail,         \* loop index of write_log() and install_trans()
          mode,         \* what the machine runs: boot-time recovery or calls
          panicked      \* the process that called panic() while holding log.lock

disk  == <<home, dlog, dhead>>
bufs  == <<cache, pin, held>>
procs == <<pc, wrote, sleeping>>
state == <<outstanding, committing>>
vars  == <<home, dlog, dhead, cache, pin, lh, outstanding, committing,
           sleeping, pc, held, wrote, tail, mode, panicked>>

Slots == 1..(nlog - 1)

CommitPCs == {"write_log", "write_log_io", "commit_head", "install",
              "install_io", "clear_head", "end_commit"}
PCs   == {"idle", "op"} \cup CommitPCs
Modes == {"read_head", "recover", "recover_io", "recover_clear", "up"}

Locked(b)   == \E p \in Procs : held[p] = b
Contents(b) == IF cache[b] = NotCached THEN home[b] ELSE cache[b]
Unreferenced(b) == pin[b] = 0 /\ ~Locked(b)   \* refcnt = 0

\* log_write() finds b in the header: log absorption.
InLogNever(b) == FALSE
InLog(b)      == \E i \in 1..Len(lh) : lh[i] = b

\* The pin count of b after bpin(b).
BpinForgotten(b) == pin
Bpin(b)          == [pin EXCEPT ![b] = @ + 1]

\* The processes still asleep on &log after wakeup(&log).
WakeupForgotten == sleeping
WakeupLog       == {}

\* Room for the blocks that one more system call may log.
SpaceForLogOnly == Len(lh) + MAXOPBLOCKS <= LOGSIZE
SpaceForOp      == Len(lh) + (outstanding + 1) * MAXOPBLOCKS <= LOGSIZE

\* Where commit() starts.
CommitHeadFirst == IF lh = <<>> THEN "end_commit" ELSE "commit_head"
CommitStart     == IF lh = <<>> THEN "end_commit" ELSE "write_log"

\* The loops over lh have another block after block tail.
MoreBlocksShort == tail + 2 < Len(lh)
MoreBlocks      == tail + 1 < Len(lh)

\* The loop index for the next block.
NextTailStuck    == tail
NextTail         == tail + 1
RecoverTailStuck == tail
RecoverTail      == tail + 1

Init ==
  /\ home \in [Blocks -> Vals]
  /\ dlog = [i \in Slots |-> Zero]
  /\ dhead = <<>>
  /\ cache = [b \in Blocks |-> NotCached]
  /\ pin = [b \in Blocks |-> 0]
  /\ lh = <<>>
  /\ outstanding = 0
  /\ committing = FALSE
  /\ sleeping = {}
  /\ pc = [p \in Procs |-> "idle"]
  /\ held = [p \in Procs |-> NoBlock]
  /\ wrote = [p \in Procs |-> {}]
  /\ tail = 0
  /\ mode = "read_head"
  /\ panicked = {}

-----------------------------------------------------------------------------
(* Buffers, as the file system uses them inside and outside transactions.  *)

\* bread(b): wait for the buffer's sleep-lock, read the block if needed.
Bread(p, b) ==
  /\ mode = "up"
  /\ pc[p] \in {"idle", "op"}
  /\ p \notin sleeping \cup panicked
  /\ held[p] = NoBlock
  /\ ~Locked(b)
  /\ held' = [held EXCEPT ![p] = b]
  /\ cache' = [cache EXCEPT ![b] = Contents(b)]
  /\ UNCHANGED <<disk, pin, lh, state, procs, tail, mode, panicked>>

Brelse(p) ==
  /\ mode = "up"
  /\ pc[p] \in {"idle", "op"}
  /\ p \notin panicked
  /\ held[p] # NoBlock
  /\ held' = [held EXCEPT ![p] = NoBlock]
  /\ UNCHANGED <<disk, cache, pin, lh, state, procs, tail, mode, panicked>>

\* bget() recycles a buffer nobody refers to; its contents are dropped.
Evict(b) ==
  /\ mode = "up"
  /\ cache[b] # NotCached
  /\ Unreferenced(b)
  /\ cache' = [cache EXCEPT ![b] = NotCached]
  /\ UNCHANGED <<disk, pin, lh, state, procs, held, tail, mode, panicked>>

-----------------------------------------------------------------------------
(* System calls.                                                           *)

BeginOpEnter(p) ==
  /\ mode = "up"
  /\ panicked = {}
  /\ pc[p] = "idle"
  /\ held[p] = NoBlock
  /\ p \notin sleeping
  /\ ~committing
  /\ SpaceForOp
  /\ outstanding' = outstanding + 1
  /\ pc' = [pc EXCEPT ![p] = "op"]
  /\ wrote' = [wrote EXCEPT ![p] = {}]
  /\ UNCHANGED <<disk, bufs, lh, committing, sleeping, tail, mode, panicked>>

BeginOpSleep(p) ==
  /\ mode = "up"
  /\ panicked = {}
  /\ pc[p] = "idle"
  /\ held[p] = NoBlock
  /\ p \notin sleeping
  /\ committing \/ ~SpaceForOp
  /\ sleeping' = sleeping \cup {p}
  /\ UNCHANGED <<disk, bufs, lh, state, pc, wrote, tail, mode, panicked>>

\* kill() makes a sleeping process runnable; begin_op() tests again.
Kill(p) ==
  /\ mode = "up"
  /\ p \in sleeping
  /\ sleeping' = sleeping \ {p}
  /\ UNCHANGED <<disk, bufs, lh, state, pc, wrote, tail, mode, panicked>>

\* The caller has changed the locked buffer's data to v and logs it.
LogWrite(p, v) ==
  LET b == held[p] IN
  /\ mode = "up"
  /\ panicked = {}
  /\ pc[p] = "op"
  /\ b # NoBlock
  /\ Cardinality(wrote[p] \cup {b}) <= MAXOPBLOCKS
  /\ cache' = [cache EXCEPT ![b] = v]
  /\ IF Len(lh) >= LOGSIZE \/ Len(lh) >= nlog - 1 \/ outstanding < 1
     THEN /\ panicked' = {p}
          /\ UNCHANGED <<lh, pin, wrote>>
     ELSE /\ lh' = IF InLog(b) THEN lh ELSE Append(lh, b)
          /\ pin' = IF InLog(b) THEN pin ELSE Bpin(b)
          /\ wrote' = [wrote EXCEPT ![p] = @ \cup {b}]
          /\ UNCHANGED panicked
  /\ UNCHANGED <<disk, state, sleeping, pc, held, tail, mode>>

EndOp(p) ==
  /\ mode = "up"
  /\ panicked = {}
  /\ pc[p] = "op"
  /\ held[p] = NoBlock
  /\ outstanding' = outstanding - 1
  /\ IF committing
     THEN /\ panicked' = {p}
          /\ UNCHANGED <<committing, sleeping, pc, tail>>
     ELSE /\ IF outstanding = 1
             THEN /\ committing' = TRUE
                  /\ pc' = [pc EXCEPT ![p] = CommitStart]
                  /\ tail' = 0
                  /\ UNCHANGED sleeping
             ELSE /\ sleeping' = WakeupLog
                  /\ pc' = [pc EXCEPT ![p] = "idle"]
                  /\ UNCHANGED <<committing, tail>>
          /\ UNCHANGED panicked
  /\ UNCHANGED <<disk, bufs, lh, wrote, mode>>

-----------------------------------------------------------------------------
(* The commit, run by the process whose end_op() found no other call.      *)

\* write_log(): copy cached block lh[tail] to the log block, start writing.
WriteLog(p) ==
  LET b == lh[tail + 1] IN
  /\ mode = "up"
  /\ pc[p] = "write_log"
  /\ ~Locked(b)
  /\ held' = [held EXCEPT ![p] = b]
  /\ cache' = [cache EXCEPT ![b] = Contents(b)]
  /\ dlog' = [dlog EXCEPT ![tail + 1] = Torn]
  /\ pc' = [pc EXCEPT ![p] = "write_log_io"]
  /\ UNCHANGED <<home, dhead, pin, lh, state, sleeping, wrote, tail, mode,
                 panicked>>

WriteLogDone(p) ==
  /\ mode = "up"
  /\ pc[p] = "write_log_io"
  /\ dlog' = [dlog EXCEPT ![tail + 1] = cache[held[p]]]
  /\ held' = [held EXCEPT ![p] = NoBlock]
  /\ IF MoreBlocks
     THEN /\ tail' = NextTail
          /\ pc' = [pc EXCEPT ![p] = "write_log"]
     ELSE /\ tail' = 0
          /\ pc' = [pc EXCEPT ![p] = "commit_head"]
  /\ UNCHANGED <<home, dhead, cache, pin, lh, state, sleeping, wrote, mode,
                 panicked>>

\* write_head() with the full header: the commit point.
WriteHead(p) ==
  /\ mode = "up"
  /\ pc[p] = "commit_head"
  /\ dhead' = lh
  /\ pc' = [pc EXCEPT ![p] = "install"]
  /\ UNCHANGED <<home, dlog, bufs, lh, state, sleeping, wrote, tail, mode,
                 panicked>>

\* install_trans(0): copy log block tail to its home, start writing it.
InstallTrans(p) ==
  LET b == lh[tail + 1] IN
  /\ mode = "up"
  /\ pc[p] = "install"
  /\ ~Locked(b)
  /\ held' = [held EXCEPT ![p] = b]
  /\ cache' = [cache EXCEPT ![b] = dlog[tail + 1]]
  /\ home' = [home EXCEPT ![b] = Torn]
  /\ pc' = [pc EXCEPT ![p] = "install_io"]
  /\ UNCHANGED <<dlog, dhead, pin, lh, state, sleeping, wrote, tail, mode,
                 panicked>>

InstallTransDone(p) ==
  LET b == held[p] IN
  /\ mode = "up"
  /\ pc[p] = "install_io"
  /\ home' = [home EXCEPT ![b] = cache[b]]
  /\ pin' = [pin EXCEPT ![b] = @ - 1]
  /\ held' = [held EXCEPT ![p] = NoBlock]
  /\ IF MoreBlocks
     THEN /\ tail' = NextTail
          /\ pc' = [pc EXCEPT ![p] = "install"]
     ELSE /\ tail' = 0
          /\ pc' = [pc EXCEPT ![p] = "clear_head"]
  /\ UNCHANGED <<dlog, dhead, cache, lh, state, sleeping, wrote, mode,
                 panicked>>

\* log.lh.n = 0; write_head(): erase the transaction from the log.
ClearHead(p) ==
  /\ mode = "up"
  /\ pc[p] = "clear_head"
  /\ lh' = <<>>
  /\ dhead' = <<>>
  /\ pc' = [pc EXCEPT ![p] = "end_commit"]
  /\ UNCHANGED <<home, dlog, bufs, state, sleeping, wrote, tail, mode,
                 panicked>>

EndCommit(p) ==
  /\ mode = "up"
  /\ panicked = {}
  /\ pc[p] = "end_commit"
  /\ committing' = FALSE
  /\ sleeping' = WakeupLog
  /\ pc' = [pc EXCEPT ![p] = "idle"]
  /\ UNCHANGED <<disk, bufs, lh, outstanding, wrote, tail, mode, panicked>>

-----------------------------------------------------------------------------
(* Crash, and recovery at the next boot by the first process, before any   *)
(* other process exists (proc.c:531-540).                                  *)

\* Power fails or the machine is reset: only the disk keeps its contents.
Crash ==
  /\ cache' = [b \in Blocks |-> NotCached]
  /\ pin' = [b \in Blocks |-> 0]
  /\ lh' = <<>>
  /\ outstanding' = 0
  /\ committing' = FALSE
  /\ sleeping' = {}
  /\ pc' = [p \in Procs |-> "idle"]
  /\ held' = [p \in Procs |-> NoBlock]
  /\ wrote' = [p \in Procs |-> {}]
  /\ tail' = 0
  /\ mode' = "read_head"
  /\ panicked' = {}
  /\ UNCHANGED disk

ReadHead ==
  /\ mode = "read_head"
  /\ lh' = dhead
  /\ tail' = 0
  /\ mode' = IF dhead = <<>> THEN "recover_clear" ELSE "recover"
  /\ UNCHANGED <<disk, bufs, state, procs, panicked>>

\* install_trans(1): as in a commit, but no buffer is pinned.
Recover ==
  LET b == lh[tail + 1] IN
  /\ mode = "recover"
  /\ cache' = [cache EXCEPT ![b] = dlog[tail + 1]]
  /\ home' = [home EXCEPT ![b] = Torn]
  /\ mode' = "recover_io"
  /\ UNCHANGED <<dlog, dhead, pin, held, lh, state, procs, tail, panicked>>

RecoverDone ==
  LET b == lh[tail + 1] IN
  /\ mode = "recover_io"
  /\ home' = [home EXCEPT ![b] = cache[b]]
  /\ IF MoreBlocks
     THEN /\ tail' = RecoverTail
          /\ mode' = "recover"
     ELSE /\ tail' = 0
          /\ mode' = "recover_clear"
  /\ UNCHANGED <<dlog, dhead, bufs, lh, state, procs, panicked>>

RecoverClear ==
  /\ mode = "recover_clear"
  /\ lh' = <<>>
  /\ dhead' = <<>>
  /\ mode' = "up"
  /\ UNCHANGED <<home, dlog, bufs, state, procs, tail, panicked>>

-----------------------------------------------------------------------------
CommitStep(p) ==
  \/ WriteLog(p) \/ WriteLogDone(p) \/ WriteHead(p)
  \/ InstallTrans(p) \/ InstallTransDone(p) \/ ClearHead(p) \/ EndCommit(p)

RecoverStep == ReadHead \/ Recover \/ RecoverDone \/ RecoverClear

Next ==
  \/ \E p \in Procs :
       \/ \E b \in Blocks : Bread(p, b)
       \/ \E v \in Vals : LogWrite(p, v)
       \/ Brelse(p)
       \/ BeginOpEnter(p) \/ BeginOpSleep(p) \/ Kill(p) \/ EndOp(p)
       \/ CommitStep(p)
  \/ \E b \in Blocks : Evict(b)
  \/ RecoverStep
  \/ Crash

Spec == Init /\ [][Next]_vars

\* A process in the kernel is scheduled again and again (timer interrupts,
\* scheduler()), disk requests complete, a system call reaches its end_op()
\* after finitely many buffers, and recovery runs.  Crashes and evictions
\* owe nobody anything, and nobody is obliged to start a system call.
Fairness ==
  /\ \A p \in Procs : /\ SF_vars(CommitStep(p))
                      /\ SF_vars(EndOp(p))
                      /\ WF_vars(Brelse(p))
  /\ WF_vars(RecoverStep)

FairSpec == Spec /\ Fairness

-----------------------------------------------------------------------------
(* Properties.                                                             *)

\* Every variable keeps its type.  In particular the log never has more
\* blocks than the disk region behind its header: block nlog of the region
\* would be the first inode block (mkfs.c: inodestart = 2 + nlog).
TypeOK ==
  /\ home \in [Blocks -> Vals \cup {Torn}]
  /\ dlog \in [Slots -> Vals \cup {Torn}]
  /\ dhead \in Seq(Blocks)
  /\ cache \in [Blocks -> Vals \cup {NotCached}]
  /\ pin \in [Blocks -> {0, 1}]
  /\ lh \in Seq(Blocks) /\ Len(lh) <= nlog - 1 /\ Len(lh) <= LOGSIZE
  /\ outstanding \in Nat
  /\ committing \in BOOLEAN
  /\ sleeping \subseteq Procs
  /\ pc \in [Procs -> PCs]
  /\ held \in [Procs -> Blocks \cup {NoBlock}]
  /\ wrote \in [Procs -> SUBSET Blocks]
  /\ tail \in Nat
  /\ mode \in Modes
  /\ panicked \subseteq Procs

\* The contents a crash and a complete recovery would leave: the log's copy
\* of a block the header names, the home location of any other.
DurableView == [b \in Blocks |->
  IF \E i \in 1..Len(dhead) : dhead[i] = b
  THEN dlog[CHOOSE i \in 1..Len(dhead) : dhead[i] = b]
  ELSE home[b]]

\* The contents system calls see.
CurrentView == [b \in Blocks |->
  IF mode = "up" THEN Contents(b) ELSE DurableView[b]]

InOp == {p \in Procs : pc[p] = "op"}

AD == INSTANCE AtomicDisk WITH
        durable <- DurableView, current <- CurrentView, active <- InOp

\* The log implements the atomic disk: through crashes at any step of the
\* commit and of the recovery itself, and with half-written blocks, what is
\* durable is always the state after a whole number of system calls.
RefinesAtomicDisk == AD!Spec

\* A buffer that bget() may recycle has the contents of its home block: no
\* update is lost when its buffer goes, before, during or after a commit.
RecyclableIsClean ==
  \A b \in Blocks :
    mode = "up" /\ cache[b] # NotCached /\ Unreferenced(b)
      => cache[b] = home[b]

\* When no system call runs and none is committing, every update is in its
\* home block and the header is empty: end_op() of the last call returned
\* only after its transaction was on the disk and erased from the log.
QuiescentIsDurable ==
  mode = "up" /\ ~committing /\ outstanding = 0
    => /\ dhead = <<>> /\ lh = <<>>
       /\ \A b \in Blocks : Contents(b) = home[b] /\ pin[b] = 0

\* The blocks that running system calls may still log, one token for each.
Reserved == {t \in InOp \X (1..MAXOPBLOCKS) :
               t[2] > Cardinality(wrote[t[1]])}

\* begin_op() keeps room in the header for every block that a running call
\* may still log: admission control is by outstanding calls, the space is
\* taken by log_write() of all of them in any order.
LogSpaceReserved == Len(lh) + Cardinality(Reserved) <= LOGSIZE

\* Whoever sleeps in begin_op() has somebody to wake it: a running system
\* call whose end_op(), or a commit whose end, calls wakeup(&log).
SleeperHasWaker == sleeping # {} => committing \/ outstanding > 0

\* log_write() does not run out of log for calls that log no more than
\* MAXOPBLOCKS distinct blocks each.
NoPanic == panicked = {}

\* A process asleep in begin_op() is woken, unless the kernel panics.
SleepersWake ==
  \A p \in Procs : p \in sleeping ~> (p \notin sleeping \/ panicked # {})

\* A commit ends and its end_op() returns (or the machine crashes).
CommitsEnd ==
  \A p \in Procs : pc[p] \in CommitPCs ~> pc[p] = "idle"

\* If the machine stops crashing, recovery completes, even after crashes in
\* the middle of earlier recoveries.
RecoveryEnds == <>[][~Crash]_vars => (mode # "up" ~> mode = "up")
=============================================================================
