------------------------------- MODULE LogInv -------------------------------
(***************************************************************************)
(* The inductive invariant behind the theorems about Log, in layers: who   *)
(* is where, which blocks are logged and pinned, and what the cache, the   *)
(* log and the home blocks hold at each point of a commit and a recovery.  *)
(***************************************************************************)
EXTENDS Log

Types ==
  /\ home \in [Blocks -> Vals \cup {Torn}]
  /\ dlog \in [Slots -> Vals \cup {Torn}]
  /\ dhead \in Seq(Blocks)
  /\ cache \in [Blocks -> Vals \cup {Torn, NotCached}]
  /\ pin \in [Blocks -> Int]
  /\ lh \in Seq(Blocks)
  /\ outstanding \in Int
  /\ committing \in BOOLEAN
  /\ sleeping \subseteq Procs
  /\ pc \in [Procs -> PCs]
  /\ held \in [Procs -> Blocks \cup {NoBlock}]
  /\ wrote \in [Procs -> SUBSET Blocks]
  /\ tail \in Nat
  /\ mode \in Modes
  /\ panicked \subseteq Procs

Committers == {p \in Procs : pc[p] \in CommitPCs}

\* Who is where: one committer at most, and then no system call is running;
\* nothing but recovery runs before the machine is up.
ControlInv ==
  /\ outstanding = Cardinality(InOp)
  /\ \A p, q \in Committers : p = q
  /\ committing <=> Committers # {}
  /\ committing => InOp = {}
  /\ panicked # {} => InOp # {}
  /\ panicked \subseteq InOp
  /\ \A p \in sleeping : pc[p] = "idle" /\ held[p] = NoBlock
  /\ sleeping # {} => committing \/ InOp # {}
  /\ mode # "up" => /\ \A p \in Procs : pc[p] = "idle" /\ held[p] = NoBlock
                    /\ sleeping = {}
                    /\ \A b \in Blocks : pin[b] = 0

\* Sleep-locks exclude each other, and the committer holds the one of the
\* block it is copying.
LockInv ==
  /\ \A p, q \in Procs : held[p] = held[q] /\ held[p] # NoBlock => p = q
  /\ \A p \in Procs : held[p] # NoBlock => cache[held[p]] # NotCached
  /\ \A p \in Committers :
       IF pc[p] \in {"write_log_io", "install_io"}
       THEN held[p] = lh[tail + 1] ELSE held[p] = NoBlock

NoRepeat(s) == \A i, j \in 1..Len(s) : s[i] = s[j] => i = j

\* The lists of block numbers: within the log, without repetition, and the
\* one on disk is the one in memory while a commit or recovery applies it.
HeadInv ==
  /\ NoRepeat(lh) /\ NoRepeat(dhead)
  /\ Len(lh) <= nlog - 1 /\ Len(lh) <= LOGSIZE
  /\ Len(dhead) <= nlog - 1 /\ Len(dhead) <= LOGSIZE
  /\ \A i \in 1..Len(dhead) : dlog[i] \in Vals
  /\ mode = "read_head" => lh = <<>>
  /\ mode \in {"recover", "recover_io", "recover_clear"} => lh = dhead
  /\ mode \in {"recover", "recover_io"} => tail < Len(lh)
  /\ mode = "up" /\ Committers = {} => dhead = <<>>
  /\ mode = "up" /\ Committers = {} /\ InOp = {} => lh = <<>>
  /\ \A p \in Committers :
       /\ pc[p] \in {"write_log", "write_log_io", "commit_head"}
            => dhead = <<>> /\ lh # <<>>
       /\ pc[p] \in {"install", "install_io", "clear_head"} => dhead = lh
       /\ pc[p] \in {"write_log", "write_log_io", "install", "install_io"}
            => tail < Len(lh)
       /\ pc[p] = "commit_head" => tail = 0
       /\ pc[p] = "end_commit" => dhead = <<>> /\ lh = <<>>
  /\ \A p \in InOp : \A b \in wrote[p] : InLog(b)

\* Position i of the log still has to be copied to its home block.
ToInstall(i) ==
  \A p \in Committers :
    /\ pc[p] \in {"install", "install_io"} => i > tail
    /\ pc[p] # "clear_head"

\* A block is pinned from log_write() until install_trans() is done with it.
PinInv ==
  mode = "up" =>
    \A b \in Blocks :
      /\ pin[b] \in {0, 1}
      /\ pin[b] = 1 <=> \E i \in 1..Len(lh) : lh[i] = b /\ ToInstall(i)
      /\ pin[b] = 1 => cache[b] # NotCached

\* A buffer that is not pinned equals its home block (but for one that a
\* panicked process has changed and never releases), and only blocks that the
\* header on disk names can be half written.
CleanInv ==
  /\ \A b \in Blocks : cache[b] # Torn
  /\ \A b \in Blocks : home[b] = Torn => \E i \in 1..Len(dhead) : dhead[i] = b
  /\ mode = "up" => \A b \in Blocks :
       /\ home[b] = Torn => pin[b] = 1
       /\ cache[b] # NotCached /\ pin[b] = 0
            /\ (\A p \in panicked : held[p] # b) => cache[b] = home[b]

\* The log blocks that a commit has copied equal their buffers.
CopyInv ==
  \A p \in Committers :
    /\ pc[p] \in {"write_log", "write_log_io"} =>
         \A i \in 1..tail : dlog[i] = cache[lh[i]]
    /\ pc[p] \in {"commit_head", "install", "install_io", "clear_head"} =>
         \A i \in 1..Len(lh) : dlog[i] = Contents(lh[i])

\* The home blocks that a recovery has installed equal their log blocks, and
\* what it has left in the cache is right.
RecoverInv ==
  /\ mode = "read_head" => \A b \in Blocks : cache[b] = NotCached
  /\ mode \in {"recover", "recover_io"} =>
       /\ \A i \in 1..tail : home[lh[i]] = dlog[i]
       /\ \A b \in Blocks : cache[b] # NotCached =>
            \E i \in 1..(IF mode = "recover" THEN tail ELSE tail + 1) :
              lh[i] = b /\ cache[b] = dlog[i]
  /\ mode = "recover_io" => cache[lh[tail + 1]] = dlog[tail + 1]
  /\ mode = "recover_clear" =>
       /\ \A i \in 1..Len(lh) : home[lh[i]] = dlog[i]
       /\ \A b \in Blocks : cache[b] # NotCached => cache[b] = home[b]

IInv == /\ Types /\ ControlInv /\ LockInv /\ HeadInv /\ PinInv
        /\ CleanInv /\ CopyInv /\ RecoverInv

\* The reservation: no call has logged more blocks than it may, and the log
\* has room for all it may still log.
SpaceInv ==
  /\ \A p \in InOp : IsFiniteSet(wrote[p]) /\ Cardinality(wrote[p]) <= MAXOPBLOCKS
  /\ LogSpaceReserved
=============================================================================
