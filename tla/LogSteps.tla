------------------------------ MODULE LogSteps ------------------------------
(***************************************************************************)
(* Every action of the redo log keeps its invariant, and the invariant     *)
(* holds at the start.                                                     *)
(*                                                                         *)
(* There is one lemma per action, with one step per conjunct of IInv.  A   *)
(* lemma first collects what the action does, and what IInv says at its    *)
(* program counter; the steps that follow rest on these facts.             *)
(*                                                                         *)
(* What the lemmas need of the cardinality of a set of processes is their  *)
(* hypothesis ProcsCount; LogProofs proves it.                             *)
(***************************************************************************)
EXTENDS LogInv, TLAPS

USE LogAssumption DEF Slots, PCs, CommitPCs, Modes, disk, bufs, procs, state

\* Sets of processes can be counted one by one, as log.outstanding does.
ProcsCount ==
  /\ Cardinality({}) = 0
  /\ \A S \in SUBSET Procs : Cardinality(S) \in Nat
  /\ \A S \in SUBSET Procs : Cardinality(S) = 0 => S = {}
  /\ \A S \in SUBSET Procs, p \in Procs :
       p \notin S => Cardinality(S \cup {p}) = Cardinality(S) + 1

-----------------------------------------------------------------------------
(* Sequences without repetition.                                           *)

\* What Append returns: the header of the log after log_write() is the one
\* before with a block at its end.
LEMMA AppendIs ==
  ASSUME NEW S, NEW s \in Seq(S), NEW e \in S
  PROVE  /\ Len(s) \in Nat /\ Len(Append(s, e)) = Len(s) + 1
         /\ Append(s, e)[Len(s) + 1] = e
         /\ \A i \in 1..Len(s) : Append(s, e)[i] = s[i]
<1>1. Len(s) \in Nat
  OBVIOUS
<1>2. Len(Append(s, e)) = Len(s) + 1
  OBVIOUS
<1>3. Append(s, e)[Len(s) + 1] = e
  OBVIOUS
<1>4. \A i \in 1..Len(s) : Append(s, e)[i] = s[i]
  OBVIOUS
<1> QED
  BY Zenon, <1>1, <1>2, <1>3, <1>4

\* Appending an element a sequence does not have introduces no repetition:
\* log_write() adds a block to the header only if the header lacks it.
LEMMA AppendNoRepeat ==
  ASSUME NEW S, NEW s \in Seq(S), NEW e \in S, NoRepeat(s),
         \A i \in 1..Len(s) : s[i] # e
  PROVE  NoRepeat(Append(s, e))
<1> DEFINE t == Append(s, e)
<1>1. /\ Len(s) \in Nat /\ Len(t) = Len(s) + 1 /\ t[Len(s) + 1] = e
      /\ \A i \in 1..Len(s) : t[i] = s[i]
  BY AppendIs
<1> SUFFICES ASSUME NEW i \in 1..Len(t), NEW j \in 1..Len(t), t[i] = t[j]
             PROVE  i = j
  BY Zenon DEF NoRepeat
<1> HIDE DEF t
<1>2. i \in 1..Len(s) \/ i = Len(s) + 1
  BY <1>1
<1>3. j \in 1..Len(s) \/ j = Len(s) + 1
  BY <1>1
<1> QED
  BY Zenon, <1>1, <1>2, <1>3 DEF NoRepeat

\* One more block: log_write() extends the header, install_trans() moves on.
LEMMA OneMore ==
  ASSUME NEW n \in Nat
  PROVE  /\ n + 1 \in 1..(n + 1)
         /\ \A i \in 1..n : i \in 1..(n + 1)
         /\ \A i \in 1..(n + 1) : i \in 1..n \/ i = n + 1
  OBVIOUS

-----------------------------------------------------------------------------
(* Facts that several actions share.                                       *)

\* Before the header is written every logged block is pinned and cached, so
\* write_log() copies what the system calls wrote.
LEMMA NothingInstalled ==
  ASSUME IInv, NEW q \in Committers,
         pc[q] \in {"write_log", "write_log_io", "commit_head"}
  PROVE  /\ mode = "up"
         /\ \A i : ToInstall(i)
         /\ \A i \in 1..Len(lh) : /\ lh[i] \in Blocks /\ pin[lh[i]] = 1
                                  /\ cache[lh[i]] # NotCached
<1>1. mode = "up"
  BY Zenon DEF IInv, ControlInv, Committers
<1>2. \A i : ToInstall(i)
  BY Zenon DEF IInv, ControlInv, ToInstall, Committers
<1>3. \A i \in 1..Len(lh) : lh[i] \in Blocks
  BY DEF IInv, Types
<1> QED
  BY Zenon, <1>1, <1>2, <1>3 DEF IInv, PinInv

\* At install_trans() block tail is pinned, cached and equal to its log
\* block; at the end of its write the committer holds its lock.
LEMMA Installing ==
  ASSUME IInv, NEW p \in Committers, pc[p] \in {"install", "install_io"}
  PROVE  LET b == lh[tail + 1] IN
         /\ tail + 1 \in 1..Len(lh) /\ tail + 1 \in 1..(nlog - 1)
         /\ dhead = lh
         /\ b \in Blocks /\ pin[b] = 1 /\ cache[b] # NotCached
         /\ cache[b] # Torn /\ dlog[tail + 1] = cache[b]
         /\ pc[p] = "install_io" => held[p] = b
<1> DEFINE b == lh[tail + 1]
<1>1. /\ tail + 1 \in 1..Len(lh) /\ Len(lh) <= nlog - 1
      /\ dhead = lh /\ b \in Blocks
  BY DEF IInv, Types, HeadInv
<1>2. mode = "up" /\ ToInstall(tail + 1)
  BY DEF IInv, Types, ControlInv, ToInstall, Committers
<1>3. pin[b] = 1 /\ cache[b] # NotCached
  BY Zenon, <1>1, <1>2 DEF IInv, PinInv
<1>4. dlog[tail + 1] = cache[b] /\ cache[b] # Torn
  BY Zenon, <1>1, <1>3 DEF IInv, CleanInv, CopyInv, Contents
<1>5. pc[p] = "install_io" => held[p] = b
  BY Zenon DEF IInv, LockInv
<1>6. Len(lh) \in Nat
  BY DEF IInv, Types
<1> QED
  BY <1>1, <1>3, <1>4, <1>5, <1>6

\* A step of the committer is a step of the only one there is, while no
\* system call runs.
LEMMA OnlyCommitter ==
  ASSUME IInv, NEW p \in Committers, NEW l, pc' = [pc EXCEPT ![p] = l]
  PROVE  /\ p \in Procs /\ Committers = {p} /\ InOp = {}
         /\ mode = "up" /\ committing /\ panicked = {}
         /\ p \notin sleeping
         /\ pc'[p] = l
         /\ \A q \in Procs : q # p => pc'[q] = pc[q]
         /\ l \in CommitPCs => Committers' = {p} /\ InOp' = {}
<1>1. p \in Procs /\ pc[p] \in CommitPCs
  BY Zenon DEF Committers
<1>2. Committers = {p} /\ p \notin sleeping
  BY Zenon, <1>1 DEF IInv, ControlInv
<1>3. committing /\ InOp = {} /\ panicked = {}
  BY Zenon, <1>2 DEF IInv, ControlInv
<1>4. mode = "up"
  BY Zenon, <1>1 DEF IInv, ControlInv
<1>6. pc'[p] = l /\ \A q \in Procs : q # p => pc'[q] = pc[q]
  BY Zenon, <1>1 DEF IInv, Types
<1>7. ASSUME l \in CommitPCs PROVE Committers' = {p}
  BY Zenon, <1>1, <1>2, <1>6, <1>7 DEF Committers
<1>8. ASSUME l \in CommitPCs PROVE InOp' = {}
  BY Zenon, <1>3, <1>6, <1>8 DEF InOp
<1> QED
  BY Zenon, <1>1, <1>2, <1>3, <1>4, <1>6, <1>7, <1>8

\* Before the machine is up only the recovery runs.
LEMMA NobodyRuns ==
  ASSUME IInv, mode # "up", UNCHANGED procs
  PROVE  Committers = {} /\ InOp = {} /\ Committers' = {} /\ InOp' = {}
  BY Zenon DEF IInv, ControlInv, Committers, InOp

\* install_trans(1) works on a block of the header with a good log copy.
LEMMA Recovering ==
  ASSUME IInv, mode \in {"recover", "recover_io"}
  PROVE  /\ tail + 1 \in 1..Len(lh) /\ tail + 1 \in 1..(nlog - 1)
         /\ lh = dhead /\ lh[tail + 1] \in Blocks
         /\ dlog[tail + 1] \in Vals
<1>1. tail + 1 \in 1..Len(lh) /\ lh = dhead
  BY DEF IInv, Types, HeadInv
<1> QED
  BY <1>1 DEF IInv, Types, HeadInv

-----------------------------------------------------------------------------
(* The steps of the system calls.                                          *)

\* bread(): a block that is not cached is clean, so what is read is right.
LEMMA BreadIInv ==
  ASSUME IInv, NEW p \in Procs, NEW b \in Blocks, Bread(p, b)
  PROVE  IInv'
<1>0. /\ Types /\ ControlInv /\ LockInv /\ HeadInv /\ PinInv
      /\ CleanInv /\ CopyInv /\ RecoverInv
  BY Zenon DEF IInv
<1> USE <1>0 DEF Types
<1>a. p \notin Committers /\ Committers' = Committers /\ InOp' = InOp
  BY Zenon DEF Bread, Committers, InOp
<1>b. home[b] = Torn => cache[b] # NotCached
  BY Zenon DEF Bread, PinInv, CleanInv
<1>c. held[p] = NoBlock /\ \A q \in Procs : held[q] # b
  BY Zenon DEF Bread, Locked
<1>d. \A c \in Blocks :
        /\ cache'[c] # Torn
        /\ cache[c] # NotCached => cache'[c] = cache[c]
        /\ cache'[c] # cache[c] => /\ c = b /\ cache[b] = NotCached
                                   /\ cache'[c] = home[c]
  BY Zenon, <1>b DEF Bread, Contents, CleanInv
<1>1. Types'
  BY Zenon DEF Bread, Contents
<1>2. ControlInv'
  BY Zenon, <1>a DEF Bread, ControlInv
<1>3. LockInv'
  <2>1. \A q, r \in Procs : held'[q] = held'[r] /\ held'[q] # NoBlock => q = r
    BY Zenon, <1>c DEF Bread, LockInv
  <2>2. \A q \in Procs : held'[q] # NoBlock => cache'[held'[q]] # NotCached
    BY <1>b DEF Bread, LockInv, Contents
  <2>3. \A q \in Committers : held'[q] = held[q]
    BY Zenon, <1>a DEF Bread, Committers
  <2>4. UNCHANGED <<lh, tail, pc>>
    BY Zenon DEF Bread
  <2> QED
    BY Zenon, <1>a, <2>1, <2>2, <2>3, <2>4 DEF LockInv
<1>4. HeadInv'
  BY Zenon, <1>a DEF Bread, HeadInv, InLog
<1>5. PinInv'
  BY <1>a, <1>d DEF Bread, PinInv, ToInstall
<1>6. CleanInv'
  <2>1. \A q \in panicked : held'[q] = held[q]
    BY Zenon DEF Bread
  <2>2. UNCHANGED <<home, dhead, pin, mode, panicked>>
    BY Zenon DEF Bread
  <2>3. ASSUME NEW c \in Blocks, mode = "up", cache'[c] # NotCached,
               pin[c] = 0, \A q \in panicked : held[q] # c
        PROVE  cache'[c] = home[c]
    BY Zenon, <1>d, <2>3 DEF CleanInv
  <2>4. /\ \A c \in Blocks : home[c] = Torn => \E i \in 1..Len(dhead) : dhead[i] = c
        /\ mode = "up" => \A c \in Blocks : home[c] = Torn => pin[c] = 1
    BY Zenon DEF CleanInv
  <2>5. ASSUME NEW c \in Blocks, mode' = "up"
        PROVE  /\ home'[c] = Torn => pin'[c] = 1
               /\ cache'[c] # NotCached /\ pin'[c] = 0
                    /\ (\A q \in panicked' : held'[q] # c) => cache'[c] = home'[c]
    BY Zenon, <2>1, <2>2, <2>3, <2>4, <2>5
  <2>6. \A c \in Blocks : cache'[c] # Torn
    BY Zenon, <1>d
  <2> QED
    BY Zenon, <2>2, <2>4, <2>5, <2>6 DEF CleanInv
<1>7. CopyInv'
  <2>1. \A i \in 1..Len(lh) : Contents(lh[i])' = Contents(lh[i])
    BY <1>d DEF Bread, Contents
  <2>2. ASSUME NEW q \in Committers, pc[q] \in {"write_log", "write_log_io"}
        PROVE  \A i \in 1..tail : cache'[lh[i]] = cache[lh[i]]
    <3>1. tail < Len(lh) /\ Len(lh) \in Nat
      BY <2>2 DEF HeadInv
    <3>2. \A i \in 1..Len(lh) : lh[i] \in Blocks /\ cache[lh[i]] # NotCached
      BY Zenon, <2>2, NothingInstalled
    <3> QED
      BY <1>d, <3>1, <3>2
  <2>3. UNCHANGED <<lh, tail, pc, dlog>>
    BY Zenon DEF Bread
  <2>4. ASSUME NEW q \in Committers, pc[q] \in {"write_log", "write_log_io"}
        PROVE  \A i \in 1..tail : dlog[i] = cache'[lh[i]]
    BY Zenon, <2>2, <2>4 DEF CopyInv
  <2>5. ASSUME NEW q \in Committers,
               pc[q] \in {"commit_head", "install", "install_io", "clear_head"}
        PROVE  \A i \in 1..Len(lh) : dlog[i] = Contents(lh[i])'
    BY Zenon, <2>1, <2>5 DEF CopyInv
  <2> QED
    BY Zenon, <1>a, <2>3, <2>4, <2>5 DEF CopyInv
<1>8. RecoverInv'
  BY Zenon DEF Bread, RecoverInv
<1> QED
  BY Zenon, <1>1, <1>2, <1>3, <1>4, <1>5, <1>6, <1>7, <1>8 DEF IInv

\* brelse(): the buffer is clean, or pinned.
LEMMA BrelseIInv ==
  ASSUME IInv, NEW p \in Procs, Brelse(p)
  PROVE  IInv'
<1>0. /\ Types /\ ControlInv /\ LockInv /\ HeadInv /\ PinInv
      /\ CleanInv /\ CopyInv /\ RecoverInv
  BY Zenon DEF IInv
<1> USE <1>0 DEF Types
<1>a. p \notin Committers /\ Committers' = Committers /\ InOp' = InOp
  BY Zenon DEF Brelse, Committers, InOp
<1>1. Types'
  BY Zenon DEF Brelse
<1>2. ControlInv'
  BY Zenon, <1>a DEF Brelse, ControlInv
<1>3. LockInv'
  BY Zenon, <1>a DEF Brelse, LockInv, Committers
<1>4. HeadInv'
  BY Zenon, <1>a DEF Brelse, HeadInv, InLog
<1>5. PinInv'
  BY <1>a DEF Brelse, PinInv, ToInstall
<1>6. CleanInv'
  <2>1. /\ UNCHANGED <<home, dhead, cache, pin, mode, panicked>>
        /\ \A q \in panicked : held'[q] = held[q]
    BY Zenon DEF Brelse
  <2>2. ASSUME NEW c \in Blocks, mode = "up"
        PROVE  /\ home[c] = Torn => pin[c] = 1
               /\ cache[c] # NotCached /\ pin[c] = 0
                    /\ (\A q \in panicked : held'[q] # c) => cache[c] = home[c]
    BY ZenonT(60), <2>1, <2>2 DEF CleanInv
  <2>3. /\ \A c \in Blocks : cache[c] # Torn
        /\ \A c \in Blocks : home[c] = Torn => \E i \in 1..Len(dhead) : dhead[i] = c
    BY Zenon DEF CleanInv
  <2> QED
    BY Zenon, <2>1, <2>2, <2>3 DEF CleanInv
<1>7. CopyInv'
  BY Zenon, <1>a DEF Brelse, CopyInv, Contents
<1>8. RecoverInv'
  BY Zenon DEF Brelse, RecoverInv
<1> QED
  BY Zenon, <1>1, <1>2, <1>3, <1>4, <1>5, <1>6, <1>7, <1>8 DEF IInv

\* Recycling drops only contents that the home block has too.
LEMMA EvictIInv ==
  ASSUME IInv, NEW b \in Blocks, Evict(b)
  PROVE  IInv'
<1>0. /\ Types /\ ControlInv /\ LockInv /\ HeadInv /\ PinInv
      /\ CleanInv /\ CopyInv /\ RecoverInv
  BY Zenon DEF IInv
<1> USE <1>0 DEF Types
<1>a. Committers' = Committers /\ InOp' = InOp
  BY Zenon DEF Evict, Committers, InOp
<1>1. Types'
  BY Zenon DEF Evict
<1>2. ControlInv'
  BY Zenon, <1>a DEF Evict, ControlInv
<1>3. LockInv'
  BY Zenon, <1>a DEF Evict, LockInv, Unreferenced, Locked
<1>4. HeadInv'
  BY Zenon, <1>a DEF Evict, HeadInv, InLog
<1>5. PinInv'
  BY <1>a DEF Evict, PinInv, ToInstall, Unreferenced
<1>6. CleanInv'
  BY DEF Evict, CleanInv
<1>7. CopyInv'
  <2>1. cache[b] = home[b]
    BY Zenon DEF Evict, Unreferenced, Locked, CleanInv, ControlInv
  <2>2. \A i \in 1..Len(lh) : Contents(lh[i])' = Contents(lh[i])
    BY <2>1 DEF Evict, Contents
  <2>3. ASSUME NEW q \in Committers, pc[q] \in {"write_log", "write_log_io"}
        PROVE  \A i \in 1..tail : cache'[lh[i]] = cache[lh[i]]
    <3>1. tail < Len(lh) /\ Len(lh) \in Nat
      BY <2>3 DEF HeadInv
    <3>2. \A i \in 1..Len(lh) : lh[i] \in Blocks /\ pin[lh[i]] = 1
      BY Zenon, <2>3, NothingInstalled
    <3>3. pin[b] = 0 /\ \A c \in Blocks : c # b => cache'[c] = cache[c]
      BY Zenon DEF Evict, Unreferenced
    <3>4. \A i \in 1..tail : i \in 1..Len(lh)
      BY <3>1
    <3> QED
      BY <3>2, <3>3, <3>4
  <2>4. UNCHANGED <<lh, tail, pc, dlog>>
    BY Zenon DEF Evict
  <2> QED
    BY <1>a, <2>2, <2>3, <2>4 DEF CopyInv
<1>8. RecoverInv'
  BY Zenon DEF Evict, RecoverInv
<1> QED
  BY Zenon, <1>1, <1>2, <1>3, <1>4, <1>5, <1>6, <1>7, <1>8 DEF IInv

\* begin_op() lets a call in only while no commit runs.
LEMMA BeginOpEnterIInv ==
  ASSUME ProcsCount, IInv, NEW p \in Procs, BeginOpEnter(p)
  PROVE  IInv'
<1>0. /\ Types /\ ControlInv /\ LockInv /\ HeadInv /\ PinInv
      /\ CleanInv /\ CopyInv /\ RecoverInv
  BY Zenon DEF IInv
<1> USE <1>0 DEF Types
<1>a. /\ Committers' = {} /\ Committers = {}
      /\ InOp' = InOp \cup {p} /\ p \notin InOp
  BY DEF BeginOpEnter, Committers, InOp, ControlInv
<1>1. Types'
  BY DEF BeginOpEnter
<1>2. ControlInv'
  <2>1. Cardinality(InOp') = Cardinality(InOp) + 1
    BY Zenon, <1>a DEF InOp, ProcsCount
  <2> QED
    BY Zenon, <1>a, <2>1 DEF BeginOpEnter, ControlInv
<1>3. LockInv'
  BY Zenon, <1>a DEF BeginOpEnter, LockInv
<1>4. HeadInv'
  BY <1>a DEF BeginOpEnter, HeadInv, InLog, InOp
<1>5. PinInv'
  BY Zenon, <1>a DEF BeginOpEnter, PinInv, ToInstall
<1>6. CleanInv'
  BY Zenon DEF BeginOpEnter, CleanInv
<1>7. CopyInv'
  BY Zenon, <1>a DEF CopyInv
<1>8. RecoverInv'
  BY Zenon DEF BeginOpEnter, RecoverInv
<1> QED
  BY Zenon, <1>1, <1>2, <1>3, <1>4, <1>5, <1>6, <1>7, <1>8 DEF IInv

\* begin_op() makes a process sleep only if somebody will wake it: with no
\* call running and no commit the log is empty, and a call fits.
LEMMA BeginOpSleepIInv ==
  ASSUME ProcsCount, IInv, NEW p \in Procs, BeginOpSleep(p)
  PROVE  IInv'
<1>0. /\ Types /\ ControlInv /\ LockInv /\ HeadInv /\ PinInv
      /\ CleanInv /\ CopyInv /\ RecoverInv
  BY Zenon DEF IInv
<1> USE <1>0 DEF Types
<1>a. Committers' = Committers /\ InOp' = InOp
  BY Zenon DEF BeginOpSleep, Committers, InOp
<1>b. committing \/ InOp # {}
  <2> SUFFICES ASSUME ~committing, InOp = {} PROVE FALSE
    BY Zenon
  <2>1. lh = <<>> /\ outstanding = 0
    BY Zenon DEF ProcsCount, ControlInv, HeadInv, BeginOpSleep
  <2> QED
    BY <2>1 DEF BeginOpSleep, SpaceForOp
<1>1. Types'
  BY Zenon DEF BeginOpSleep
<1>2. ControlInv'
  BY Zenon, <1>a, <1>b DEF BeginOpSleep, ControlInv
<1>3. LockInv'
  BY Zenon, <1>a DEF BeginOpSleep, LockInv
<1>4. HeadInv'
  BY <1>a DEF BeginOpSleep, HeadInv, InLog
<1>5. PinInv'
  BY <1>a DEF BeginOpSleep, PinInv, ToInstall
<1>6. CleanInv'
  BY Zenon DEF BeginOpSleep, CleanInv
<1>7. CopyInv'
  BY Zenon, <1>a DEF BeginOpSleep, CopyInv, Contents
<1>8. RecoverInv'
  BY Zenon DEF BeginOpSleep, RecoverInv
<1> QED
  BY Zenon, <1>1, <1>2, <1>3, <1>4, <1>5, <1>6, <1>7, <1>8 DEF IInv

\* kill() only takes a process off the sleepers.
LEMMA KillIInv ==
  ASSUME IInv, NEW p \in Procs, Kill(p)
  PROVE  IInv'
<1>0. /\ Types /\ ControlInv /\ LockInv /\ HeadInv /\ PinInv
      /\ CleanInv /\ CopyInv /\ RecoverInv
  BY Zenon DEF IInv
<1> USE <1>0 DEF Types
<1>a. Committers' = Committers /\ InOp' = InOp
  BY Zenon DEF Kill, Committers, InOp
<1>1. Types'
  BY Zenon DEF Kill
<1>2. ControlInv'
  BY Zenon, <1>a DEF Kill, ControlInv
<1>3. LockInv'
  BY Zenon, <1>a DEF Kill, LockInv
<1>4. HeadInv'
  BY Zenon, <1>a DEF Kill, HeadInv, InLog
<1>5. PinInv'
  BY <1>a DEF Kill, PinInv, ToInstall
<1>6. CleanInv'
  BY Zenon DEF Kill, CleanInv
<1>7. CopyInv'
  BY Zenon, <1>a DEF Kill, CopyInv, Contents
<1>8. RecoverInv'
  BY Zenon DEF Kill, RecoverInv
<1> QED
  BY Zenon, <1>1, <1>2, <1>3, <1>4, <1>5, <1>6, <1>7, <1>8 DEF IInv

\* log_write(): the changed block is in the log, and pinned, afterwards;
\* or the kernel panics with the buffer locked for ever.
LEMMA LogWriteIInv ==
  ASSUME IInv, NEW p \in Procs, NEW v \in Vals, LogWrite(p, v)
  PROVE  IInv'
<1>0. /\ Types /\ ControlInv /\ LockInv /\ HeadInv /\ PinInv
      /\ CleanInv /\ CopyInv /\ RecoverInv
  BY Zenon DEF IInv
<1> USE <1>0 DEF Types
<1> DEFINE b == held[p]
<1>a. /\ Committers = {} /\ Committers' = {} /\ InOp' = InOp /\ p \in InOp
      /\ b \in Blocks /\ cache[b] # NotCached /\ dhead = <<>>
  <2>1. p \in InOp /\ pc' = pc /\ mode = "up"
    BY Zenon DEF LogWrite, InOp
  <2>2. Committers = {}
    BY Zenon, <2>1 DEF ControlInv
  <2>3. b \in Blocks /\ cache[b] # NotCached
    BY Zenon DEF LogWrite, LockInv
  <2> QED
    BY Zenon, <2>1, <2>2, <2>3 DEF HeadInv, Committers, InOp
<1>b. /\ mode = "up" /\ panicked = {} /\ cache' = [cache EXCEPT ![b] = v]
      /\ UNCHANGED <<home, dlog, dhead, outstanding, committing, sleeping, pc,
                     held, tail, mode>>
  BY Zenon DEF LogWrite
<1>c. \A i : ToInstall(i) /\ ToInstall(i)'
  BY Zenon, <1>a DEF ToInstall
<1>d. LockInv' /\ CopyInv' /\ RecoverInv'
  <2>1. LockInv'
    BY Zenon, <1>a, <1>b DEF LockInv
  <2>2. CopyInv'
    BY Zenon, <1>a DEF CopyInv
  <2>3. RecoverInv'
    BY Zenon, <1>b DEF RecoverInv
  <2> QED
    BY Zenon, <2>1, <2>2, <2>3
<1>1. CASE panicked' = {p} /\ UNCHANGED <<lh, pin, wrote>>
  <2>1. Types'
    BY Zenon, <1>a, <1>b, <1>1
  <2>2. ControlInv'
    BY Zenon, <1>a, <1>b, <1>1 DEF ControlInv
  <2>3. HeadInv'
    BY Zenon, <1>a, <1>b, <1>1 DEF HeadInv, InLog
  <2>4. PinInv'
    BY Zenon, <1>a, <1>b, <1>c, <1>1 DEF PinInv
  <2>5. CleanInv'
    BY <1>a, <1>b, <1>1 DEF CleanInv
  <2> QED
    BY Zenon, <1>d, <2>1, <2>2, <2>3, <2>4, <2>5 DEF IInv
<1>2. CASE /\ InLog(b) /\ UNCHANGED <<lh, pin, panicked>>
           /\ wrote' = [wrote EXCEPT ![p] = @ \cup {b}]
  <2>1. Types'
    BY Zenon, <1>a, <1>b, <1>2
  <2>2. ControlInv'
    BY Zenon, <1>a, <1>b, <1>2 DEF ControlInv
  <2>3. HeadInv'
    BY <1>a, <1>b, <1>2 DEF HeadInv, InLog
  <2>4. PinInv'
    BY Zenon, <1>a, <1>b, <1>c, <1>2 DEF PinInv
  <2>5. CleanInv'
    <3>1. pin[b] = 1
      BY Zenon, <1>a, <1>b, <1>c, <1>2 DEF PinInv, InLog
    <3> QED
      BY <1>a, <1>b, <1>2, <3>1 DEF CleanInv
  <2> QED
    BY Zenon, <1>d, <2>1, <2>2, <2>3, <2>4, <2>5 DEF IInv
<1>3. CASE /\ ~InLog(b) /\ lh' = Append(lh, b) /\ pin' = Bpin(b)
           /\ wrote' = [wrote EXCEPT ![p] = @ \cup {b}]
           /\ Len(lh) < LOGSIZE /\ Len(lh) < nlog - 1
           /\ UNCHANGED panicked
  <2>a. /\ Len(lh) \in Nat /\ Len(lh') = Len(lh) + 1 /\ lh'[Len(lh) + 1] = b
        /\ \A i \in 1..Len(lh) : lh'[i] = lh[i]
    <3>1. lh \in Seq(Blocks) /\ b \in Blocks
      BY Zenon, <1>a
    <3>2. /\ Len(lh) \in Nat /\ Len(Append(lh, b)) = Len(lh) + 1
          /\ Append(lh, b)[Len(lh) + 1] = b
          /\ \A i \in 1..Len(lh) : Append(lh, b)[i] = lh[i]
      BY ONLY <3>1, AppendIs
    <3>3. lh' = Append(lh, b)
      BY Zenon, <1>3
    <3> QED
      BY ONLY Zenon, <3>2, <3>3
  <2>b. \A i \in 1..Len(lh) : lh[i] # b
    BY Zenon, <1>3 DEF InLog
  <2>c. pin[b] = 0
    BY Zenon, <1>a, <1>b, <2>b DEF PinInv
  <2>d. \A c \in Blocks : pin'[c] = IF c = b THEN 1 ELSE pin[c]
    BY <1>a, <1>3, <2>c DEF Bpin
  <2>1. Types'
    BY <1>a, <1>b, <1>3 DEF Bpin
  <2>2. ControlInv'
    BY Zenon, <1>a, <1>b, <1>3 DEF ControlInv, Bpin
  <2>3. HeadInv'
    <3>1. NoRepeat(lh')
      <4>1. NoRepeat(lh)
        BY Zenon DEF HeadInv
      <4>2. NoRepeat(Append(lh, b))
        BY Zenon, <1>a, <2>b, <4>1, AppendNoRepeat
      <4> QED
        BY Zenon, <1>3, <4>2
    <3>2. \A q \in InOp : \A c \in wrote'[q] : InLog(c)'
      <4>1. ASSUME NEW q \in InOp, NEW c \in wrote'[q], c # b
            PROVE  \E i \in 1..Len(lh) : lh[i] = c
        <5>1. q \in Procs /\ c \in wrote[q]
          BY Zenon, <1>3, <4>1 DEF InOp
        <5> QED
          BY Zenon, <5>1 DEF HeadInv, InLog
      <4>2. /\ Len(lh) + 1 \in 1..Len(lh')
            /\ \A i \in 1..Len(lh) : i \in 1..Len(lh')
        BY Zenon, <2>a, OneMore
      <4> QED
        BY Zenon, <2>a, <4>1, <4>2 DEF InLog
    <3> QED
      BY <1>a, <1>b, <1>3, <2>a, <3>1, <3>2 DEF HeadInv
  <2>4. PinInv'
    <3>1. \A c \in Blocks : (\E i \in 1..Len(lh') : lh'[i] = c)
                              <=> c = b \/ \E i \in 1..Len(lh) : lh[i] = c
      <4>1. \A i \in 1..Len(lh') : i \in 1..Len(lh) \/ i = Len(lh) + 1
        BY Zenon, <2>a, OneMore
      <4>2. /\ Len(lh) + 1 \in 1..Len(lh')
            /\ \A i \in 1..Len(lh) : i \in 1..Len(lh')
        BY Zenon, <2>a, OneMore
      <4> QED
        BY Zenon, <2>a, <4>1, <4>2
    <3>2. \A c \in Blocks :
            /\ pin[c] \in {0, 1} /\ (pin[c] = 1 => cache[c] # NotCached)
            /\ pin[c] = 1 <=> \E i \in 1..Len(lh) : lh[i] = c
      BY Zenon, <1>b, <1>c DEF PinInv
    <3>3. \A c \in Blocks : cache[c] # NotCached => cache'[c] # NotCached
      BY Zenon, <1>b
    <3>4. \A c \in Blocks :
            /\ pin'[c] \in {0, 1} /\ (pin'[c] = 1 => cache'[c] # NotCached)
            /\ pin'[c] = 1 <=> \E i \in 1..Len(lh') : lh'[i] = c
      <4> SUFFICES ASSUME NEW c \in Blocks
                   PROVE  /\ pin'[c] \in {0, 1}
                          /\ pin'[c] = 1 => cache'[c] # NotCached
                          /\ pin'[c] = 1 <=> \E i \in 1..Len(lh') : lh'[i] = c
        BY Zenon
      <4>1. CASE c = b
        BY Zenon, <1>a, <2>d, <3>1, <3>3, <4>1
      <4>2. CASE c # b
        BY Zenon, <2>d, <3>1, <3>2, <3>3, <4>2
      <4> QED
        BY Zenon, <4>1, <4>2
    <3> QED
      BY Zenon, <1>c, <3>4 DEF PinInv
  <2>5. CleanInv'
    <3>1. \A c \in Blocks : c # b => cache'[c] = cache[c] /\ pin'[c] = pin[c]
      BY Zenon, <1>b, <2>d
    <3>2. pin'[b] = 1 /\ cache'[b] # Torn /\ UNCHANGED <<panicked, home>>
      BY Zenon, <1>a, <1>b, <1>3, <2>d
    <3> QED
      BY <1>a, <1>b, <3>1, <3>2 DEF CleanInv
  <2> QED
    BY Zenon, <1>d, <2>1, <2>2, <2>3, <2>4, <2>5 DEF IInv
<1>4. CASE Len(lh) >= LOGSIZE \/ Len(lh) >= nlog - 1 \/ outstanding < 1
  BY Zenon, <1>1, <1>4 DEF LogWrite
<1>5. CASE ~(Len(lh) >= LOGSIZE \/ Len(lh) >= nlog - 1 \/ outstanding < 1)
  <2>1. Len(lh) < LOGSIZE /\ Len(lh) < nlog - 1
    BY <1>5
  <2> QED
    BY Zenon, <1>2, <1>3, <1>5, <2>1 DEF LogWrite
<1> QED
  BY Zenon, <1>4, <1>5

\* end_op(): the last call becomes the committer, any other wakes sleepers.
LEMMA EndOpIInv ==
  ASSUME ProcsCount, IInv, NEW p \in Procs, EndOp(p)
  PROVE  IInv'
<1>0. /\ Types /\ ControlInv /\ LockInv /\ HeadInv /\ PinInv
      /\ CleanInv /\ CopyInv /\ RecoverInv
  BY Zenon DEF IInv
<1> USE <1>0 DEF Types
<1>a. /\ p \in InOp /\ ~committing /\ Committers = {} /\ mode = "up"
      /\ panicked = {} /\ held[p] = NoBlock /\ dhead = <<>>
      /\ outstanding' = outstanding - 1
  BY Zenon DEF EndOp, InOp, ControlInv, HeadInv
<1>b. UNCHANGED <<home, dlog, dhead, cache, pin, held, lh, wrote, mode,
                  panicked>>
  BY Zenon, <1>a DEF EndOp
<1>c. Cardinality(InOp \ {p}) = outstanding - 1 /\ InOp \ {p} \subseteq Procs
  <2>1. InOp \ {p} \in SUBSET Procs /\ p \notin InOp \ {p}
    BY Zenon DEF InOp
  <2>2. InOp = (InOp \ {p}) \cup {p}
    BY Zenon, <1>a
  <2>3. /\ Cardinality((InOp \ {p}) \cup {p}) = Cardinality(InOp \ {p}) + 1
        /\ Cardinality(InOp \ {p}) \in Nat
    BY Zenon, <2>1 DEF ProcsCount
  <2>4. outstanding = Cardinality(InOp \ {p}) + 1
    BY Zenon, <2>2, <2>3 DEF ControlInv
  <2>5. Cardinality(InOp \ {p}) = outstanding - 1
    BY ONLY <2>3, <2>4
  <2> QED
    BY Zenon, <2>1, <2>5
<1>1. CASE outstanding = 1
  <2>a. /\ committing' = TRUE /\ tail' = 0 /\ sleeping' = sleeping
        /\ pc' = [pc EXCEPT ![p] = CommitStart]
    BY Zenon, <1>a, <1>1 DEF EndOp
  <2>b. /\ CommitStart \in {"write_log", "end_commit"}
        /\ lh # <<>> <=> CommitStart = "write_log"
    BY Zenon DEF CommitStart
  <2>c. pc'[p] = CommitStart /\ \A q \in Procs \ {p} : pc'[q] = pc[q]
    BY Zenon, <2>a
  <2>d. InOp = {p}
    <3>1. Cardinality(InOp \ {p}) = 0
      BY <1>c, <1>1
    <3>2. InOp \ {p} = {}
      BY Zenon, <1>c, <3>1 DEF ProcsCount
    <3> QED
      BY Zenon, <1>a, <3>2
  <2>e. InOp' = {}
    BY Zenon, <2>b, <2>c, <2>d DEF InOp
  <2>f. Committers' = {p}
    BY Zenon, <1>a, <2>b, <2>c DEF Committers
  <2>1. Types'
    BY <1>a, <1>b, <2>a, <2>b
  <2>2. ControlInv'
    <3>1. outstanding' = Cardinality(InOp')
      BY <1>a, <1>1, <2>e DEF ProcsCount
    <3>2. \A q \in sleeping' : pc'[q] = "idle" /\ held'[q] = NoBlock
      BY Zenon, <1>a, <1>b, <2>a, <2>c DEF ControlInv, InOp
    <3> QED
      BY Zenon, <1>a, <1>b, <2>a, <2>e, <2>f, <3>1, <3>2 DEF ControlInv
  <2>3. LockInv'
    BY Zenon, <1>a, <1>b, <2>b, <2>c, <2>f DEF LockInv
  <2>4. HeadInv'
    BY <1>a, <1>b, <2>a, <2>b, <2>c, <2>e, <2>f DEF HeadInv
  <2>5. PinInv'
    <3>1. \A i \in 1..Len(lh) : ToInstall(i) /\ ToInstall(i)'
      BY Zenon, <1>a, <2>a, <2>b, <2>c, <2>f DEF ToInstall
    <3> QED
      BY Zenon, <1>a, <1>b, <3>1 DEF PinInv
  <2>6. CleanInv'
    BY Zenon, <1>b DEF CleanInv
  <2>7. CopyInv'
    <3>1. \A i \in 1..tail' : FALSE
      BY <2>a
    <3>2. pc'[p] \in {"write_log", "end_commit"}
      BY Zenon, <2>b, <2>c
    <3> QED
      BY Zenon, <2>f, <3>1, <3>2 DEF CopyInv
  <2>8. RecoverInv'
    BY Zenon, <1>a, <1>b DEF RecoverInv
  <2> QED
    BY Zenon, <2>1, <2>2, <2>3, <2>4, <2>5, <2>6, <2>7, <2>8 DEF IInv
<1>2. CASE outstanding # 1
  <2>a. /\ committing' = committing /\ tail' = tail /\ sleeping' = {}
        /\ pc' = [pc EXCEPT ![p] = "idle"]
    BY Zenon, <1>a, <1>2 DEF EndOp, WakeupLog
  <2>b. InOp' = InOp \ {p} /\ Committers' = {}
    BY Zenon, <1>a, <2>a DEF InOp, Committers
  <2>c. InOp' # {}
    <3>1. Cardinality(InOp \ {p}) # 0
      BY <1>2, <1>c
    <3> QED
      BY Zenon, <2>b, <3>1 DEF ProcsCount
  <2>1. Types'
    BY <1>a, <1>b, <2>a
  <2>2. ControlInv'
    BY Zenon, <1>a, <1>b, <1>c, <2>a, <2>b DEF ControlInv
  <2>3. LockInv'
    BY Zenon, <1>a, <1>b, <2>b DEF LockInv
  <2>4. HeadInv'
    BY Zenon, <1>a, <1>b, <2>a, <2>b, <2>c DEF HeadInv, InLog
  <2>5. PinInv'
    BY Zenon, <1>a, <1>b, <2>b DEF PinInv, ToInstall
  <2>6. CleanInv'
    BY Zenon, <1>b DEF CleanInv
  <2>7. CopyInv'
    BY Zenon, <2>b DEF CopyInv
  <2>8. RecoverInv'
    BY Zenon, <1>a, <1>b DEF RecoverInv
  <2> QED
    BY Zenon, <2>1, <2>2, <2>3, <2>4, <2>5, <2>6, <2>7, <2>8 DEF IInv
<1> QED
  BY Zenon, <1>1, <1>2

-----------------------------------------------------------------------------
(* commit()                                                                *)

\* write_log() starts to write a log block, which nothing depends on yet.
LEMMA WriteLogIInv ==
  ASSUME IInv, NEW p \in Procs, WriteLog(p)
  PROVE  IInv'
<1>0. /\ Types /\ ControlInv /\ LockInv /\ HeadInv /\ PinInv
      /\ CleanInv /\ CopyInv /\ RecoverInv
  BY Zenon DEF IInv
<1> USE <1>0 DEF Types
<1> DEFINE b == lh[tail + 1]
<1>a. /\ p \in Committers /\ pc[p] = "write_log"
      /\ pc' = [pc EXCEPT ![p] = "write_log_io"]
  BY Zenon DEF WriteLog, Committers
<1>b. /\ Committers = {p} /\ Committers' = {p} /\ InOp = {} /\ InOp' = {}
      /\ mode = "up" /\ committing /\ panicked = {} /\ p \notin sleeping
      /\ pc'[p] = "write_log_io" /\ \A q \in Procs : q # p => pc'[q] = pc[q]
  BY Zenon, <1>a, OnlyCommitter
<1>c. /\ tail + 1 \in 1..Len(lh) /\ tail + 1 \in 1..(nlog - 1)
      /\ b \in Blocks /\ cache[b] # NotCached
  <2>1. tail + 1 \in 1..Len(lh) /\ Len(lh) <= nlog - 1
    BY <1>a DEF HeadInv
  <2>2. b \in Blocks /\ cache[b] # NotCached
    BY Zenon, <1>a, <2>1, NothingInstalled
  <2>3. tail + 1 \in 1..(nlog - 1)
    BY <2>1
  <2> QED
    BY Zenon, <2>1, <2>2, <2>3
<1>d. /\ held' = [held EXCEPT ![p] = b] /\ \A q \in Procs : held[q] # b
      /\ dlog' = [dlog EXCEPT ![tail + 1] = Torn]
      /\ UNCHANGED <<home, dhead, cache, pin, lh, outstanding, committing,
                     sleeping, wrote, tail, mode, panicked>>
  BY Zenon, <1>c DEF WriteLog, Contents, Locked
<1>1. Types'
  BY Zenon, <1>a, <1>c, <1>d
<1>2. ControlInv'
  BY ZenonT(60), <1>b, <1>d DEF ControlInv
<1>3. LockInv'
  BY <1>b, <1>c, <1>d DEF LockInv
<1>4. HeadInv'
  BY <1>a, <1>b, <1>d DEF HeadInv
<1>5. PinInv'
  <2>1. \A i : ToInstall(i) /\ ToInstall(i)'
    BY Zenon, <1>a, <1>b, NothingInstalled DEF ToInstall
  <2> QED
    BY Zenon, <1>b, <1>d, <2>1 DEF PinInv
<1>6. CleanInv'
  BY Zenon, <1>b, <1>d DEF CleanInv
<1>7. CopyInv'
  <2>1. \A i \in 1..tail : dlog'[i] = dlog[i]
    BY <1>c, <1>d
  <2>2. \A i \in 1..tail : dlog[i] = cache[lh[i]]
    BY Zenon, <1>a DEF CopyInv
  <2> QED
    BY Zenon, <1>b, <1>d, <2>1, <2>2 DEF CopyInv
<1>8. RecoverInv'
  BY Zenon, <1>b, <1>d DEF RecoverInv
<1> QED
  BY Zenon, <1>1, <1>2, <1>3, <1>4, <1>5, <1>6, <1>7, <1>8 DEF IInv

\* When its write ends, log block tail has the contents of its buffer.
LEMMA WriteLogDoneIInv ==
  ASSUME IInv, NEW p \in Procs, WriteLogDone(p)
  PROVE  IInv'
<1>0. /\ Types /\ ControlInv /\ LockInv /\ HeadInv /\ PinInv
      /\ CleanInv /\ CopyInv /\ RecoverInv
  BY Zenon DEF IInv
<1> USE <1>0 DEF Types
<1> DEFINE b == lh[tail + 1]
           l == IF MoreBlocks THEN "write_log" ELSE "commit_head"
<1>a. /\ p \in Committers /\ pc[p] = "write_log_io"
      /\ pc' = [pc EXCEPT ![p] = l]
  BY Zenon DEF WriteLogDone, Committers
<1>b. /\ Committers = {p} /\ Committers' = {p} /\ InOp = {} /\ InOp' = {}
      /\ mode = "up" /\ committing /\ panicked = {} /\ p \notin sleeping
      /\ pc'[p] = l /\ \A q \in Procs : q # p => pc'[q] = pc[q]
  BY ZenonT(60), <1>a, OnlyCommitter
<1>c. /\ tail + 1 \in 1..Len(lh) /\ tail + 1 \in 1..(nlog - 1)
      /\ b \in Blocks /\ cache[b] \in Vals /\ held[p] = b
  <2>1. tail + 1 \in 1..Len(lh) /\ Len(lh) <= nlog - 1
    BY <1>a DEF HeadInv
  <2>2. b \in Blocks /\ cache[b] # NotCached
    BY Zenon, <1>a, <2>1, NothingInstalled
  <2>3. held[p] = b
    BY Zenon, <1>a DEF LockInv
  <2> QED
    BY <2>1, <2>2, <2>3 DEF CleanInv
<1>d. /\ held' = [held EXCEPT ![p] = NoBlock]
      /\ dlog' = [dlog EXCEPT ![tail + 1] = cache[b]]
      /\ UNCHANGED <<home, dhead, cache, pin, lh, outstanding, committing,
                     sleeping, wrote, mode, panicked>>
      /\ tail' = IF MoreBlocks THEN tail + 1 ELSE 0
  BY Zenon, <1>c DEF WriteLogDone, NextTail
<1>e. /\ l \in {"write_log", "commit_head"} /\ tail' \in Nat
      /\ l = "write_log" => tail' = tail + 1 /\ tail + 1 < Len(lh)
      /\ l = "commit_head" => tail' = 0 /\ tail + 1 = Len(lh)
  BY <1>c, <1>d DEF MoreBlocks
<1>f. ASSUME NEW i \in 1..(tail + 1)
      PROVE  /\ dlog'[i] = cache[lh[i]]
             /\ lh[i] \in Blocks /\ cache[lh[i]] # NotCached
  <2>1. lh[i] \in Blocks /\ cache[lh[i]] # NotCached
    BY <1>a, <1>c, NothingInstalled
  <2>2. CASE i = tail + 1
    BY Zenon, <1>c, <1>d, <2>1, <2>2
  <2>3. CASE i \in 1..tail
    <3>1. dlog[i] = cache[lh[i]]
      BY Zenon, <1>a, <2>3 DEF CopyInv
    <3> QED
      BY <1>c, <1>d, <2>1, <2>3, <3>1
  <2> QED
    BY <2>2, <2>3
<1> HIDE DEF l
<1>1. Types'
  BY Zenon, <1>a, <1>c, <1>d, <1>e
<1>2. ControlInv'
  BY Zenon, <1>b, <1>d, <1>e DEF ControlInv
<1>3. LockInv'
  BY <1>b, <1>d, <1>e DEF LockInv
<1>4. HeadInv'
  <2>1. dhead = <<>> /\ lh # <<>>
    BY Zenon, <1>a DEF HeadInv
  <2> QED
    BY <1>b, <1>d, <1>e, <2>1 DEF HeadInv
<1>5. PinInv'
  <2>1. \A i : ToInstall(i) /\ ToInstall(i)'
    BY Zenon, <1>a, <1>b, <1>e, NothingInstalled DEF ToInstall
  <2> QED
    BY Zenon, <1>b, <1>d, <2>1 DEF PinInv
<1>6. CleanInv'
  BY Zenon, <1>b, <1>d DEF CleanInv
<1>7. CopyInv'
  <2>1. l = "write_log" => \A i \in 1..tail' : dlog'[i] = cache[lh[i]]
    BY Zenon, <1>e, <1>f
  <2>2. l = "commit_head" => \A i \in 1..Len(lh) : dlog'[i] = Contents(lh[i])'
    BY Zenon, <1>d, <1>e, <1>f DEF Contents
  <2> QED
    BY Zenon, <1>b, <1>d, <1>e, <2>1, <2>2 DEF CopyInv
<1>8. RecoverInv'
  BY Zenon, <1>b, <1>d DEF RecoverInv
<1> QED
  BY Zenon, <1>1, <1>2, <1>3, <1>4, <1>5, <1>6, <1>7, <1>8 DEF IInv

\* write_head(), the commit point: every log block is complete by now.
LEMMA WriteHeadIInv ==
  ASSUME IInv, NEW p \in Procs, WriteHead(p)
  PROVE  IInv'
<1>0. /\ Types /\ ControlInv /\ LockInv /\ HeadInv /\ PinInv
      /\ CleanInv /\ CopyInv /\ RecoverInv
  BY Zenon DEF IInv
<1> USE <1>0 DEF Types
<1>a. /\ p \in Committers /\ pc[p] = "commit_head"
      /\ pc' = [pc EXCEPT ![p] = "install"]
  BY Zenon DEF WriteHead, Committers
<1>b. /\ Committers = {p} /\ Committers' = {p} /\ InOp = {} /\ InOp' = {}
      /\ mode = "up" /\ committing /\ panicked = {} /\ p \notin sleeping
      /\ pc'[p] = "install" /\ \A q \in Procs : q # p => pc'[q] = pc[q]
  BY Zenon, <1>a, OnlyCommitter
<1>c. /\ dhead' = lh
      /\ UNCHANGED <<home, dlog, cache, pin, held, lh, outstanding,
                     committing, sleeping, wrote, tail, mode, panicked>>
  BY Zenon DEF WriteHead
<1>d. \A i \in 1..Len(lh) : lh[i] \in Blocks /\ cache[lh[i]] # NotCached
  BY Zenon, <1>a, NothingInstalled
<1>e. tail = 0 /\ dhead = <<>> /\ lh # <<>> /\ tail < Len(lh)
  BY <1>a DEF HeadInv
<1>f. \A i \in 1..Len(lh) : dlog[i] \in Vals
  <2>1. \A i \in 1..Len(lh) : dlog[i] = Contents(lh[i])
    BY Zenon, <1>a DEF CopyInv
  <2>2. \A b \in Blocks : cache[b] # NotCached => cache[b] \in Vals
    BY DEF CleanInv
  <2> QED
    BY Zenon, <1>d, <2>1, <2>2 DEF Contents
<1>1. Types'
  BY Zenon, <1>a, <1>c
<1>2. ControlInv'
  BY Zenon, <1>b, <1>c DEF ControlInv
<1>3. LockInv'
  BY Zenon, <1>a, <1>b, <1>c DEF LockInv
<1>4. HeadInv'
  BY Zenon, <1>b, <1>c, <1>e, <1>f DEF HeadInv
<1>5. PinInv'
  <2>1. \A i \in 1..Len(lh) : ToInstall(i) /\ ToInstall(i)'
    BY <1>a, <1>b, <1>c, <1>e, NothingInstalled DEF ToInstall
  <2> QED
    BY Zenon, <1>b, <1>c, <2>1 DEF PinInv
<1>6. CleanInv'
  <2>1. \A b \in Blocks : home[b] # Torn
    BY <1>e DEF CleanInv
  <2> QED
    BY Zenon, <1>b, <1>c, <2>1 DEF CleanInv
<1>7. CopyInv'
  <2>1. \A b : Contents(b)' = Contents(b)
    BY Zenon, <1>c DEF Contents
  <2>2. \A i \in 1..Len(lh) : dlog[i] = Contents(lh[i])
    BY Zenon, <1>a DEF CopyInv
  <2> QED
    BY Zenon, <1>b, <1>c, <2>1, <2>2 DEF CopyInv
<1>8. RecoverInv'
  BY Zenon, <1>b, <1>c DEF RecoverInv
<1> QED
  BY Zenon, <1>1, <1>2, <1>3, <1>4, <1>5, <1>6, <1>7, <1>8 DEF IInv

\* install_trans() starts to write a home block, whose log copy is good.
LEMMA InstallTransIInv ==
  ASSUME IInv, NEW p \in Procs, InstallTrans(p)
  PROVE  IInv'
<1>0. /\ Types /\ ControlInv /\ LockInv /\ HeadInv /\ PinInv
      /\ CleanInv /\ CopyInv /\ RecoverInv
  BY Zenon DEF IInv
<1> USE <1>0 DEF Types
<1> DEFINE b == lh[tail + 1]
<1>a. /\ p \in Committers /\ pc[p] = "install"
      /\ pc' = [pc EXCEPT ![p] = "install_io"]
  BY Zenon DEF InstallTrans, Committers
<1>b. /\ Committers = {p} /\ Committers' = {p} /\ InOp = {} /\ InOp' = {}
      /\ mode = "up" /\ committing /\ panicked = {} /\ p \notin sleeping
      /\ pc'[p] = "install_io" /\ \A q \in Procs : q # p => pc'[q] = pc[q]
  BY Zenon, <1>a, OnlyCommitter
<1>c. /\ tail + 1 \in 1..Len(lh) /\ tail + 1 \in 1..(nlog - 1) /\ dhead = lh
      /\ b \in Blocks /\ pin[b] = 1 /\ cache[b] # NotCached
      /\ cache[b] # Torn /\ dlog[tail + 1] = cache[b]
  BY Zenon, <1>a, Installing
<1>d. /\ held' = [held EXCEPT ![p] = b] /\ \A q \in Procs : held[q] # b
      /\ home' = [home EXCEPT ![b] = Torn]
      /\ UNCHANGED <<dlog, dhead, cache, pin, lh, outstanding, committing,
                     sleeping, wrote, tail, mode, panicked>>
  BY Zenon, <1>c DEF InstallTrans, Locked
<1>1. Types'
  BY Zenon, <1>a, <1>c, <1>d
<1>2. ControlInv'
  BY ZenonT(60), <1>b, <1>d DEF ControlInv
<1>3. LockInv'
  BY ONLY <1>b, <1>c, <1>d, LockInv, Types DEF LockInv, Types
<1>4. HeadInv'
  BY Zenon, <1>a, <1>b, <1>d DEF HeadInv
<1>5. PinInv'
  <2>1. \A i : ToInstall(i)' <=> ToInstall(i)
    BY Zenon, <1>a, <1>b, <1>d DEF ToInstall
  <2> QED
    BY Zenon, <1>b, <1>d, <2>1 DEF PinInv
<1>6. CleanInv'
  <2>1. \A c \in Blocks : home'[c] = IF c = b THEN Torn ELSE home[c]
    BY Zenon, <1>d
  <2>2. \E i \in 1..Len(dhead) : dhead[i] = b
    BY Zenon, <1>c
  <2> QED
    BY ONLY <1>b, <1>c, <1>d, <2>1, <2>2, CleanInv DEF CleanInv
<1>7. CopyInv'
  <2>1. \A i \in 1..Len(lh) : dlog[i] = Contents(lh[i])
    BY Zenon, <1>a DEF CopyInv
  <2>2. \A i \in 1..Len(lh) : Contents(lh[i])' = Contents(lh[i])
    BY <1>c, <1>d DEF Contents
  <2> QED
    BY <1>b, <1>d, <2>1, <2>2 DEF CopyInv
<1>8. RecoverInv'
  BY Zenon, <1>b, <1>d DEF RecoverInv
<1> QED
  BY Zenon, <1>1, <1>2, <1>3, <1>4, <1>5, <1>6, <1>7, <1>8 DEF IInv

\* When its write ends the home block equals its buffer, so bunpin() may
\* let the buffer go.
LEMMA InstallTransDoneIInv ==
  ASSUME IInv, NEW p \in Procs, InstallTransDone(p)
  PROVE  IInv'
<1>0. /\ Types /\ ControlInv /\ LockInv /\ HeadInv /\ PinInv
      /\ CleanInv /\ CopyInv /\ RecoverInv
  BY Zenon DEF IInv
<1> USE <1>0 DEF Types
<1> DEFINE b == lh[tail + 1]
           l == IF MoreBlocks THEN "install" ELSE "clear_head"
<1>a. /\ p \in Committers /\ pc[p] = "install_io"
      /\ pc' = [pc EXCEPT ![p] = l]
  BY Zenon DEF InstallTransDone, Committers
<1>b. /\ Committers = {p} /\ Committers' = {p} /\ InOp = {} /\ InOp' = {}
      /\ mode = "up" /\ committing /\ panicked = {} /\ p \notin sleeping
      /\ pc'[p] = l /\ \A q \in Procs : q # p => pc'[q] = pc[q]
  BY Zenon, <1>a, OnlyCommitter
<1>c. /\ tail + 1 \in 1..Len(lh) /\ tail + 1 \in 1..(nlog - 1) /\ dhead = lh
      /\ b \in Blocks /\ pin[b] = 1 /\ cache[b] # NotCached
      /\ cache[b] # Torn /\ dlog[tail + 1] = cache[b] /\ held[p] = b
  BY Zenon, <1>a, Installing
<1>d. /\ held' = [held EXCEPT ![p] = NoBlock]
      /\ home' = [home EXCEPT ![b] = cache[b]]
      /\ pin' = [pin EXCEPT ![b] = @ - 1]
      /\ UNCHANGED <<dlog, dhead, cache, lh, outstanding, committing,
                     sleeping, wrote, mode, panicked>>
      /\ tail' = IF MoreBlocks THEN tail + 1 ELSE 0
  BY Zenon, <1>c DEF InstallTransDone, NextTail
<1>e. /\ l \in {"install", "clear_head"} /\ tail' \in Nat
      /\ l = "install" => tail' = tail + 1 /\ tail + 1 < Len(lh)
      /\ l = "clear_head" => tail' = 0 /\ tail + 1 = Len(lh)
  BY <1>c, <1>d DEF MoreBlocks
<1>f. \A c \in Blocks : /\ home'[c] = IF c = b THEN cache[b] ELSE home[c]
                        /\ pin'[c] = IF c = b THEN 0 ELSE pin[c]
  BY <1>c, <1>d
<1> HIDE DEF l
<1>1. Types'
  BY <1>a, <1>c, <1>d, <1>e
<1>2. ControlInv'
  BY ZenonT(60), <1>b, <1>d, <1>e DEF ControlInv
<1>3. LockInv'
  BY <1>b, <1>d, <1>e DEF LockInv
<1>4. HeadInv'
  BY Zenon, <1>b, <1>c, <1>d, <1>e DEF HeadInv
<1>5. PinInv'
  <2>1. \A i \in 1..Len(lh) : ToInstall(i)' <=> ToInstall(i) /\ i # tail + 1
    BY <1>a, <1>b, <1>e DEF ToInstall
  <2>2. \A i \in 1..Len(lh) : lh[i] = b <=> i = tail + 1
    BY Zenon, <1>c DEF HeadInv, NoRepeat
  <2>3. \A c \in Blocks :
          /\ pin[c] \in {0, 1} /\ (pin[c] = 1 => cache[c] # NotCached)
          /\ pin[c] = 1 <=> \E i \in 1..Len(lh) : lh[i] = c /\ ToInstall(i)
    BY Zenon, <1>b DEF PinInv
  <2>4. \A c \in Blocks :
          pin'[c] = 1 <=> \E i \in 1..Len(lh) : lh[i] = c /\ ToInstall(i)'
    <3> SUFFICES ASSUME NEW c \in Blocks
                 PROVE  pin'[c] = 1 <=>
                          \E i \in 1..Len(lh) : lh[i] = c /\ ToInstall(i)'
      BY Zenon
    <3>1. CASE c = b
      <4>1. pin'[c] # 1
        BY ONLY <1>f, <3>1
      <4>2. \A i \in 1..Len(lh) : ~(lh[i] = c /\ ToInstall(i)')
        BY Zenon, <2>1, <2>2, <3>1
      <4> QED
        BY Zenon, <4>1, <4>2
    <3>2. CASE c # b
      BY ZenonT(60), <1>f, <2>1, <2>2, <2>3, <3>2
    <3> QED
      BY Zenon, <3>1, <3>2
  <2>5. \A c \in Blocks :
          pin'[c] \in {0, 1} /\ (pin'[c] = 1 => cache'[c] # NotCached)
    BY ZenonT(60), <1>d, <1>f, <2>3
  <2> QED
    BY Zenon, <1>d, <2>4, <2>5 DEF PinInv
<1>6. CleanInv'
  <2>1. \A c \in Blocks : home'[c] = Torn => home[c] = Torn /\ c # b
    BY Zenon, <1>c, <1>f
  <2>2. \A c \in Blocks : c # b => home'[c] = home[c] /\ pin'[c] = pin[c]
    BY Zenon, <1>f
  <2>3. home'[b] = cache[b]
    BY Zenon, <1>c, <1>f
  <2> QED
    BY ZenonT(60), <1>b, <1>d, <2>1, <2>2, <2>3 DEF CleanInv
<1>7. CopyInv'
  <2>1. \A i \in 1..Len(lh) : lh[i] \in Blocks
    BY ONLY lh \in Seq(Blocks)
  <2>2. \A i \in 1..Len(lh) : dlog[i] = Contents(lh[i])
    BY Zenon, <1>a DEF CopyInv
  <2>3. \A i \in 1..Len(lh) : Contents(lh[i])' = Contents(lh[i])
    BY Zenon, <1>c, <1>d, <1>f, <2>1 DEF Contents
  <2> QED
    BY ONLY Zenon, <1>b, <1>d, <1>e, <2>2, <2>3 DEF CopyInv
<1>8. RecoverInv'
  BY Zenon, <1>b, <1>d DEF RecoverInv
<1> QED
  BY Zenon, <1>1, <1>2, <1>3, <1>4, <1>5, <1>6, <1>7, <1>8 DEF IInv

\* The log is erased when nothing is left to install.
LEMMA ClearHeadIInv ==
  ASSUME IInv, NEW p \in Procs, ClearHead(p)
  PROVE  IInv'
<1>0. /\ Types /\ ControlInv /\ LockInv /\ HeadInv /\ PinInv
      /\ CleanInv /\ CopyInv /\ RecoverInv
  BY Zenon DEF IInv
<1> USE <1>0 DEF Types
<1>a. /\ p \in Committers /\ pc[p] = "clear_head"
      /\ pc' = [pc EXCEPT ![p] = "end_commit"]
  BY Zenon DEF ClearHead, Committers
<1>b. /\ Committers = {p} /\ Committers' = {p} /\ InOp = {} /\ InOp' = {}
      /\ mode = "up" /\ committing /\ panicked = {} /\ p \notin sleeping
      /\ pc'[p] = "end_commit" /\ \A q \in Procs : q # p => pc'[q] = pc[q]
  BY Zenon, <1>a, OnlyCommitter
<1>c. /\ dhead' = <<>> /\ lh' = <<>>
      /\ UNCHANGED <<home, dlog, cache, pin, held, outstanding, committing,
                     sleeping, wrote, tail, mode, panicked>>
  BY Zenon DEF ClearHead
<1>d. \A b \in Blocks : pin[b] = 0
  BY Zenon, <1>a, <1>b DEF PinInv, ToInstall
<1>1. Types'
  BY <1>a, <1>c
<1>2. ControlInv'
  BY ZenonT(60), <1>b, <1>c DEF ControlInv
<1>3. LockInv'
  BY Zenon, <1>a, <1>b, <1>c DEF LockInv
<1>4. HeadInv'
  BY ONLY <1>b, <1>c, HeadInv, lh \in Seq(Blocks), LogAssumption DEF HeadInv, NoRepeat
<1>5. PinInv'
  <2>1. Len(lh') = 0 /\ \A i \in 1..Len(lh') : FALSE
    BY ONLY <1>c
  <2>2. \A b \in Blocks : pin'[b] = 0 /\ 0 # 1
    BY ONLY <1>c, <1>d
  <2> QED
    BY Zenon, <2>1, <2>2 DEF PinInv
<1>6. CleanInv'
  <2>1. \A b \in Blocks : home[b] # Torn
    <3>1. \A b \in Blocks : home[b] = Torn => pin[b] = 1
      BY Zenon, <1>b DEF CleanInv
    <3> QED
      BY ONLY <1>d, <3>1
  <2> QED
    BY Zenon, <1>b, <1>c, <2>1 DEF CleanInv
<1>7. CopyInv'
  BY Zenon, <1>b DEF CopyInv
<1>8. RecoverInv'
  BY Zenon, <1>b, <1>c DEF RecoverInv
<1> QED
  BY Zenon, <1>1, <1>2, <1>3, <1>4, <1>5, <1>6, <1>7, <1>8 DEF IInv

\* The committer lets new system calls in with the log empty.
LEMMA EndCommitIInv ==
  ASSUME IInv, NEW p \in Procs, EndCommit(p)
  PROVE  IInv'
<1>0. /\ Types /\ ControlInv /\ LockInv /\ HeadInv /\ PinInv
      /\ CleanInv /\ CopyInv /\ RecoverInv
  BY Zenon DEF IInv
<1> USE <1>0 DEF Types
<1>a. /\ p \in Committers /\ pc[p] = "end_commit"
      /\ pc' = [pc EXCEPT ![p] = "idle"]
  BY Zenon DEF EndCommit, Committers
<1>b. /\ Committers = {p} /\ InOp = {} /\ mode = "up" /\ panicked = {}
      /\ pc'[p] = "idle" /\ \A q \in Procs : q # p => pc'[q] = pc[q]
  BY Zenon, <1>a, OnlyCommitter
<1>c. Committers' = {}
  BY Zenon, <1>b DEF Committers
<1>d. InOp' = {}
  BY Zenon, <1>b DEF InOp
<1>e. /\ committing' = FALSE /\ sleeping' = {}
      /\ UNCHANGED <<home, dlog, dhead, cache, pin, held, lh, outstanding,
                     wrote, tail, mode, panicked>>
  BY Zenon DEF EndCommit, WakeupLog
<1>f. dhead = <<>> /\ lh = <<>>
  BY Zenon, <1>a DEF HeadInv
<1>1. Types'
  BY Zenon, <1>a, <1>e
<1>2. ControlInv'
  BY Zenon, <1>b, <1>c, <1>d, <1>e DEF ControlInv
<1>3. LockInv'
  BY Zenon, <1>c, <1>e DEF LockInv
<1>4. HeadInv'
  BY Zenon, <1>c, <1>d, <1>e, <1>f DEF HeadInv
<1>5. PinInv'
  BY <1>e, <1>f DEF PinInv
<1>6. CleanInv'
  BY Zenon, <1>e DEF CleanInv
<1>7. CopyInv'
  BY Zenon, <1>c DEF CopyInv
<1>8. RecoverInv'
  BY Zenon, <1>b, <1>e DEF RecoverInv
<1> QED
  BY Zenon, <1>1, <1>2, <1>3, <1>4, <1>5, <1>6, <1>7, <1>8 DEF IInv

-----------------------------------------------------------------------------
(* Boot, crash and recovery.                                               *)

\* A machine that boots from a fresh disk satisfies the invariant.
LEMMA InitIInv ==
  ASSUME ProcsCount, Init
  PROVE  IInv
<1>0. Committers = {} /\ InOp = {}
  BY Zenon DEF Init, Committers, InOp
<1>1. Types
  <2>1. /\ home \in [Blocks -> Vals \cup {Torn}]
        /\ dlog \in [Slots -> Vals \cup {Torn}]
        /\ cache \in [Blocks -> Vals \cup {Torn, NotCached}]
        /\ pin \in [Blocks -> Int]
    BY DEF Init
  <2>2. dhead \in Seq(Blocks) /\ lh \in Seq(Blocks)
    BY DEF Init
  <2>3. /\ outstanding \in Int /\ tail \in Nat /\ mode \in Modes
        /\ sleeping \subseteq Procs /\ panicked \subseteq Procs
    BY DEF Init
  <2>4. committing \in BOOLEAN
    BY Zenon DEF Init
  <2>5. pc \in [Procs -> PCs]
    BY Zenon DEF Init
  <2>6. held \in [Procs -> Blocks \cup {NoBlock}]
    BY Zenon DEF Init
  <2>7. wrote \in [Procs -> SUBSET Blocks]
    BY Zenon DEF Init
  <2> HIDE DEF Slots, PCs, Modes
  <2> QED
    BY Zenon, <2>1, <2>2, <2>3, <2>4, <2>5, <2>6, <2>7 DEF Types
<1>2. ControlInv
  BY Zenon, <1>0 DEF ProcsCount, Init, ControlInv
<1>3. LockInv
  BY Zenon, <1>0 DEF Init, LockInv
<1>4. HeadInv
  BY <1>0 DEF Init, HeadInv, NoRepeat
<1>5. PinInv
  BY Zenon DEF Init, PinInv
<1>6. CleanInv
  BY Zenon DEF Init, CleanInv
<1>7. CopyInv
  BY Zenon, <1>0 DEF CopyInv
<1>8. RecoverInv
  BY Zenon DEF Init, RecoverInv
<1> QED
  BY Zenon, <1>1, <1>2, <1>3, <1>4, <1>5, <1>6, <1>7, <1>8 DEF IInv

\* A crash keeps the disk alone, and what IInv says of the disk alone holds
\* in every state.
LEMMA CrashIInv ==
  ASSUME ProcsCount, IInv, Crash
  PROVE  IInv'
<1>0. /\ Types /\ ControlInv /\ LockInv /\ HeadInv /\ PinInv
      /\ CleanInv /\ CopyInv /\ RecoverInv
  BY Zenon DEF IInv
<1> USE <1>0 DEF Types
<1>a. Committers' = {} /\ InOp' = {}
  BY Zenon DEF Crash, Committers, InOp
<1>1. Types'
  <2>1. home' = home /\ dlog' = dlog /\ dhead' = dhead
    BY Zenon DEF Crash
  <2>2. /\ cache' \in [Blocks -> Vals \cup {Torn, NotCached}]
        /\ pin' \in [Blocks -> Int] /\ lh' \in Seq(Blocks)
    BY DEF Crash
  <2>3. outstanding' \in Int /\ tail' \in Nat /\ mode' \in Modes
    BY DEF Crash
  <2>4. sleeping' \subseteq Procs /\ panicked' \subseteq Procs
    BY Zenon DEF Crash
  <2>5. committing' \in BOOLEAN
    BY Zenon DEF Crash
  <2>6. pc' \in [Procs -> PCs]
    BY Zenon DEF Crash
  <2>7. held' \in [Procs -> Blocks \cup {NoBlock}]
    BY Zenon DEF Crash
  <2>8. wrote' \in [Procs -> SUBSET Blocks]
    BY Zenon DEF Crash
  <2> HIDE DEF PCs, Modes
  <2> QED
    BY Zenon, <2>1, <2>2, <2>3, <2>4, <2>5, <2>6, <2>7, <2>8
<1>2. ControlInv'
  BY Zenon, <1>a DEF ProcsCount, ControlInv, Crash
<1>3. LockInv'
  BY Zenon, <1>a DEF LockInv, Crash
<1>4. HeadInv'
  BY <1>a DEF HeadInv, Crash, NoRepeat
<1>5. PinInv'
  BY Zenon DEF PinInv, Crash
<1>6. CleanInv'
  BY Zenon DEF CleanInv, Crash
<1>7. CopyInv'
  BY Zenon, <1>a DEF CopyInv
<1>8. RecoverInv'
  BY Zenon DEF RecoverInv, Crash
<1> QED
  BY Zenon, <1>1, <1>2, <1>3, <1>4, <1>5, <1>6, <1>7, <1>8 DEF IInv

\* read_head(): memory has the header that is on the disk.
LEMMA ReadHeadIInv ==
  ASSUME IInv, ReadHead
  PROVE  IInv'
<1>0. /\ Types /\ ControlInv /\ LockInv /\ HeadInv /\ PinInv
      /\ CleanInv /\ CopyInv /\ RecoverInv
  BY Zenon DEF IInv
<1> USE <1>0 DEF Types
<1>a. Committers = {} /\ InOp = {} /\ Committers' = {} /\ InOp' = {}
  BY Zenon, NobodyRuns DEF ReadHead
<1>1. Types'
  BY Zenon DEF ReadHead
<1>2. ControlInv'
  BY Zenon, <1>a DEF ControlInv, ReadHead
<1>3. LockInv'
  BY Zenon, <1>a DEF LockInv, ReadHead
<1>4. HeadInv'
  BY <1>a DEF HeadInv, ReadHead
<1>5. PinInv'
  BY Zenon DEF PinInv, ReadHead
<1>6. CleanInv'
  BY Zenon DEF CleanInv, ReadHead
<1>7. CopyInv'
  BY Zenon, <1>a DEF CopyInv
<1>8. RecoverInv'
  BY DEF RecoverInv, ReadHead
<1> QED
  BY Zenon, <1>1, <1>2, <1>3, <1>4, <1>5, <1>6, <1>7, <1>8 DEF IInv

\* install_trans(1) starts to write a home block: a crash now repeats it.
LEMMA RecoverIInv ==
  ASSUME IInv, Recover
  PROVE  IInv'
<1>0. /\ Types /\ ControlInv /\ LockInv /\ HeadInv /\ PinInv
      /\ CleanInv /\ CopyInv /\ RecoverInv
  BY Zenon DEF IInv
<1> USE <1>0 DEF Types
<1> DEFINE b == lh[tail + 1]
<1>a. Committers = {} /\ InOp = {} /\ Committers' = {} /\ InOp' = {}
  BY Zenon, NobodyRuns DEF Recover
<1>b. /\ tail + 1 \in 1..Len(lh) /\ tail + 1 \in 1..(nlog - 1)
      /\ lh = dhead /\ b \in Blocks /\ dlog[tail + 1] \in Vals
  BY Zenon, Recovering DEF Recover
<1>c. /\ cache' = [cache EXCEPT ![b] = dlog[tail + 1]]
      /\ home' = [home EXCEPT ![b] = Torn]
      /\ mode = "recover" /\ mode' = "recover_io"
      /\ UNCHANGED <<dlog, dhead, pin, held, lh, outstanding, committing, pc,
                     wrote, sleeping, tail, panicked>>
  BY Zenon DEF Recover
<1>1. Types'
  BY Zenon, <1>b, <1>c
<1>2. ControlInv'
  BY Zenon, <1>a, <1>c DEF ControlInv
<1>3. LockInv'
  BY Zenon, <1>a, <1>c DEF LockInv, ControlInv
<1>4. HeadInv'
  BY Zenon, <1>a, <1>c DEF HeadInv
<1>5. PinInv'
  BY Zenon, <1>c DEF PinInv
<1>6. CleanInv'
  <2>1. \A c \in Blocks : cache'[c] # Torn
    BY ZenonT(60), <1>b, <1>c DEF CleanInv
  <2>2. \A c \in Blocks : home'[c] = Torn => \E i \in 1..Len(dhead) : dhead[i] = c
    BY Zenon, <1>b, <1>c DEF CleanInv
  <2> QED
    BY Zenon, <1>c, <2>1, <2>2 DEF CleanInv
<1>7. CopyInv'
  BY Zenon, <1>a DEF CopyInv
<1>8. RecoverInv'
  <2>1. \A i \in 1..tail : home'[lh[i]] = dlog[i]
    BY ONLY <1>b, <1>c, RecoverInv, HeadInv, Types DEF Types, RecoverInv, HeadInv, NoRepeat
  <2>2. ASSUME NEW c \in Blocks, cache'[c] # NotCached
        PROVE  \E i \in 1..(tail + 1) : lh[i] = c /\ cache'[c] = dlog[i]
    <3>1. CASE c = b
      <4>1. tail + 1 \in 1..(tail + 1) /\ cache'[b] = dlog[tail + 1]
        BY <1>b, <1>c
      <4> QED
        BY Zenon, <3>1, <4>1
    <3>2. CASE c # b
      <4>1. cache'[c] = cache[c]
        BY Zenon, <1>c, <3>2
      <4>2. \E i \in 1..tail : lh[i] = c /\ cache[c] = dlog[i]
        BY Zenon, <1>c, <2>2, <4>1 DEF RecoverInv
      <4> QED
        BY <4>1, <4>2
    <3> QED
      BY Zenon, <3>1, <3>2
  <2> QED
    BY <1>b, <1>c, <2>1, <2>2 DEF RecoverInv
<1> QED
  BY Zenon, <1>1, <1>2, <1>3, <1>4, <1>5, <1>6, <1>7, <1>8 DEF IInv

\* When its write ends one more home block equals its log block.
LEMMA RecoverDoneIInv ==
  ASSUME IInv, RecoverDone
  PROVE  IInv'
<1>0. /\ Types /\ ControlInv /\ LockInv /\ HeadInv /\ PinInv
      /\ CleanInv /\ CopyInv /\ RecoverInv
  BY Zenon DEF IInv
<1> USE <1>0 DEF Types
<1> DEFINE b == lh[tail + 1]
<1>a. Committers = {} /\ InOp = {} /\ Committers' = {} /\ InOp' = {}
  BY Zenon, NobodyRuns DEF RecoverDone
<1>b. /\ tail + 1 \in 1..Len(lh) /\ tail + 1 \in 1..(nlog - 1)
      /\ lh = dhead /\ b \in Blocks /\ dlog[tail + 1] \in Vals
      /\ cache[b] = dlog[tail + 1]
  BY Zenon, Recovering DEF RecoverDone, RecoverInv
<1>c. /\ home' = [home EXCEPT ![b] = dlog[tail + 1]]
      /\ mode = "recover_io"
      /\ mode' = IF MoreBlocks THEN "recover" ELSE "recover_clear"
      /\ tail' = IF MoreBlocks THEN tail + 1 ELSE 0
      /\ UNCHANGED <<dlog, dhead, cache, pin, held, lh, outstanding,
                     committing, pc, wrote, sleeping, panicked>>
  BY Zenon, <1>b DEF RecoverDone, RecoverTail
<1>d. /\ mode' \in {"recover", "recover_clear"} /\ tail' \in Nat
      /\ mode' = "recover" => tail' = tail + 1 /\ tail + 1 < Len(lh)
      /\ mode' = "recover_clear" => tail' = 0 /\ tail + 1 = Len(lh)
  BY <1>b, <1>c DEF MoreBlocks
<1>e. \A i \in 1..(tail + 1) : home'[lh[i]] = dlog[i]
  <2>1. \A i \in 1..tail : lh[i] \in Blocks /\ lh[i] # b
    BY <1>b DEF HeadInv, NoRepeat
  <2>2. \A i \in 1..tail : home[lh[i]] = dlog[i]
    BY Zenon, <1>c DEF RecoverInv
  <2>3. \A i \in 1..tail : home'[lh[i]] = dlog[i]
    BY Zenon, <1>c, <2>1, <2>2
  <2>4. home'[b] = dlog[tail + 1]
    BY Zenon, <1>b, <1>c
  <2>5. \A i \in 1..(tail + 1) : i \in 1..tail \/ i = tail + 1
    BY Zenon, OneMore
  <2> QED
    BY Zenon, <2>3, <2>4, <2>5
<1>f. \A c \in Blocks : cache[c] # NotCached =>
        \E i \in 1..(tail + 1) : lh[i] = c /\ cache[c] = dlog[i]
  BY Zenon, <1>c DEF RecoverInv
<1>1. Types'
  BY Zenon, <1>b, <1>c, <1>d
<1>2. ControlInv'
  BY Zenon, <1>a, <1>c, <1>d DEF ControlInv
<1>3. LockInv'
  BY Zenon, <1>a, <1>c DEF LockInv
<1>4. HeadInv'
  BY Zenon, <1>a, <1>b, <1>c, <1>d DEF HeadInv
<1>5. PinInv'
  BY Zenon, <1>d DEF PinInv
<1>6. CleanInv'
  <2>1. \A c \in Blocks : home'[c] = Torn => home[c] = Torn
    BY Zenon, <1>b, <1>c
  <2> QED
    BY Zenon, <1>c, <1>d, <2>1 DEF CleanInv
<1>7. CopyInv'
  BY Zenon, <1>a DEF CopyInv
<1>8. RecoverInv'
  <2>1. CASE mode' = "recover"
    <3>1. \A i \in 1..tail' : home'[lh'[i]] = dlog'[i]
      BY Zenon, <1>c, <1>d, <1>e, <2>1
    <3>2. \A c \in Blocks : cache'[c] # NotCached =>
            \E i \in 1..tail' : lh'[i] = c /\ cache'[c] = dlog'[i]
      BY Zenon, <1>c, <1>d, <1>f, <2>1
    <3> QED
      BY Zenon, <2>1, <3>1, <3>2 DEF RecoverInv
  <2>2. CASE mode' = "recover_clear"
    <3>1. \A i \in 1..Len(lh') : home'[lh'[i]] = dlog'[i]
      BY Zenon, <1>c, <1>d, <1>e, <2>2
    <3>2. \A c \in Blocks : cache'[c] # NotCached => cache'[c] = home'[c]
      BY <1>c, <1>e, <1>f
    <3> QED
      BY Zenon, <2>2, <3>1, <3>2 DEF RecoverInv
  <2> QED
    BY Zenon, <1>d, <2>1, <2>2
<1> QED
  BY Zenon, <1>1, <1>2, <1>3, <1>4, <1>5, <1>6, <1>7, <1>8 DEF IInv

\* The recovered log is erased when every home block is complete.
LEMMA RecoverClearIInv ==
  ASSUME IInv, RecoverClear
  PROVE  IInv'
<1>0. /\ Types /\ ControlInv /\ LockInv /\ HeadInv /\ PinInv
      /\ CleanInv /\ CopyInv /\ RecoverInv
  BY Zenon DEF IInv
<1> USE <1>0 DEF Types
<1>a. Committers = {} /\ InOp = {} /\ Committers' = {} /\ InOp' = {}
  BY Zenon, NobodyRuns DEF RecoverClear
<1>b. /\ lh = dhead /\ \A i \in 1..Len(dhead) : dlog[i] \in Vals
      /\ \A i \in 1..Len(lh) : home[lh[i]] = dlog[i]
      /\ \A c \in Blocks : cache[c] # NotCached => cache[c] = home[c]
  BY Zenon DEF RecoverClear, HeadInv, RecoverInv
<1>c. \A c \in Blocks : home[c] # Torn
  <2> SUFFICES ASSUME NEW c \in Blocks, home[c] = Torn PROVE FALSE
    BY Zenon
  <2>1. PICK i \in 1..Len(dhead) : dhead[i] = c
    BY Zenon DEF CleanInv
  <2>2. home[c] = dlog[i] /\ dlog[i] \in Vals
    BY Zenon, <1>b, <2>1
  <2> QED
    BY Zenon, <2>2
<1>1. Types'
  BY DEF RecoverClear
<1>2. ControlInv'
  BY Zenon, <1>a DEF ControlInv, RecoverClear
<1>3. LockInv'
  BY ZenonT(60), <1>a DEF LockInv, RecoverClear
<1>4. HeadInv'
  BY ONLY <1>a, HeadInv, RecoverClear, Types, LogAssumption DEF Types, HeadInv, RecoverClear, NoRepeat
<1>5. PinInv'
  BY DEF PinInv, RecoverClear, ControlInv
<1>6. CleanInv'
  BY Zenon, <1>b, <1>c DEF CleanInv, RecoverClear
<1>7. CopyInv'
  BY Zenon, <1>a DEF CopyInv
<1>8. RecoverInv'
  BY Zenon DEF RecoverInv, RecoverClear
<1> QED
  BY Zenon, <1>1, <1>2, <1>3, <1>4, <1>5, <1>6, <1>7, <1>8 DEF IInv
=============================================================================
