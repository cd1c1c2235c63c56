----------------------------- MODULE LogProofs ------------------------------
(***************************************************************************)
(* IInv is an inductive invariant of Log, and with it the safety           *)
(* properties of Log hold for any number of processes, blocks and contents,*)
(* any MAXOPBLOCKS, LOGSIZE and log region.                                *)
(*                                                                         *)
(* From the same invariant the redo log implements the atomic disk: it     *)
(* says what each commit and recovery step leaves on the disk, and each    *)
(* step is shown to be a step of AtomicDisk or to leave it as it is.  The  *)
(* single write of the header is the commit.                               *)
(***************************************************************************)
EXTENDS LogSteps, FiniteSetTheorems

USE LogAssumption DEF Slots, PCs, CommitPCs, Modes, disk, bufs, procs, state

-----------------------------------------------------------------------------
(* Finite sets.                                                            *)

\* The counter log.outstanding is one more for one more system call.
LEMMA ProcsAreCounted == ProcsCount
<1>1. Cardinality({}) = 0
  BY Zenon, FS_EmptySet
<1>2. ASSUME NEW S \in SUBSET Procs PROVE IsFiniteSet(S)
  BY Zenon, <1>2, FS_Subset
<1>3. \A S \in SUBSET Procs : Cardinality(S) \in Nat
  BY Zenon, <1>2, FS_CardinalityType
<1>4. \A S \in SUBSET Procs : Cardinality(S) = 0 => S = {}
  BY Zenon, <1>2, FS_EmptySet
<1>5. \A S \in SUBSET Procs, p \in Procs :
        p \notin S => Cardinality(S \cup {p}) = Cardinality(S) + 1
  BY Zenon, <1>2, FS_AddElement
<1> QED
  BY Zenon, <1>1, <1>3, <1>4, <1>5 DEF ProcsCount

\* A set of pairs from S and 1..m has no more than |S| * m elements: what
\* running system calls reserve is bounded by log.outstanding*MAXOPBLOCKS.
LEMMA ProductBound ==
  ASSUME NEW S, IsFiniteSet(S), NEW m \in Nat,
         NEW T, T \subseteq S \X (1..m)
  PROVE  /\ IsFiniteSet(T)
         /\ Cardinality(T) \in Nat
         /\ Cardinality(T) <= Cardinality(S) * m
<1>1. IsFiniteSet(1..m) /\ Cardinality(1..m) = m
  BY FS_Interval
<1>2. /\ IsFiniteSet(S \X (1..m))
      /\ Cardinality(S \X (1..m)) = Cardinality(S) * Cardinality(1..m)
  BY Zenon, <1>1, FS_Product
<1>3. IsFiniteSet(T) /\ Cardinality(T) <= Cardinality(S \X (1..m))
  BY Zenon, <1>2, FS_Subset
<1> QED
  BY Zenon, <1>1, <1>2, <1>3, FS_CardinalityType

\* A subset that lacks an element is smaller by one at least.
LEMMA SmallerByOne ==
  ASSUME NEW S, IsFiniteSet(S), NEW x \in S,
         NEW T, T \subseteq S, x \notin T
  PROVE  Cardinality(T) <= Cardinality(S) - 1
<1>1. IsFiniteSet(S \ {x}) /\ Cardinality(S \ {x}) = Cardinality(S) - 1
  BY Zenon, FS_RemoveElement
<1>2. T \subseteq S \ {x}
  BY Zenon
<1> QED
  BY <1>1, <1>2, FS_Subset

-----------------------------------------------------------------------------
(* Every step keeps the invariant.                                         *)

\* Every step preserves the invariant.
LEMMA NextIInv == IInv /\ [Next]_vars => IInv'
<1> SUFFICES ASSUME IInv, [Next]_vars PROVE IInv'
  BY Zenon
<1>1. ASSUME NEW p \in Procs, CommitStep(p) PROVE IInv'
  BY Zenon, <1>1, WriteLogIInv, WriteLogDoneIInv, WriteHeadIInv, InstallTransIInv,
     InstallTransDoneIInv, ClearHeadIInv, EndCommitIInv DEF CommitStep
<1>2. ASSUME RecoverStep PROVE IInv'
  BY Zenon, <1>2, ReadHeadIInv, RecoverIInv, RecoverDoneIInv, RecoverClearIInv
  DEF RecoverStep
<1>3. ASSUME UNCHANGED vars PROVE IInv'
  <2>1. Committers' = Committers /\ InOp' = InOp
    BY Zenon, <1>3 DEF vars, Committers, InOp
  <2>2. Types'
    BY Zenon, <1>3 DEF vars, IInv, Types
  <2>3. ControlInv' /\ LockInv'
    BY Zenon, <1>3, <2>1 DEF vars, IInv, ControlInv, LockInv
  <2>4. HeadInv'
    BY <1>3, <2>1 DEF vars, IInv, HeadInv, InLog
  <2>5. PinInv'
    BY <1>3, <2>1 DEF vars, IInv, PinInv, ToInstall
  <2>6. CleanInv'
    BY Zenon, <1>3 DEF vars, IInv, CleanInv
  <2>7. CopyInv'
    BY Zenon, <1>3, <2>1 DEF vars, IInv, CopyInv, Contents
  <2>8. RecoverInv'
    BY <1>3 DEF vars, IInv, RecoverInv
  <2> QED
    BY Zenon, <2>2, <2>3, <2>4, <2>5, <2>6, <2>7, <2>8 DEF IInv
<1> QED
  BY Zenon, <1>1, <1>2, <1>3, BreadIInv, BrelseIInv, EvictIInv, BeginOpEnterIInv,
     BeginOpSleepIInv, KillIInv, LogWriteIInv, EndOpIInv, CrashIInv, ProcsAreCounted
  DEF Next

-----------------------------------------------------------------------------
(* The reservation of log space.                                           *)

\* What the running system calls may still log is finite.
LEMMA ReservedFinite ==
  ASSUME InOp \subseteq Procs
  PROVE  IsFiniteSet(Reserved) /\ Cardinality(Reserved) \in Nat
<1>1. IsFiniteSet(InOp)
  BY Zenon, FS_Subset
<1>2. Reserved \subseteq InOp \X (1..MAXOPBLOCKS)
  BY Zenon DEF Reserved
<1> QED
  BY Zenon, <1>1, <1>2, ProductBound

\* begin_op() lets a call in if the log has room for the whole reservation
\* of every running call and of this one.
LEMMA BeginOpEnterSpace ==
  ASSUME IInv, SpaceInv, NEW p \in Procs, BeginOpEnter(p), IInv'
  PROVE  SpaceInv'
<1>1. /\ InOp' = InOp \cup {p} /\ lh' = lh /\ Len(lh) \in Nat
      /\ wrote' = [wrote EXCEPT ![p] = {}] /\ wrote'[p] = {}
      /\ IsFiniteSet(InOp') /\ SpaceForOp
      /\ outstanding' = outstanding + 1 /\ outstanding' = Cardinality(InOp')
  <2>1. IsFiniteSet(InOp')
    BY Zenon, FS_Subset DEF InOp
  <2> QED
    BY <2>1 DEF BeginOpEnter, InOp, IInv, ControlInv, Types
<1>2. \A q \in InOp' : /\ IsFiniteSet(wrote'[q])
                       /\ Cardinality(wrote'[q]) <= MAXOPBLOCKS
  BY <1>1, FS_EmptySet DEF SpaceInv, InOp, IInv, Types
<1>3. LogSpaceReserved'
  <2> DEFINE K == outstanding' * MAXOPBLOCKS
  <2>1. Reserved' \subseteq InOp' \X (1..MAXOPBLOCKS)
    BY Zenon DEF Reserved
  <2>2. Cardinality(Reserved') \in Nat /\ Cardinality(Reserved') <= K
    BY Zenon, <1>1, <2>1, ProductBound
  <2>3. K \in Int /\ Len(lh) + K <= LOGSIZE
    BY <1>1 DEF SpaceForOp, IInv, Types
  <2> HIDE DEF K
  <2> QED
    BY <1>1, <2>2, <2>3 DEF LogSpaceReserved
<1> QED
  BY Zenon, <1>2, <1>3 DEF SpaceInv

\* Steps that log nothing, and let nobody in, keep the reservation.
LEMMA KeepSpace ==
  ASSUME IInv, SpaceInv, lh' = lh, wrote' = wrote, InOp' \subseteq InOp
  PROVE  SpaceInv'
<1>1. InOp \subseteq Procs /\ Len(lh) \in Nat
  BY DEF InOp, IInv, Types
<1>2. Reserved' \subseteq Reserved
  BY Zenon DEF Reserved
<1>3. IsFiniteSet(Reserved) /\ Cardinality(Reserved) \in Nat
  BY Zenon, <1>1, ReservedFinite
<1>4. /\ Cardinality(Reserved') \in Nat
      /\ Cardinality(Reserved') <= Cardinality(Reserved)
  BY Zenon, <1>2, <1>3, FS_Subset, FS_CardinalityType
<1> QED
  BY <1>1, <1>3, <1>4 DEF SpaceInv, LogSpaceReserved

\* With no call running nothing is reserved.
LEMMA IdleSpace ==
  ASSUME IInv', InOp' = {}
  PROVE  SpaceInv'
<1>1. Reserved' = {} /\ lh' \in Seq(Blocks) /\ Len(lh') <= LOGSIZE
  BY Zenon DEF Reserved, IInv, Types, HeadInv
<1>2. Cardinality(Reserved') = 0
  BY Zenon, <1>1, FS_EmptySet
<1> QED
  BY <1>1, <1>2 DEF SpaceInv, LogSpaceReserved

\* log_write() of a block that is new in the log uses up one block of its
\* call's reservation; absorption never costs more.
LEMMA LogWriteSpace ==
  ASSUME IInv, SpaceInv, NEW p \in Procs, NEW v \in Vals, LogWrite(p, v)
  PROVE  SpaceInv'
<1> DEFINE b == held[p]
           w == wrote[p] \cup {b}
<1>a. /\ p \in InOp /\ InOp' = InOp /\ InOp \subseteq Procs /\ b \in Blocks
      /\ lh \in Seq(Blocks) /\ Len(lh) \in Nat
      /\ Cardinality(w) <= MAXOPBLOCKS
  BY DEF LogWrite, InOp, IInv, Types
<1>b. /\ Cardinality(wrote[p]) \in Nat /\ Cardinality(w) \in Nat
      /\ IsFiniteSet(w) /\ Cardinality(wrote[p]) <= Cardinality(w)
      /\ b \notin wrote[p] => Cardinality(w) = Cardinality(wrote[p]) + 1
  <2>1. IsFiniteSet(wrote[p])
    BY Zenon, <1>a DEF SpaceInv
  <2>2. /\ IsFiniteSet(w)
        /\ Cardinality(w) = IF b \in wrote[p] THEN Cardinality(wrote[p])
                            ELSE Cardinality(wrote[p]) + 1
    BY Zenon, <2>1, FS_AddElement
  <2>3. Cardinality(wrote[p]) \in Nat
    BY Zenon, <2>1, FS_CardinalityType
  <2> QED
    BY <2>1, <2>2, <2>3
<1>c. IsFiniteSet(Reserved) /\ Cardinality(Reserved) \in Nat
  BY Zenon, <1>a, ReservedFinite
<1>1. CASE lh' = lh /\ wrote' = wrote
  BY Zenon, <1>a, <1>1, KeepSpace
<1>2. CASE /\ wrote' = [wrote EXCEPT ![p] = w]
           /\ lh' = IF InLog(b) THEN lh ELSE Append(lh, b)
  <2>1. wrote'[p] = w /\ \A q \in InOp : q # p => wrote'[q] = wrote[q]
    BY Zenon, <1>a, <1>2 DEF IInv, Types
  <2>2. \A q \in InOp' : /\ IsFiniteSet(wrote'[q])
                         /\ Cardinality(wrote'[q]) <= MAXOPBLOCKS
    BY Zenon, <1>a, <1>b, <2>1 DEF SpaceInv
  <2>3. \A q \in InOp : Cardinality(wrote[q]) \in Nat
    BY Zenon, FS_CardinalityType DEF SpaceInv
  <2>4. Reserved' \subseteq Reserved
    <3> HIDE DEF w
    <3> SUFFICES ASSUME NEW t \in Reserved' PROVE t \in Reserved
      BY Zenon
    <3>1. /\ t \in InOp \X (1..MAXOPBLOCKS)
          /\ t[2] > Cardinality(wrote'[t[1]])
      BY Zenon, <1>a DEF Reserved
    <3>2. t[1] \in InOp /\ t[2] \in Nat
      BY <3>1
    <3>3. /\ Cardinality(wrote'[t[1]]) >= Cardinality(wrote[t[1]])
          /\ Cardinality(wrote'[t[1]]) \in Nat
      BY <1>b, <2>1, <2>3, <3>2
    <3>4. t[2] > Cardinality(wrote[t[1]])
      BY <2>3, <3>1, <3>2, <3>3
    <3> QED
      BY Zenon, <3>1, <3>4 DEF Reserved
  <2>5. /\ IsFiniteSet(Reserved') /\ Cardinality(Reserved') \in Nat
        /\ Cardinality(Reserved') <= Cardinality(Reserved)
    BY Zenon, <1>c, <2>4, FS_Subset, FS_CardinalityType
  <2>6. CASE InLog(b)
    <3>1. lh' = lh
      BY Zenon, <1>2, <2>6
    <3> QED
      BY <1>a, <1>c, <2>2, <2>5, <3>1 DEF SpaceInv, LogSpaceReserved
  <2>7. CASE ~InLog(b)
    <3> DEFINE t == <<p, Cardinality(w)>>
    <3>1. b \notin wrote[p]
      BY Zenon, <1>a, <2>7 DEF IInv, HeadInv
    <3>2. Cardinality(w) \in 1..MAXOPBLOCKS
      BY <1>a, <1>b, <3>1
    <3>3. t \in Reserved
      BY <1>a, <1>b, <3>1, <3>2 DEF Reserved
    <3>4. t \notin Reserved'
      <4>1. wrote'[t[1]] = w /\ t[2] = Cardinality(w)
        BY Zenon, <2>1
      <4>2. ~(t[2] > Cardinality(wrote'[t[1]]))
        BY <1>b, <4>1
      <4> QED
        BY Zenon, <4>2 DEF Reserved
    <3>5. Cardinality(Reserved') <= Cardinality(Reserved) - 1
      BY Zenon, <1>c, <2>4, <3>3, <3>4, SmallerByOne
    <3>6. Len(lh') = Len(lh) + 1
      BY <1>a, <1>2, <2>7
    <3> QED
      BY <1>a, <1>c, <2>2, <2>5, <3>5, <3>6 DEF SpaceInv, LogSpaceReserved
  <2> QED
    BY Zenon, <2>6, <2>7
<1> QED
  BY Zenon, <1>1, <1>2 DEF LogWrite

\* Every step keeps the reservation.
LEMMA NextSpace == IInv /\ SpaceInv /\ [Next]_vars /\ IInv' => SpaceInv'
<1> SUFFICES ASSUME IInv, SpaceInv, [Next]_vars, IInv' PROVE SpaceInv'
  BY Zenon
<1>1. ASSUME NEW p \in Procs,
             Brelse(p) \/ BeginOpSleep(p) \/ Kill(p) \/ \E b \in Blocks : Bread(p, b)
      PROVE  SpaceInv'
  <2>1. lh' = lh /\ wrote' = wrote /\ pc' = pc
    BY Zenon, <1>1 DEF Brelse, BeginOpSleep, Kill, Bread
  <2> QED
    BY Zenon, <2>1, KeepSpace DEF InOp
<1>2. ASSUME NEW b \in Blocks, Evict(b) PROVE SpaceInv'
  BY Zenon, <1>2, KeepSpace DEF Evict, InOp
<1>3. ASSUME NEW p \in Procs, EndOp(p) PROVE SpaceInv'
  <2>1. lh' = lh /\ wrote' = wrote
    BY Zenon, <1>3 DEF EndOp
  <2>2. pc' = pc \/ \E l \in PCs \ {"op"} : pc' = [pc EXCEPT ![p] = l]
    BY Zenon, <1>3 DEF EndOp, CommitStart
  <2>3. InOp' \subseteq InOp
    BY <2>2 DEF InOp, IInv, Types
  <2> QED
    BY Zenon, <2>1, <2>3, KeepSpace
<1>4. ASSUME NEW p \in Procs, CommitStep(p) PROVE SpaceInv'
  <2>1. p \in Committers /\ \E l \in PCs \ {"op"} : pc' = [pc EXCEPT ![p] = l]
    BY Zenon, <1>4 DEF CommitStep, Committers, WriteLog, WriteLogDone, WriteHead,
         InstallTrans, InstallTransDone, ClearHead, EndCommit
  <2>2. InOp = {}
    BY Zenon, <2>1, OnlyCommitter
  <2>3. InOp' = {}
    BY Zenon, <2>1, <2>2 DEF InOp, IInv, Types
  <2> QED
    BY Zenon, <2>3, IdleSpace
<1>5. ASSUME RecoverStep PROVE SpaceInv'
  <2>1. mode # "up" /\ UNCHANGED procs
    BY Zenon, <1>5 DEF RecoverStep, ReadHead, Recover, RecoverDone, RecoverClear
  <2> QED
    BY Zenon, <2>1, NobodyRuns, IdleSpace
<1>6. ASSUME Crash PROVE SpaceInv'
  <2>1. InOp' = {}
    BY Zenon, <1>6 DEF Crash, InOp
  <2> QED
    BY Zenon, <2>1, IdleSpace
<1>7. ASSUME UNCHANGED vars PROVE SpaceInv'
  BY Zenon, <1>7, KeepSpace DEF vars, InOp
<1> QED
  BY Zenon, <1>1, <1>2, <1>3, <1>4, <1>5, <1>6, <1>7, BeginOpEnterSpace,
     LogWriteSpace DEF Next

-----------------------------------------------------------------------------
(* The theorems.                                                           *)

\* The invariant of log.c holds in every reachable state: through the calls
\* of any number of processes, the commits and the recoveries from crashes.
THEOREM LogInvariant == Spec => [](IInv /\ SpaceInv)
<1>1. Init => IInv /\ SpaceInv
  <2> SUFFICES ASSUME Init PROVE IInv /\ SpaceInv
    BY Zenon
  <2>1. InOp = {} /\ Reserved = {} /\ lh = <<>>
    BY Zenon DEF Init, InOp, Reserved
  <2>2. Cardinality(Reserved) = 0
    BY Zenon, <2>1, FS_EmptySet
  <2> QED
    BY <2>1, <2>2, InitIInv, ProcsAreCounted DEF SpaceInv, LogSpaceReserved
<1>2. IInv /\ SpaceInv /\ [Next]_vars => IInv' /\ SpaceInv'
  BY Zenon, NextIInv, NextSpace
<1> QED
  BY <1>1, <1>2, PTL DEF Spec

\* The variables keep their types, and the log its bounds: log_write() and
\* the commit never touch a block behind the log region.
THEOREM LogTypes == Spec => []TypeOK
<1>1. IInv => TypeOK
  <2> SUFFICES ASSUME IInv PROVE TypeOK
    BY Zenon
  <2>1. cache \in [Blocks -> Vals \cup {NotCached}]
    BY DEF IInv, Types, CleanInv
  <2>2. pin \in [Blocks -> {0, 1}]
    <3>1. \A b \in Blocks : pin[b] \in {0, 1}
      BY Zenon DEF IInv, PinInv, ControlInv
    <3> QED
      BY Zenon, <3>1 DEF IInv, Types
  <2>3. outstanding \in Nat
    <3>1. IsFiniteSet(InOp)
      BY Zenon, FS_Subset DEF InOp
    <3> QED
      BY Zenon, <3>1, FS_CardinalityType DEF IInv, ControlInv
  <2>4. Len(lh) <= nlog - 1 /\ Len(lh) <= LOGSIZE
    BY Zenon DEF IInv, HeadInv
  <2> HIDE DEF PCs, Modes, Slots
  <2> QED
    BY Zenon, <2>1, <2>2, <2>3, <2>4 DEF IInv, Types, TypeOK
<1> QED
  BY <1>1, LogInvariant, PTL

\* No update is lost when bget() recycles a buffer.
THEOREM LogRecyclable == Spec => []RecyclableIsClean
<1>1. IInv => RecyclableIsClean
  BY Zenon DEF IInv, Types, ControlInv, CleanInv, RecyclableIsClean, Unreferenced, Locked, InOp
<1> QED
  BY <1>1, LogInvariant, PTL

\* When the last end_op() has returned, its transaction is in its home
\* blocks and erased from the log.
THEOREM LogQuiescent == Spec => []QuiescentIsDurable
<1>1. IInv => QuiescentIsDurable
  <2> SUFFICES ASSUME IInv, mode = "up", ~committing, outstanding = 0
               PROVE  /\ dhead = <<>> /\ lh = <<>>
                      /\ \A b \in Blocks : Contents(b) = home[b] /\ pin[b] = 0
    BY Zenon DEF QuiescentIsDurable
  <2>1. Committers = {}
    BY Zenon DEF IInv, ControlInv
  <2>2. InOp = {}
    <3>1. IsFiniteSet(InOp)
      BY Zenon, FS_Subset DEF InOp
    <3>2. Cardinality(InOp) = 0
      BY Zenon DEF IInv, ControlInv
    <3> QED
      BY Zenon, <3>1, <3>2, FS_EmptySet
  <2>3. dhead = <<>> /\ lh = <<>> /\ panicked = {}
    BY Zenon, <2>1, <2>2 DEF IInv, ControlInv, HeadInv
  <2>4. \A b \in Blocks : pin[b] = 0
    BY <2>3 DEF IInv, PinInv
  <2>5. \A b \in Blocks : Contents(b) = home[b]
    BY Zenon, <2>3, <2>4 DEF IInv, CleanInv, Contents
  <2> QED
    BY Zenon, <2>3, <2>4, <2>5
<1> QED
  BY <1>1, LogInvariant, PTL

\* begin_op() admits no more calls than the log has room for, whatever the
\* calls log and in whatever order.
THEOREM LogReservation == Spec => []LogSpaceReserved
<1>1. SpaceInv => LogSpaceReserved
  BY Zenon DEF SpaceInv
<1> QED
  BY <1>1, LogInvariant, PTL

\* Nobody sleeps in begin_op() without a running call or a commit to wake it.
THEOREM LogWaker == Spec => []SleeperHasWaker
<1>1. IInv => SleeperHasWaker
  <2> SUFFICES ASSUME IInv, sleeping # {}, ~committing PROVE outstanding > 0
    BY Zenon DEF SleeperHasWaker
  <2>1. InOp # {} /\ IsFiniteSet(InOp)
    BY Zenon, FS_Subset DEF IInv, ControlInv, InOp
  <2>2. Cardinality(InOp) \in Nat /\ Cardinality(InOp) # 0
    BY Zenon, <2>1, FS_CardinalityType, FS_EmptySet
  <2> QED
    BY <2>2 DEF IInv, ControlInv
<1> QED
  BY <1>1, LogInvariant, PTL

-----------------------------------------------------------------------------
(* What is durable, in terms of the disk.                                  *)

\* In a header without repetition the position of a block is unique, so
\* recovery writes each home block once.
LEMMA ChooseIndex ==
  ASSUME NEW s, NoRepeat(s), NEW i \in 1..Len(s)
  PROVE  (CHOOSE k \in 1..Len(s) : s[k] = s[i]) = i
<1> DEFINE j == CHOOSE k \in 1..Len(s) : s[k] = s[i]
<1>1. j \in 1..Len(s) /\ s[j] = s[i]
  BY Zenon
<1> QED
  BY Zenon, <1>1 DEF NoRepeat

\* Of a block that the header names, the log's copy is durable.
LEMMA DurableLogged ==
  ASSUME NoRepeat(dhead), NEW i \in 1..Len(dhead), dhead[i] \in Blocks
  PROVE  DurableView[dhead[i]] = dlog[i]
  BY Zenon, ChooseIndex DEF DurableView

\* Of any other block, the home block is durable.
LEMMA DurableUnlogged ==
  ASSUME NEW b \in Blocks, \A i \in 1..Len(dhead) : dhead[i] # b
  PROVE  DurableView[b] = home[b]
  BY Zenon DEF DurableView

\* Writing the home block of a logged block makes no difference to what a
\* recovery would restore: installing is idempotent.
LEMMA DurableSame ==
  ASSUME dhead' = dhead, dlog' = dlog,
         \A b \in Blocks : home'[b] # home[b]
                             => \E i \in 1..Len(dhead) : dhead[i] = b
  PROVE  DurableView' = DurableView
  BY Zenon DEF DurableView

\* Erasing the header makes no difference if every logged block is home.
LEMMA DurableErased ==
  ASSUME NoRepeat(dhead), dhead' = <<>>, home' = home,
         dhead \in Seq(Blocks),
         \A i \in 1..Len(dhead) : dlog[i] = home[dhead[i]]
  PROVE  /\ DurableView' = DurableView
         /\ \A b \in Blocks : DurableView[b] = home[b]
<1>1. ASSUME NEW b \in Blocks PROVE DurableView[b] = home[b]
  <2>1. CASE \E i \in 1..Len(dhead) : dhead[i] = b
    <3>1. PICK i \in 1..Len(dhead) : dhead[i] = b
      BY Zenon, <2>1
    <3> QED
      BY Zenon, <3>1, DurableLogged
  <2>2. CASE ~\E i \in 1..Len(dhead) : dhead[i] = b
    BY Zenon, <2>2, DurableUnlogged
  <2> QED
    BY Zenon, <2>1, <2>2
<1>2. DurableView' = [b \in Blocks |-> home[b]]
  BY DEF DurableView
<1>3. DurableView = [b \in Blocks |-> DurableView[b]]
  BY Zenon DEF DurableView
<1> QED
  BY Zenon, <1>1, <1>2, <1>3

\* System calls see the contents of the cache, or else of the home block.
LEMMA CurrentSame ==
  ASSUME mode = "up", mode' = "up",
         \A b \in Blocks : Contents(b)' = Contents(b)
  PROVE  CurrentView' = CurrentView
  BY Zenon DEF CurrentView

-----------------------------------------------------------------------------
(* Each step implements a step of the atomic disk.                         *)

\* A freshly booted machine is a fresh atomic disk.
LEMMA InitRefines == Init => AD!Init
<1> SUFFICES ASSUME Init PROVE AD!Init
  BY Zenon
<1>1. DurableView = [b \in Blocks |-> home[b]]
  BY DEF Init, DurableView
<1>2. CurrentView = DurableView
  BY Zenon DEF CurrentView, DurableView, Init
<1>3. InOp = {} /\ home \in [Blocks -> Vals]
  BY Zenon DEF InOp, Init
<1> QED
  BY Zenon, <1>1, <1>2, <1>3 DEF AD!Init

\* What the atomic disk sees does not change.
Stutter == DurableView' = DurableView /\ CurrentView' = CurrentView /\ InOp' = InOp

\* bread(), brelse() and bget()'s recycling are invisible: the cache never
\* hides or loses an update.
LEMMA BufferRefines ==
  ASSUME IInv,
         \/ \E p \in Procs, b \in Blocks : Bread(p, b)
         \/ \E p \in Procs : Brelse(p)
         \/ \E b \in Blocks : Evict(b)
  PROVE  Stutter
<1> USE DEF IInv, Types
<1>1. /\ UNCHANGED <<home, dlog, dhead, pc, mode>> /\ mode = "up"
  BY Zenon DEF Bread, Brelse, Evict
<1>2. ASSUME NEW p \in Procs, NEW b \in Blocks, Bread(p, b)
      PROVE  \A c \in Blocks : Contents(c)' = Contents(c)
  <2>1. \A c \in Blocks : cache'[c] = IF c = b THEN Contents(b) ELSE cache[c]
    BY Zenon, <1>2 DEF Bread
  <2> QED
    BY Zenon, <1>1, <2>1 DEF Contents
<1>3. ASSUME NEW b \in Blocks, Evict(b)
      PROVE  \A c \in Blocks : Contents(c)' = Contents(c)
  <2>1. cache[b] = home[b]
    BY <1>3 DEF Evict, Unreferenced, Locked, CleanInv, ControlInv
  <2> QED
    BY <1>3, <2>1 DEF Evict, Contents
<1>4. ASSUME NEW p \in Procs, Brelse(p)
      PROVE  \A c \in Blocks : Contents(c)' = Contents(c)
  BY Zenon, <1>4 DEF Brelse, Contents
<1>5. \A c \in Blocks : Contents(c)' = Contents(c)
  BY <1>2, <1>3, <1>4
<1>6. DurableView' = DurableView /\ InOp' = InOp
  BY <1>1 DEF DurableView, InOp
<1> QED
  BY ZenonT(60), <1>1, <1>5, <1>6, CurrentSame DEF Stutter

\* Sleeping in begin_op(), kill() and the end of a commit touch no data.
LEMMA ControlRefines ==
  ASSUME IInv, NEW p \in Procs, BeginOpSleep(p) \/ Kill(p) \/ EndCommit(p)
  PROVE  Stutter
<1>1. UNCHANGED <<home, dlog, dhead, cache, mode>>
  BY Zenon DEF BeginOpSleep, Kill, EndCommit
<1>2. InOp' = InOp
  BY Zenon DEF BeginOpSleep, Kill, EndCommit, InOp, IInv, Types
<1>3. DurableView' = DurableView
  BY Zenon, <1>1 DEF DurableView
<1>4. CurrentView' = CurrentView
  BY Zenon, <1>1, <1>3 DEF CurrentView, Contents
<1> QED
  BY Zenon, <1>2, <1>3, <1>4 DEF Stutter

\* begin_op() that lets a call in begins it.
LEMMA BeginRefines ==
  ASSUME IInv, NEW p \in Procs, BeginOpEnter(p)
  PROVE  AD!Begin(p)
<1>1. UNCHANGED <<home, dlog, dhead, cache, mode>>
  BY Zenon DEF BeginOpEnter
<1>2. DurableView' = DurableView /\ CurrentView' = CurrentView
  BY Zenon, <1>1 DEF DurableView, CurrentView, Contents
<1>3. InOp' = InOp \cup {p} /\ p \notin InOp
  BY DEF BeginOpEnter, InOp, IInv, Types
<1> QED
  BY Zenon, <1>2, <1>3 DEF AD!Begin

\* end_op() ends it, whether or not it goes on to commit.
LEMMA EndRefines ==
  ASSUME IInv, NEW p \in Procs, EndOp(p)
  PROVE  AD!End(p)
<1> USE DEF IInv, Types
<1>1. UNCHANGED <<home, dlog, dhead, cache, mode>> /\ ~committing
  BY Zenon DEF EndOp, ControlInv, InOp
<1>2. DurableView' = DurableView /\ CurrentView' = CurrentView
  BY <1>1 DEF DurableView, CurrentView, Contents
<1>3. \/ pc' = [pc EXCEPT ![p] = "idle"]
      \/ pc' = [pc EXCEPT ![p] = CommitStart]
  BY Zenon, <1>1 DEF EndOp
<1>4. /\ pc[p] = "op" /\ pc'[p] # "op"
      /\ \A q \in Procs : q # p => pc'[q] = pc[q]
  BY Zenon, <1>3 DEF EndOp, CommitStart
<1>5. InOp' = InOp \ {p} /\ p \in InOp
  BY Zenon, <1>4 DEF InOp
<1> QED
  BY Zenon, <1>2, <1>5 DEF AD!End

\* log_write() changes what calls see and nothing that is durable.
LEMMA WriteRefines ==
  ASSUME IInv, NEW p \in Procs, NEW v \in Vals, LogWrite(p, v)
  PROVE  held[p] \in Blocks /\ AD!Write(p, held[p], v)
<1> USE DEF IInv, Types
<1>1. /\ mode = "up" /\ mode' = "up" /\ held[p] \in Blocks
      /\ cache' = [cache EXCEPT ![held[p]] = v]
      /\ UNCHANGED <<home, dlog, dhead, pc>>
  BY Zenon DEF LogWrite
<1>2. DurableView' = DurableView /\ InOp' = InOp /\ p \in InOp
  BY <1>1 DEF LogWrite, DurableView, InOp
<1>3. \A c \in Blocks : Contents(c)' = IF c = held[p] THEN v ELSE Contents(c)
  BY Zenon, <1>1 DEF Contents
<1>4. CurrentView' = [CurrentView EXCEPT ![held[p]] = v]
  BY ZenonT(60), <1>1, <1>3 DEF CurrentView
<1> QED
  BY ZenonT(60), <1>1, <1>2, <1>4 DEF AD!Write

\* write_log() copies to log blocks that no header names yet.
LEMMA WriteLogRefines ==
  ASSUME IInv, NEW p \in Procs, WriteLog(p) \/ WriteLogDone(p)
  PROVE  Stutter
<1> USE DEF IInv, Types
<1>1. /\ p \in Committers /\ pc[p] \in {"write_log", "write_log_io"}
      /\ pc'[p] # "op" /\ \A q \in Procs : q # p => pc'[q] = pc[q]
      /\ mode = "up" /\ mode' = "up" /\ dhead' = dhead /\ home' = home
  BY DEF WriteLog, WriteLogDone, Committers
<1>2. dhead = <<>> /\ tail + 1 \in 1..Len(lh)
  BY <1>1 DEF HeadInv
<1>3. DurableView' = DurableView
  BY <1>1, <1>2 DEF DurableView
<1>4. InOp' = InOp
  BY Zenon, <1>1 DEF InOp
<1>5. lh[tail + 1] \in Blocks
  BY <1>2
<1>6. cache' = cache \/ cache' = [cache EXCEPT ![lh[tail + 1]] = Contents(lh[tail + 1])]
  BY Zenon DEF WriteLog, WriteLogDone
<1>7. \A c \in Blocks : Contents(c)' = Contents(c)
  BY <1>1, <1>5, <1>6 DEF Contents
<1> QED
  BY ZenonT(60), <1>1, <1>3, <1>4, <1>7, CurrentSame DEF Stutter

\* write_head() is the true point at which the transaction commits: at once
\* all that the calls have written is durable.
LEMMA WriteHeadRefines ==
  ASSUME IInv, NEW p \in Procs, WriteHead(p)
  PROVE  AD!Commit
<1> USE DEF IInv, Types
<1>1. /\ p \in Committers /\ pc[p] = "commit_head" /\ pc'[p] = "install"
      /\ \A q \in Procs : q # p => pc'[q] = pc[q]
      /\ mode = "up" /\ mode' = "up"
      /\ dhead' = lh /\ UNCHANGED <<home, cache, dlog>>
  BY Zenon DEF WriteHead, Committers
<1>2. InOp = {} /\ panicked = {}
  BY <1>1 DEF ControlInv
<1>3. InOp' = {}
  BY <1>1, <1>2 DEF InOp
<1>4. CurrentView' = CurrentView
  BY Zenon, <1>1 DEF CurrentView, Contents
<1>5. ASSUME NEW b \in Blocks PROVE DurableView'[b] = Contents(b)
  <2>1. CASE \E i \in 1..Len(lh) : lh[i] = b
    <3>1. PICK i \in 1..Len(lh) : lh[i] = b
      BY <2>1
    <3>2. (CHOOSE k \in 1..Len(lh) : lh[k] = lh[i]) = i
      BY ChooseIndex DEF HeadInv
    <3>3. DurableView'[b] = dlog[i]
      BY ZenonT(60), <1>1, <3>1, <3>2 DEF DurableView
    <3>4. dlog[i] = Contents(b)
      BY ZenonT(60), <1>1, <3>1 DEF CopyInv
    <3> QED
      BY <3>3, <3>4
  <2>2. CASE ~\E i \in 1..Len(lh) : lh[i] = b
    <3>1. DurableView'[b] = home[b]
      BY ZenonT(60), <1>1, <2>2 DEF DurableView
    <3>2. pin[b] = 0
      BY <1>1, <2>2 DEF PinInv
    <3>3. Contents(b) = home[b]
      BY <1>1, <1>2, <3>2 DEF CleanInv, Contents
    <3> QED
      BY Zenon, <3>1, <3>3
  <2> QED
    BY Zenon, <2>1, <2>2
<1>6. CurrentView = [b \in Blocks |-> Contents(b)]
  BY Zenon, <1>1 DEF CurrentView
<1>7. DurableView' = [b \in Blocks |-> DurableView'[b]]
  BY Zenon DEF DurableView
<1>8. DurableView' = CurrentView
  BY <1>5, <1>6, <1>7
<1> QED
  BY <1>2, <1>3, <1>4, <1>8 DEF AD!Commit

\* install_trans(0) writes home blocks that a recovery would write as well.
LEMMA InstallRefines ==
  ASSUME IInv, NEW p \in Procs, InstallTrans(p) \/ InstallTransDone(p)
  PROVE  Stutter
<1> USE DEF IInv, Types
<1> DEFINE b == lh[tail + 1]
<1>1. /\ p \in Committers /\ pc[p] \in {"install", "install_io"}
      /\ pc'[p] # "op" /\ \A q \in Procs : q # p => pc'[q] = pc[q]
      /\ mode = "up" /\ mode' = "up" /\ dhead' = dhead /\ dlog' = dlog
  BY DEF InstallTrans, InstallTransDone, Committers
<1>2. /\ tail + 1 \in 1..Len(lh) /\ dhead = lh /\ b \in Blocks
      /\ cache[b] # NotCached /\ dlog[tail + 1] = cache[b]
      /\ pc[p] = "install_io" => held[p] = b
  BY ZenonT(60), <1>1, Installing
<1>3. /\ \A c \in Blocks : c # b => home'[c] = home[c]
      /\ cache' = cache
  BY <1>2 DEF InstallTrans, InstallTransDone
<1>4. DurableView' = DurableView
  BY ZenonT(60), <1>1, <1>2, <1>3, DurableSame
<1>5. InOp' = InOp
  BY Zenon, <1>1 DEF InOp
<1>6. \A c \in Blocks : Contents(c)' = Contents(c)
  BY Zenon, <1>2, <1>3 DEF Contents
<1> QED
  BY ZenonT(60), <1>1, <1>4, <1>5, <1>6, CurrentSame DEF Stutter

\* The log is erased when a recovery would have nothing left to do.
LEMMA ClearHeadRefines ==
  ASSUME IInv, NEW p \in Procs, ClearHead(p)
  PROVE  Stutter
<1> USE DEF IInv, Types
<1>1. /\ p \in Committers /\ pc[p] = "clear_head" /\ pc'[p] # "op"
      /\ \A q \in Procs : q # p => pc'[q] = pc[q]
      /\ mode = "up" /\ mode' = "up"
      /\ dhead' = <<>> /\ UNCHANGED <<home, cache, dlog>>
  BY Zenon DEF ClearHead, Committers
<1>2. dhead = lh /\ NoRepeat(dhead)
  BY <1>1 DEF HeadInv
<1>3. \A b \in Blocks : pin[b] = 0
  BY <1>1 DEF PinInv, ToInstall
<1>4. \A b \in Blocks : Contents(b) = home[b]
  BY <1>1, <1>3 DEF CleanInv, ControlInv, Contents
<1>5. \A i \in 1..Len(dhead) : dlog[i] = home[dhead[i]]
  BY <1>1, <1>2, <1>4 DEF CopyInv
<1>6. DurableView' = DurableView
  BY ZenonT(60), <1>1, <1>2, <1>5, DurableErased
<1>7. InOp' = InOp
  BY Zenon, <1>1 DEF InOp
<1>8. CurrentView' = CurrentView
  BY Zenon, <1>1 DEF CurrentView, Contents
<1> QED
  BY <1>6, <1>7, <1>8 DEF Stutter

\* A crash loses what is not durable, and nothing else.
LEMMA CrashRefines ==
  ASSUME Crash
  PROVE  AD!Crash
<1>1. DurableView' = DurableView
  BY Zenon DEF Crash, DurableView
<1>2. CurrentView' = DurableView'
  BY Zenon DEF Crash, CurrentView, DurableView
<1>3. InOp' = {}
  BY Zenon DEF Crash, InOp
<1> QED
  BY Zenon, <1>1, <1>2, <1>3 DEF AD!Crash

\* Recovery changes nothing that is durable, however often it is repeated.
LEMMA RecoverRefines ==
  ASSUME IInv, RecoverStep
  PROVE  Stutter
<1> USE DEF IInv, Types
<1>1. UNCHANGED <<dlog, pc>> /\ mode # "up"
  BY Zenon DEF RecoverStep, ReadHead, Recover, RecoverDone, RecoverClear
<1>2. InOp' = InOp
  BY Zenon, <1>1 DEF InOp
<1>3. ASSUME ReadHead PROVE Stutter
  <2>1. DurableView' = DurableView /\ mode' # "up"
    BY <1>3 DEF ReadHead, DurableView
  <2> QED
    BY ZenonT(60), <1>1, <1>2, <2>1 DEF CurrentView, Stutter
<1>4. ASSUME Recover \/ RecoverDone PROVE Stutter
  <2> DEFINE b == lh[tail + 1]
  <2>1. /\ mode \in {"recover", "recover_io"} /\ mode' # "up"
        /\ dhead' = dhead
    BY Zenon, <1>4 DEF Recover, RecoverDone
  <2>2. tail + 1 \in 1..Len(lh) /\ dhead = lh /\ b \in Blocks
    BY Zenon, <2>1, Recovering
  <2>3. \A c \in Blocks : c # b => home'[c] = home[c]
    BY Zenon, <1>4 DEF Recover, RecoverDone
  <2>4. DurableView' = DurableView
    BY ZenonT(60), <1>1, <2>1, <2>2, <2>3, DurableSame
  <2> QED
    BY ZenonT(60), <1>1, <1>2, <2>1, <2>4 DEF CurrentView, Stutter
<1>5. ASSUME RecoverClear PROVE Stutter
  <2>1. /\ mode = "recover_clear" /\ mode' = "up"
        /\ UNCHANGED <<home, cache>> /\ dhead' = <<>>
    BY ZenonT(60), <1>5 DEF RecoverClear
  <2>2. /\ dhead = lh /\ NoRepeat(dhead)
        /\ \A i \in 1..Len(dhead) : dlog[i] = home[dhead[i]]
    BY <2>1 DEF HeadInv, RecoverInv
  <2>3. /\ DurableView' = DurableView
        /\ \A c \in Blocks : DurableView[c] = home[c]
    BY <2>1, <2>2, DurableErased
  <2>4. \A c \in Blocks : Contents(c)' = home[c]
    BY Zenon, <2>1 DEF RecoverInv, Contents
  <2>5. CurrentView' = CurrentView
    BY Zenon, <2>1, <2>3, <2>4 DEF CurrentView
  <2> QED
    BY Zenon, <1>2, <2>3, <2>5 DEF Stutter
<1> QED
  BY Zenon, <1>3, <1>4, <1>5 DEF RecoverStep

\* Every step of log.c is a step of the atomic disk or changes none of it.
LEMMA StepRefines == IInv /\ [Next]_vars => [AD!Next]_(AD!vars)
<1> SUFFICES ASSUME IInv, [Next]_vars PROVE [AD!Next]_(AD!vars)
  BY Zenon
<1>1. Stutter => UNCHANGED AD!vars
  BY Zenon DEF AD!vars, Stutter
<1>2. CASE UNCHANGED vars
  <2>1. Stutter
    BY Zenon, <1>2 DEF vars, Stutter, DurableView, CurrentView, Contents, InOp
  <2> QED
    BY Zenon, <1>1, <2>1
<1>3. CASE Next
  <2>1. ASSUME NEW p \in Procs, CommitStep(p) PROVE Stutter \/ AD!Commit
    BY Zenon, <2>1, WriteLogRefines, WriteHeadRefines, InstallRefines,
       ClearHeadRefines, ControlRefines DEF CommitStep
  <2>2. Stutter \/ AD!Next
    BY <1>3, <2>1, BufferRefines, ControlRefines, BeginRefines, EndRefines,
       WriteRefines, CrashRefines, RecoverRefines DEF Next, AD!Next
  <2> QED
    BY Zenon, <1>1, <2>2
<1> QED
  BY Zenon, <1>2, <1>3

\* log.c gives atomic, durable transactions: whatever the interleaving of
\* system calls and wherever a crash hits the commit or the recovery, the
\* durable contents are those after a whole number of system calls.
THEOREM LogRefinesAtomicDisk == Spec => RefinesAtomicDisk
<1>1. IInv /\ [Next]_vars => [AD!Next]_(AD!vars)
  BY Zenon, StepRefines
<1> QED
  BY LogInvariant, InitRefines, <1>1, PTL DEF Spec, RefinesAtomicDisk, AD!Spec
=============================================================================
