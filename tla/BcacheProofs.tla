---------------------------- MODULE BcacheProofs ----------------------------
(***************************************************************************)
(* Proofs about the buffer cache, for any number of processes, blocks and  *)
(* buffers: a buffer stays its user's, reference counts are exact, and     *)
(* only the holder of a block's buffer changes what the block reads as.    *)
(***************************************************************************)
EXTENDS Bcache, FiniteSetTheorems, TLAPS

\* A process has a buffer and a block exactly while it is between bget() and
\* brelse().
UserInv ==
  \A p \in Procs : IF pc[p] = "idle" THEN buf[p] = 0
                   ELSE buf[p] \in Bufs /\ want[p] \in Blocks

\* The owner of a sleep-lock is past acquiresleep() and before releasesleep()
\* of that buffer.
HolderInv ==
  \A i \in Bufs, p \in Procs :
    holder[i] = p => buf[p] = i /\ pc[p] \in {"read", "hold", "dirty"}

\* A pinned block stays in the cache.
PinnedInv == \A b \in pinned : \E i \in Bufs : blockno[i] = b

\* What bread() returned is valid, what it is reading is not; an unused
\* buffer is not valid.
ValidInv ==
  /\ \A p \in Procs : pc[p] \in {"hold", "dirty"} => valid[buf[p]]
  /\ \A p \in Procs : pc[p] = "read" => ~valid[buf[p]]
  /\ \A i \in Bufs : valid[i] => blockno[i] # NoBlock

\* A valid buffer that is neither being changed nor pinned is clean.
CleanInv ==
  \A i \in Bufs :
    /\ valid[i]
    /\ blockno[i] \notin pinned
    /\ \A p \in Procs : buf[p] = i => pc[p] # "dirty"
    => data[i] = disk[blockno[i]]

\* The inductive invariant.
IInv ==
  /\ TypeOK /\ OneBufferPerBlock /\ BufferIsStable /\ SleeperHasHolder
  /\ RefcntIsExact
  /\ UserInv /\ HolderInv /\ PinnedInv /\ ValidInv /\ CleanInv

-----------------------------------------------------------------------------
(* The list.                                                               *)

\* Moving a buffer to the head of the list keeps every buffer in it.
LEMMA MoveToFrontKeeps ==
  ASSUME NEW s \in [Bufs -> Bufs], Range(s) = Bufs, NEW i \in Bufs
  PROVE  /\ MoveToFront(s, i) \in [Bufs -> Bufs]
         /\ Range(MoveToFront(s, i)) = Bufs
<1> DEFINE n == CHOOSE k \in Bufs : s[k] = i
           t == [k \in Bufs |-> IF k = 1 THEN i
                                ELSE IF k <= n THEN s[k - 1] ELSE s[k]]
<1>1. \E k \in Bufs : s[k] = i
  BY Zenon DEF Range
<1>2. n \in Bufs /\ s[n] = i
  BY Zenon, <1>1
<1> HIDE DEF n
<1>3. t \in [Bufs -> Bufs]
  <2>1. ASSUME NEW k \in Bufs, k # 1, k <= n
        PROVE  s[k - 1] \in Bufs
    <3>1. k - 1 \in Bufs
      BY <2>1, BcacheAssumption DEF Bufs
    <3> QED
      BY Zenon, <3>1
  <2> QED
    BY Zenon, <2>1
<1>4. ASSUME NEW j \in Bufs PROVE \E k \in Bufs : t[k] = j
  <2>1. PICK m \in Bufs : s[m] = j
    BY Zenon DEF Range
  <2>2. CASE m < n
    <3>1. m + 1 \in Bufs /\ m + 1 # 1 /\ m + 1 <= n /\ (m + 1) - 1 = m
      BY <1>2, <2>2, BcacheAssumption DEF Bufs
    <3>2. t[m + 1] = s[m]
      BY Zenon, <3>1
    <3> QED
      BY Zenon, <2>1, <3>1, <3>2
  <2>3. CASE m = n
    <3>1. 1 \in Bufs
      BY BcacheAssumption DEF Bufs
    <3> QED
      BY Zenon, <1>2, <2>1, <2>3, <3>1
  <2>4. CASE m > n
    <3>1. m # 1 /\ ~(m <= n)
      BY <1>2, <2>4 DEF Bufs
    <3> QED
      BY Zenon, <2>1, <3>1
  <2> QED
    BY <1>2, <2>2, <2>3, <2>4 DEF Bufs
<1> HIDE DEF t
<1>5. Range(t) = Bufs
  BY <1>3, <1>4 DEF Range
<1> QED
  BY Zenon, <1>3, <1>5 DEF MoveToFront, n, t

-----------------------------------------------------------------------------
(* Reference counts.                                                       *)

\* The processes that are using or waiting for buffer i, where f is buf.
Users(f, i) == {p \in Procs : f[p] = i}

\* They are finitely many.
LEMMA UsersFinite ==
  ASSUME NEW f, NEW i
  PROVE  IsFiniteSet(Users(f, i)) /\ Cardinality(Users(f, i)) \in Nat
<1>1. Users(f, i) \in SUBSET Procs
  BY Zenon DEF Users
<1>2. IsFiniteSet(Users(f, i))
  BY Zenon, <1>1, FS_Subset, BcacheAssumption
<1> QED
  BY Zenon, <1>2, FS_CardinalityType

\* A process that gets a buffer in bget() is one more user of it.
LEMMA UsersGain ==
  ASSUME NEW f \in [Procs -> 0..NBUF], NEW p \in Procs, f[p] = 0,
         NEW i \in Bufs, NEW j \in Bufs
  PROVE  Cardinality(Users([f EXCEPT ![p] = i], j))
           = Cardinality(Users(f, j)) + (IF j = i THEN 1 ELSE 0)
<1> DEFINE g == [f EXCEPT ![p] = i]
<1>0. 0 \notin Bufs
  BY BcacheAssumption DEF Bufs
<1>1. CASE j = i
  <2>1. Users(g, j) = Users(f, j) \cup {p} /\ p \notin Users(f, j)
    BY Zenon, <1>0, <1>1 DEF Users
  <2>2. Cardinality(Users(f, j) \cup {p}) = Cardinality(Users(f, j)) + 1
    BY Zenon, <2>1, UsersFinite, FS_AddElement
  <2> QED
    BY Zenon, <1>1, <2>1, <2>2
<1>2. CASE j # i
  <2>1. Users(g, j) = Users(f, j)
    BY Zenon, <1>0, <1>2 DEF Users
  <2>2. Cardinality(Users(f, j)) \in Nat
    BY Zenon, UsersFinite
  <2> QED
    BY <1>2, <2>1, <2>2
<1> QED
  BY Zenon, <1>1, <1>2

\* A process that gives its buffer back in brelse() is one user fewer.
LEMMA UsersLose ==
  ASSUME NEW f \in [Procs -> 0..NBUF], NEW p \in Procs, f[p] \in Bufs,
         NEW j \in Bufs
  PROVE  Cardinality(Users([f EXCEPT ![p] = 0], j))
           = Cardinality(Users(f, j)) - (IF j = f[p] THEN 1 ELSE 0)
<1> DEFINE g == [f EXCEPT ![p] = 0]
<1>0. 0 \notin Bufs
  BY BcacheAssumption DEF Bufs
<1>1. CASE j = f[p]
  <2>1. Users(g, j) = Users(f, j) \ {p} /\ p \in Users(f, j)
    BY Zenon, <1>0, <1>1 DEF Users
  <2>2. Cardinality(Users(f, j) \ {p}) = Cardinality(Users(f, j)) - 1
    BY Zenon, <2>1, UsersFinite, FS_RemoveElement
  <2> QED
    BY Zenon, <1>1, <2>1, <2>2
<1>2. CASE j # f[p]
  <2>1. Users(g, j) = Users(f, j)
    BY Zenon, <1>0, <1>2 DEF Users
  <2>2. Cardinality(Users(f, j)) \in Nat
    BY Zenon, UsersFinite
  <2> QED
    BY <1>2, <2>1, <2>2
<1> QED
  BY Zenon, <1>1, <1>2

\* A buffer that somebody uses, or whose block is pinned, is not free for
\* bget() to take over.
LEMMA InUse ==
  ASSUME TypeOK, RefcntIsExact, NEW i \in Bufs
  PROVE  /\ refcnt[i] \in Nat
         /\ refcnt[i] = 0 => /\ \A p \in Procs : buf[p] # i
                             /\ blockno[i] \notin pinned
         /\ \A p \in Procs : buf[p] = i /\ blockno[i] \in pinned => refcnt[i] >= 2
<1>1. /\ Cardinality(Users(buf, i)) \in Nat
      /\ refcnt[i] = Cardinality(Users(buf, i))
                     + (IF blockno[i] \in pinned THEN 1 ELSE 0)
  BY ZenonT(60), UsersFinite DEF RefcntIsExact, Users
<1>2. ASSUME NEW p \in Procs, buf[p] = i
      PROVE  Cardinality(Users(buf, i)) # 0
  <2>1. p \in Users(buf, i)
    BY Zenon, <1>2 DEF Users
  <2> QED
    BY Zenon, <2>1, UsersFinite, FS_EmptySet
<1> QED
  BY <1>1, <1>2

-----------------------------------------------------------------------------
(* One lemma per action: it keeps the invariant.                           *)

\* Init establishes the invariant.
LEMMA BcacheInit == Init => IInv
<1> SUFFICES ASSUME Init PROVE IInv
  BY Zenon
<1> USE DEF Init
<1>1. TypeOK
  <2>1. lru \in [Bufs -> Bufs]
    BY BcacheAssumption DEF Bufs
  <2>2. ASSUME NEW j \in Bufs PROVE \E k \in Bufs : lru[k] = j
    <3>1. NBUF + 1 - j \in Bufs /\ NBUF + 1 - (NBUF + 1 - j) = j
      BY BcacheAssumption DEF Bufs
    <3> QED
      BY Zenon, <3>1
  <2>3. Range(lru) = Bufs
    BY <2>1, <2>2 DEF Range
  <2>4. data \in [Bufs -> Vals]
    BY Zenon, BcacheAssumption
  <2>5. 0 \in 0..NBUF
    BY BcacheAssumption
  <2> QED
    BY Zenon, <2>1, <2>3, <2>4, <2>5 DEF TypeOK, PCs
<1>2. RefcntIsExact
  <2> SUFFICES ASSUME NEW i \in Bufs PROVE refcnt[i] = Cardinality(Users(buf, i))
    BY DEF RefcntIsExact, Users
  <2>1. Users(buf, i) = {}
    BY BcacheAssumption DEF Users, Bufs
  <2> QED
    BY Zenon, <2>1, FS_EmptySet
<1>3. /\ OneBufferPerBlock /\ BufferIsStable /\ SleeperHasHolder /\ UserInv
      /\ HolderInv /\ PinnedInv /\ ValidInv /\ CleanInv
  BY Zenon, BcacheAssumption DEF OneBufferPerBlock, BufferIsStable, SleeperHasHolder,
     UserInv, HolderInv, PinnedInv, ValidInv, CleanInv
<1> QED
  BY Zenon, <1>1, <1>2, <1>3 DEF IInv

\* bget() that finds its block cached.
LEMMA BgetHitKeeps ==
  ASSUME IInv, NEW p \in Procs, NEW b \in Uses[p], BgetHit(p, b)
  PROVE  IInv'
<1>i. /\ TypeOK /\ OneBufferPerBlock /\ BufferIsStable /\ SleeperHasHolder
      /\ RefcntIsExact /\ UserInv /\ HolderInv /\ PinnedInv /\ ValidInv
      /\ CleanInv
  BY Zenon DEF IInv
<1> USE <1>i
<1>0. PICK i \in Bufs :
        /\ blockno[i] = b
        /\ refcnt' = [refcnt EXCEPT ![i] = @ + 1]
        /\ buf' = [buf EXCEPT ![p] = i]
  BY Zenon DEF BgetHit
<1>1. /\ pc[p] = "idle" /\ buf[p] = 0 /\ b \in Blocks
      /\ want' = [want EXCEPT ![p] = b]
      /\ pc' = [pc EXCEPT ![p] = "lock"]
      /\ UNCHANGED <<disk, blockno, valid, data, holder, lru, pinned, panicked>>
  BY Zenon, BcacheAssumption DEF BgetHit, Goto, UserInv
<1>2. TypeOK'
  <2>1. buf' \in [Procs -> 0..NBUF]
    BY <1>0 DEF TypeOK, Bufs
  <2> QED
    BY <1>0, <1>1, <2>1 DEF TypeOK, PCs
<1>3. RefcntIsExact'
  <2> SUFFICES ASSUME NEW j \in Bufs
               PROVE  refcnt'[j] = Cardinality(Users(buf', j))
                        + (IF blockno[j] \in pinned THEN 1 ELSE 0)
    BY Zenon, <1>1 DEF RefcntIsExact, Users
  <2>1. Cardinality(Users(buf', j))
          = Cardinality(Users(buf, j)) + (IF j = i THEN 1 ELSE 0)
    <3>1. buf \in [Procs -> 0..NBUF]
      BY Zenon DEF TypeOK
    <3>2. Cardinality(Users([buf EXCEPT ![p] = i], j))
            = Cardinality(Users(buf, j)) + (IF j = i THEN 1 ELSE 0)
      BY ZenonT(60), <1>1, <3>1, UsersGain
    <3> QED
      BY Zenon, <1>0, <3>2
  <2>2. refcnt[j] = Cardinality(Users(buf, j))
                    + (IF blockno[j] \in pinned THEN 1 ELSE 0)
    BY Zenon DEF RefcntIsExact, Users
  <2>3. refcnt'[j] = refcnt[j] + (IF j = i THEN 1 ELSE 0) /\ refcnt[j] \in Nat
    BY <1>0 DEF TypeOK
  <2>4. Cardinality(Users(buf, j)) \in Nat
    BY Zenon, UsersFinite
  <2> QED
    BY <2>1, <2>2, <2>3, <2>4
<1>4. OneBufferPerBlock' /\ PinnedInv'
  BY Zenon, <1>1 DEF OneBufferPerBlock, PinnedInv
<1>5. BufferIsStable' /\ SleeperHasHolder'
  BY <1>0, <1>1 DEF BufferIsStable, SleeperHasHolder, TypeOK
<1>6. UserInv' /\ HolderInv'
  BY <1>0, <1>1 DEF UserInv, HolderInv, TypeOK
<1>7. ValidInv' /\ CleanInv'
  BY ZenonT(60), <1>0, <1>1, BcacheAssumption DEF ValidInv, CleanInv, TypeOK, Bufs
<1> QED
  BY Zenon, <1>2, <1>3, <1>4, <1>5, <1>6, <1>7 DEF IInv

\* bget() that takes over the least recently used buffer.
LEMMA BgetMissKeeps ==
  ASSUME IInv, NEW p \in Procs, NEW b \in Uses[p], BgetMiss(p, b)
  PROVE  IInv'
<1>i. /\ TypeOK /\ OneBufferPerBlock /\ BufferIsStable /\ SleeperHasHolder
      /\ RefcntIsExact /\ UserInv /\ HolderInv /\ PinnedInv /\ ValidInv
      /\ CleanInv
  BY Zenon DEF IInv
<1> USE <1>i
<1>0. PICK i \in Bufs :
        /\ refcnt[i] = 0
        /\ blockno' = [blockno EXCEPT ![i] = b]
        /\ valid' = [valid EXCEPT ![i] = FALSE]
        /\ refcnt' = [refcnt EXCEPT ![i] = 1]
        /\ buf' = [buf EXCEPT ![p] = i]
  BY Zenon DEF BgetMiss, Victim, Recyclable, Invalidate
<1>1. /\ pc[p] = "idle" /\ buf[p] = 0 /\ b \in Blocks
      /\ \A j \in Bufs : blockno[j] # b
      /\ want' = [want EXCEPT ![p] = b]
      /\ pc' = [pc EXCEPT ![p] = "lock"]
      /\ UNCHANGED <<disk, data, holder, lru, pinned, panicked>>
  BY Zenon, BcacheAssumption DEF BgetMiss, Goto, UserInv, Cached
<1>2. /\ \A q \in Procs : buf[q] # i
      /\ blockno[i] \notin pinned /\ b \notin pinned
  BY Zenon, <1>0, <1>1, InUse DEF PinnedInv
<1>3. TypeOK'
  BY <1>0, <1>1 DEF TypeOK, PCs, Bufs
<1>4. RefcntIsExact'
  <2> SUFFICES ASSUME NEW j \in Bufs
               PROVE  refcnt'[j] = Cardinality(Users(buf', j))
                        + (IF blockno'[j] \in pinned THEN 1 ELSE 0)
    BY Zenon, <1>1 DEF RefcntIsExact, Users
  <2>1. Cardinality(Users(buf', j))
          = Cardinality(Users(buf, j)) + (IF j = i THEN 1 ELSE 0)
    <3>1. buf \in [Procs -> 0..NBUF]
      BY Zenon DEF TypeOK
    <3>2. Cardinality(Users([buf EXCEPT ![p] = i], j))
            = Cardinality(Users(buf, j)) + (IF j = i THEN 1 ELSE 0)
      BY ZenonT(60), <1>1, <3>1, UsersGain
    <3> QED
      BY Zenon, <1>0, <3>2
  <2>2. refcnt[j] = Cardinality(Users(buf, j))
                    + (IF blockno[j] \in pinned THEN 1 ELSE 0)
    BY Zenon DEF RefcntIsExact, Users
  <2>3. Cardinality(Users(buf, j)) \in Nat
    BY Zenon, UsersFinite
  <2>4. CASE j = i
    <3>1. refcnt'[j] = 1 /\ refcnt[j] = 0 /\ blockno'[j] = b
      BY Zenon, <1>0, <2>4 DEF TypeOK
    <3> QED
      BY <1>2, <2>1, <2>2, <2>3, <2>4, <3>1
  <2>5. CASE j # i
    <3>1. refcnt'[j] = refcnt[j] /\ blockno'[j] = blockno[j]
      BY Zenon, <1>0, <2>5 DEF TypeOK
    <3> QED
      BY <2>1, <2>2, <2>3, <2>5, <3>1
  <2> QED
    BY Zenon, <2>4, <2>5
<1>5. OneBufferPerBlock' /\ PinnedInv'
  BY <1>0, <1>1, <1>2 DEF OneBufferPerBlock, PinnedInv, TypeOK
<1>6. BufferIsStable' /\ SleeperHasHolder'
  BY <1>0, <1>1, <1>2 DEF BufferIsStable, SleeperHasHolder, TypeOK, UserInv
<1>7. UserInv' /\ HolderInv'
  BY <1>0, <1>1 DEF UserInv, HolderInv, TypeOK
<1>8. ValidInv'
  BY <1>0, <1>1, <1>2 DEF ValidInv, TypeOK, UserInv
<1>9. CleanInv'
  BY ZenonT(60), <1>0, <1>1, <1>2, BcacheAssumption DEF CleanInv, TypeOK, Bufs
<1> QED
  BY Zenon, <1>3, <1>4, <1>5, <1>6, <1>7, <1>8, <1>9 DEF IInv

\* bget() that finds no buffer to take over.
LEMMA BgetPanicKeeps ==
  ASSUME IInv, NEW p \in Procs, NEW b, BgetPanic(p, b)
  PROVE  IInv'
<1>1. /\ panicked' = TRUE
      /\ UNCHANGED <<disk, blockno, valid, refcnt, data, holder, lru, pinned,
                     pc, want, buf>>
  BY Zenon DEF BgetPanic
<1> QED
  BY <1>1 DEF IInv, TypeOK, OneBufferPerBlock, BufferIsStable, UserInv,
     SleeperHasHolder, RefcntIsExact, HolderInv, PinnedInv, ValidInv, CleanInv

\* acquiresleep(): take the lock, or go to sleep on its holder.
LEMMA AcquireSleepKeeps ==
  ASSUME IInv, NEW p \in Procs, AcquireSleep(p)
  PROVE  IInv'
<1>i. /\ TypeOK /\ OneBufferPerBlock /\ BufferIsStable /\ SleeperHasHolder
      /\ RefcntIsExact /\ UserInv /\ HolderInv /\ PinnedInv /\ ValidInv
      /\ CleanInv
  BY Zenon DEF IInv
<1> USE <1>i
<1>1. /\ pc[p] = "lock" /\ buf[p] \in Bufs
      /\ UNCHANGED <<disk, blockno, valid, refcnt, data, lru, pinned, want,
                     buf, panicked>>
  BY Zenon DEF AcquireSleep, UserInv
<1>2. OneBufferPerBlock' /\ RefcntIsExact' /\ PinnedInv'
  BY <1>1 DEF OneBufferPerBlock, RefcntIsExact, PinnedInv
<1>3. CASE holder[buf[p]] # NoProc
  <2>1. pc' = [pc EXCEPT ![p] = "asleep"] /\ holder' = holder
    BY Zenon, <1>3 DEF AcquireSleep, Goto
  <2>2. holder[buf[p]] # p
    BY Zenon, <1>1, <1>3 DEF HolderInv, TypeOK
  <2>3. TypeOK' /\ UserInv' /\ HolderInv'
    BY <1>1, <2>1 DEF TypeOK, PCs, UserInv, HolderInv
  <2>4. BufferIsStable' /\ SleeperHasHolder'
    BY Zenon, <1>1, <1>3, <2>1, <2>2 DEF BufferIsStable, SleeperHasHolder, TypeOK
  <2>5. ValidInv' /\ CleanInv'
    BY Zenon, <1>1, <2>1 DEF ValidInv, CleanInv, TypeOK
  <2> QED
    BY <1>2, <2>3, <2>4, <2>5 DEF IInv
<1>4. CASE holder[buf[p]] = NoProc
  <2> DEFINE l == IF valid[buf[p]] THEN "hold" ELSE "read"
  <2>1. pc' = [pc EXCEPT ![p] = l] /\ holder' = [holder EXCEPT ![buf[p]] = p]
    BY Zenon, <1>4 DEF AcquireSleep, Goto
  <2>2. /\ l \in {"hold", "read"} /\ l # "idle"
        /\ l = "hold" => valid[buf[p]]
        /\ l = "read" => ~valid[buf[p]]
    BY Zenon
  <2> HIDE DEF l
  <2>3. \A q \in Procs : pc[q] = "asleep" => buf[q] # buf[p]
    BY Zenon, <1>4 DEF SleeperHasHolder
  <2>4. \A q \in Procs : pc[q] \in {"read", "hold", "dirty"} => buf[q] # buf[p]
    BY Zenon, <1>4, BcacheAssumption DEF BufferIsStable
  <2>5. TypeOK'
    BY Zenon, <1>1, <2>1, <2>2 DEF TypeOK, PCs
  <2>6. UserInv' /\ HolderInv'
    BY <1>1, <2>1, <2>2 DEF TypeOK, UserInv, HolderInv
  <2>7. BufferIsStable' /\ SleeperHasHolder'
    BY <1>1, <2>1, <2>2, <2>3, <2>4 DEF BufferIsStable, SleeperHasHolder,
       TypeOK, UserInv
  <2>8. ValidInv' /\ CleanInv'
    BY Zenon, <1>1, <2>1, <2>2 DEF ValidInv, CleanInv, TypeOK
  <2> QED
    BY <1>2, <2>5, <2>6, <2>7, <2>8 DEF IInv
<1> QED
  BY Zenon, <1>3, <1>4 DEF IInv

\* A process past acquiresleep() is the only one there for its buffer, and
\* the buffer is the only one of its block.
LEMMA HolderAlone ==
  ASSUME IInv, NEW p \in Procs, pc[p] \in {"read", "hold", "dirty"}
  PROVE  /\ buf[p] \in Bufs /\ want[p] \in Blocks
         /\ blockno[buf[p]] = want[p] /\ holder[buf[p]] = p
         /\ \A q \in Procs : q # p /\ pc[q] \in {"read", "hold", "dirty"}
                             => buf[q] # buf[p]
         /\ \A i \in Bufs : i # buf[p] => blockno[i] # want[p]
<1>1. buf[p] \in Bufs /\ want[p] \in Blocks
  BY Zenon DEF IInv, UserInv
<1>2. blockno[buf[p]] = want[p] /\ holder[buf[p]] = p
  BY Zenon DEF IInv, BufferIsStable
<1>3. \A q \in Procs : q # p /\ pc[q] \in {"read", "hold", "dirty"}
                       => buf[q] # buf[p]
  BY Zenon, <1>2 DEF IInv, BufferIsStable
<1>4. \A i \in Bufs : i # buf[p] => blockno[i] # want[p]
  BY Zenon, <1>1, <1>2, BcacheAssumption DEF IInv, OneBufferPerBlock
<1> QED
  BY Zenon, <1>1, <1>2, <1>3, <1>4

\* The disk read of bread().
LEMMA DiskReadKeeps ==
  ASSUME IInv, NEW p \in Procs, DiskRead(p)
  PROVE  IInv'
<1>i. /\ TypeOK /\ OneBufferPerBlock /\ BufferIsStable /\ SleeperHasHolder
      /\ RefcntIsExact /\ UserInv /\ HolderInv /\ PinnedInv /\ ValidInv
      /\ CleanInv
  BY Zenon DEF IInv
<1> USE <1>i
<1>1. /\ pc[p] = "read"
      /\ data' = [data EXCEPT ![buf[p]] = disk[blockno[buf[p]]]]
      /\ valid' = [valid EXCEPT ![buf[p]] = TRUE]
      /\ pc' = [pc EXCEPT ![p] = "hold"]
      /\ UNCHANGED <<disk, blockno, refcnt, holder, lru, pinned, want, buf,
                     panicked>>
  BY Zenon DEF DiskRead, Goto
<1>2. /\ buf[p] \in Bufs /\ want[p] \in Blocks
      /\ blockno[buf[p]] = want[p] /\ holder[buf[p]] = p
      /\ \A q \in Procs : q # p /\ pc[q] \in {"read", "hold", "dirty"}
                          => buf[q] # buf[p]
  BY Zenon, <1>1, HolderAlone
<1>3. TypeOK'
  <2>1. data' \in [Bufs -> Vals] /\ valid' \in [Bufs -> BOOLEAN]
        /\ pc' \in [Procs -> PCs]
    BY Zenon, <1>1, <1>2 DEF TypeOK, PCs
  <2> QED
    BY Zenon, <1>1, <2>1 DEF TypeOK
<1>4. OneBufferPerBlock' /\ RefcntIsExact' /\ PinnedInv'
  BY Zenon, <1>1 DEF OneBufferPerBlock, RefcntIsExact, PinnedInv
<1>5. BufferIsStable' /\ SleeperHasHolder' /\ UserInv' /\ HolderInv'
  BY <1>1 DEF BufferIsStable, SleeperHasHolder, UserInv, HolderInv, TypeOK
<1>6. ValidInv'
  BY <1>1, <1>2, BcacheAssumption DEF ValidInv, TypeOK, UserInv
<1>7. CleanInv'
  BY Zenon, <1>1, <1>2 DEF CleanInv, TypeOK
<1> QED
  BY Zenon, <1>3, <1>4, <1>5, <1>6, <1>7 DEF IInv

\* A change of a locked buffer's data.
LEMMA ModifyKeeps ==
  ASSUME IInv, NEW p \in Procs, NEW v \in Vals, Modify(p, v)
  PROVE  IInv'
<1>i. /\ TypeOK /\ OneBufferPerBlock /\ BufferIsStable /\ SleeperHasHolder
      /\ RefcntIsExact /\ UserInv /\ HolderInv /\ PinnedInv /\ ValidInv
      /\ CleanInv
  BY Zenon DEF IInv
<1> USE <1>i
<1>1. /\ pc[p] = "hold"
      /\ data' = [data EXCEPT ![buf[p]] = v]
      /\ pc' = [pc EXCEPT ![p] = "dirty"]
      /\ UNCHANGED <<disk, blockno, valid, refcnt, holder, lru, pinned, want,
                     buf, panicked>>
  BY Zenon DEF Modify, Goto
<1>2. buf[p] \in Bufs
  BY Zenon, <1>1, HolderAlone
<1>3. TypeOK'
  BY Zenon, <1>1, <1>2 DEF TypeOK, PCs
<1>4. OneBufferPerBlock' /\ RefcntIsExact' /\ PinnedInv'
  BY Zenon, <1>1 DEF OneBufferPerBlock, RefcntIsExact, PinnedInv
<1>5. BufferIsStable' /\ SleeperHasHolder' /\ UserInv' /\ HolderInv'
  BY <1>1 DEF BufferIsStable, SleeperHasHolder, UserInv, HolderInv, TypeOK
<1>6. ValidInv' /\ CleanInv'
  BY <1>1, <1>2 DEF ValidInv, CleanInv, TypeOK
<1> QED
  BY Zenon, <1>3, <1>4, <1>5, <1>6 DEF IInv

\* bwrite() of a changed buffer.
LEMMA BwriteKeeps ==
  ASSUME IInv, NEW p \in Procs, Bwrite(p)
  PROVE  IInv'
<1>i. /\ TypeOK /\ OneBufferPerBlock /\ BufferIsStable /\ SleeperHasHolder
      /\ RefcntIsExact /\ UserInv /\ HolderInv /\ PinnedInv /\ ValidInv
      /\ CleanInv
  BY Zenon DEF IInv
<1> USE <1>i
<1>1. /\ pc[p] = "dirty"
      /\ disk' = [disk EXCEPT ![blockno[buf[p]]] = data[buf[p]]]
      /\ pc' = [pc EXCEPT ![p] = "hold"]
      /\ UNCHANGED <<blockno, valid, refcnt, data, holder, lru, pinned, want,
                     buf, panicked>>
  BY Zenon DEF Bwrite, Goto
<1>2. /\ buf[p] \in Bufs /\ want[p] \in Blocks /\ blockno[buf[p]] = want[p]
      /\ \A i \in Bufs : i # buf[p] => blockno[i] # want[p]
  BY Zenon, <1>1, HolderAlone
<1>3. TypeOK'
  BY Zenon, <1>1, <1>2 DEF TypeOK, PCs
<1>4. OneBufferPerBlock' /\ RefcntIsExact' /\ PinnedInv'
  BY Zenon, <1>1 DEF OneBufferPerBlock, RefcntIsExact, PinnedInv
<1>5. BufferIsStable' /\ SleeperHasHolder' /\ UserInv' /\ HolderInv'
  BY <1>1 DEF BufferIsStable, SleeperHasHolder, UserInv, HolderInv, TypeOK
<1>6. ValidInv'
  BY Zenon, <1>1 DEF ValidInv, TypeOK
<1>7. CleanInv'
  <2> SUFFICES ASSUME NEW i \in Bufs, valid[i], blockno[i] \notin pinned,
                      \A q \in Procs : buf[q] = i => pc'[q] # "dirty"
               PROVE  data[i] = disk'[blockno[i]]
    BY Zenon, <1>1 DEF CleanInv
  <2>1. CASE i = buf[p]
    BY Zenon, <1>1, <1>2, <2>1 DEF TypeOK
  <2>2. CASE i # buf[p]
    <3>1. \A q \in Procs : buf[q] = i => pc[q] # "dirty"
      BY Zenon, <1>1, <2>2 DEF TypeOK
    <3>2. disk'[blockno[i]] = disk[blockno[i]]
      <4>1. blockno[i] \in Blocks
        BY Zenon DEF ValidInv, TypeOK
      <4> QED
        BY Zenon, <1>1, <1>2, <2>2, <4>1 DEF TypeOK
    <3> QED
      BY Zenon, <3>1, <3>2 DEF CleanInv
  <2> QED
    BY Zenon, <2>1, <2>2
<1> QED
  BY Zenon, <1>3, <1>4, <1>5, <1>6, <1>7 DEF IInv

\* log_write() of a changed buffer, which pins its block.
LEMMA BpinKeeps ==
  ASSUME IInv, NEW p \in Procs, Bpin(p)
  PROVE  IInv'
<1>i. /\ TypeOK /\ OneBufferPerBlock /\ BufferIsStable /\ SleeperHasHolder
      /\ RefcntIsExact /\ UserInv /\ HolderInv /\ PinnedInv /\ ValidInv
      /\ CleanInv
  BY Zenon DEF IInv
<1> USE <1>i
<1>1. /\ pc[p] = "dirty"
      /\ refcnt' = IF want[p] \in pinned THEN refcnt
                   ELSE [refcnt EXCEPT ![buf[p]] = @ + 1]
      /\ pinned' = pinned \cup {want[p]}
      /\ pc' = [pc EXCEPT ![p] = "hold"]
      /\ UNCHANGED <<disk, blockno, valid, data, holder, lru, want, buf,
                     panicked>>
  BY Zenon DEF Bpin, Goto
<1>2. /\ buf[p] \in Bufs /\ want[p] \in Blocks /\ blockno[buf[p]] = want[p]
      /\ \A i \in Bufs : i # buf[p] => blockno[i] # want[p]
  BY Zenon, <1>1, HolderAlone
<1>3. TypeOK'
  <2>1. refcnt' \in [Bufs -> Nat]
    BY <1>1, <1>2 DEF TypeOK
  <2> QED
    BY Zenon, <1>1, <1>2, <2>1 DEF TypeOK, PCs
<1>4. RefcntIsExact'
  <2> SUFFICES ASSUME NEW j \in Bufs
               PROVE  refcnt'[j] = Cardinality(Users(buf, j))
                        + (IF blockno[j] \in pinned' THEN 1 ELSE 0)
    BY Zenon, <1>1 DEF RefcntIsExact, Users
  <2>1. refcnt[j] = Cardinality(Users(buf, j))
                    + (IF blockno[j] \in pinned THEN 1 ELSE 0)
    BY Zenon DEF RefcntIsExact, Users
  <2>2. Cardinality(Users(buf, j)) \in Nat
    BY Zenon, UsersFinite
  <2>3. CASE j = buf[p] /\ want[p] \notin pinned
    <3>1. refcnt'[j] = refcnt[j] + 1
      BY Zenon, <1>1, <2>3 DEF TypeOK
    <3> QED
      BY <1>1, <1>2, <2>1, <2>2, <2>3, <3>1
  <2>4. CASE ~(j = buf[p] /\ want[p] \notin pinned)
    <3>1. refcnt'[j] = refcnt[j]
      BY Zenon, <1>1, <2>4 DEF TypeOK
    <3>2. blockno[j] \in pinned' <=> blockno[j] \in pinned
      BY Zenon, <1>1, <1>2, <2>4
    <3> QED
      BY Zenon, <2>1, <3>1, <3>2
  <2> QED
    BY Zenon, <2>3, <2>4
<1>5. OneBufferPerBlock' /\ PinnedInv'
  BY Zenon, <1>1, <1>2 DEF OneBufferPerBlock, PinnedInv
<1>6. BufferIsStable' /\ SleeperHasHolder' /\ UserInv' /\ HolderInv'
  BY <1>1 DEF BufferIsStable, SleeperHasHolder, UserInv, HolderInv, TypeOK
<1>7. ValidInv' /\ CleanInv'
  BY <1>1, <1>2 DEF ValidInv, CleanInv, TypeOK
<1> QED
  BY Zenon, <1>3, <1>4, <1>5, <1>6, <1>7 DEF IInv

\* install_trans(), which writes and unpins a block.
LEMMA WriteAndBunpinKeeps ==
  ASSUME IInv, NEW p \in Procs, WriteAndBunpin(p)
  PROVE  IInv'
<1>i. /\ TypeOK /\ OneBufferPerBlock /\ BufferIsStable /\ SleeperHasHolder
      /\ RefcntIsExact /\ UserInv /\ HolderInv /\ PinnedInv /\ ValidInv
      /\ CleanInv
  BY Zenon DEF IInv
<1> USE <1>i
<1>1. /\ pc[p] = "hold" /\ want[p] \in pinned
      /\ disk' = [disk EXCEPT ![blockno[buf[p]]] = data[buf[p]]]
      /\ refcnt' = [refcnt EXCEPT ![buf[p]] = @ - 1]
      /\ pinned' = pinned \ {want[p]}
      /\ UNCHANGED <<blockno, valid, data, holder, lru, pc, want, buf, panicked>>
  BY Zenon DEF WriteAndBunpin
<1>2. /\ buf[p] \in Bufs /\ want[p] \in Blocks /\ blockno[buf[p]] = want[p]
      /\ \A i \in Bufs : i # buf[p] => blockno[i] # want[p]
  BY Zenon, <1>1, HolderAlone
<1>3. TypeOK'
  <2>1. refcnt[buf[p]] \in Nat /\ refcnt[buf[p]] >= 2
    BY Zenon, <1>1, <1>2, InUse
  <2>2. refcnt' \in [Bufs -> Nat]
    BY <1>1, <1>2, <2>1 DEF TypeOK
  <2> QED
    BY Zenon, <1>1, <1>2, <2>2 DEF TypeOK
<1>4. RefcntIsExact'
  <2> SUFFICES ASSUME NEW j \in Bufs
               PROVE  refcnt'[j] = Cardinality(Users(buf, j))
                        + (IF blockno[j] \in pinned' THEN 1 ELSE 0)
    BY Zenon, <1>1 DEF RefcntIsExact, Users
  <2>1. refcnt[j] = Cardinality(Users(buf, j))
                    + (IF blockno[j] \in pinned THEN 1 ELSE 0)
    BY Zenon DEF RefcntIsExact, Users
  <2>2. Cardinality(Users(buf, j)) \in Nat
    BY Zenon, UsersFinite
  <2>3. CASE j = buf[p]
    <3>1. refcnt'[j] = refcnt[j] - 1
      BY Zenon, <1>1, <2>3 DEF TypeOK
    <3> QED
      BY <1>1, <1>2, <2>1, <2>2, <2>3, <3>1
  <2>4. CASE j # buf[p]
    <3>1. refcnt'[j] = refcnt[j]
      BY Zenon, <1>1, <2>4 DEF TypeOK
    <3>2. blockno[j] \in pinned' <=> blockno[j] \in pinned
      BY Zenon, <1>1, <1>2, <2>4
    <3> QED
      BY Zenon, <2>1, <3>1, <3>2
  <2> QED
    BY Zenon, <2>3, <2>4
<1>5. OneBufferPerBlock' /\ PinnedInv'
  BY Zenon, <1>1 DEF OneBufferPerBlock, PinnedInv
<1>6. /\ BufferIsStable' /\ SleeperHasHolder' /\ UserInv' /\ HolderInv'
      /\ ValidInv'
  BY Zenon, <1>1 DEF BufferIsStable, SleeperHasHolder, UserInv, HolderInv, ValidInv
<1>7. CleanInv'
  <2> SUFFICES ASSUME NEW i \in Bufs, valid[i], blockno[i] \notin pinned',
                      \A q \in Procs : buf[q] = i => pc[q] # "dirty"
               PROVE  data[i] = disk'[blockno[i]]
    BY Zenon, <1>1 DEF CleanInv
  <2>1. CASE i = buf[p]
    BY Zenon, <1>1, <1>2, <2>1 DEF TypeOK
  <2>2. CASE i # buf[p]
    <3>1. blockno[i] \in Blocks /\ blockno[i] # want[p]
      BY Zenon, <1>2, <2>2 DEF ValidInv, TypeOK
    <3>2. disk'[blockno[i]] = disk[blockno[i]] /\ blockno[i] \notin pinned
      BY Zenon, <1>1, <1>2, <3>1 DEF TypeOK
    <3> QED
      BY Zenon, <3>2 DEF CleanInv
  <2> QED
    BY Zenon, <2>1, <2>2
<1> QED
  BY Zenon, <1>3, <1>4, <1>5, <1>6, <1>7 DEF IInv

\* releasesleep(), which wakes everybody asleep on the lock.
LEMMA ReleaseSleepKeeps ==
  ASSUME IInv, NEW p \in Procs, ReleaseSleep(p)
  PROVE  IInv'
<1>i. /\ TypeOK /\ OneBufferPerBlock /\ BufferIsStable /\ SleeperHasHolder
      /\ RefcntIsExact /\ UserInv /\ HolderInv /\ PinnedInv /\ ValidInv
      /\ CleanInv
  BY Zenon DEF IInv
<1> USE <1>i
<1>1. /\ pc[p] = "hold"
      /\ holder' = [holder EXCEPT ![buf[p]] = NoProc]
      /\ pc' = [q \in Procs |->
                  IF q = p THEN "unref"
                  ELSE IF pc[q] = "asleep" /\ buf[q] = buf[p] THEN "lock"
                  ELSE pc[q]]
      /\ UNCHANGED <<disk, blockno, valid, refcnt, data, lru, pinned, want,
                     buf, panicked>>
  BY Zenon DEF ReleaseSleep
<1>2. /\ buf[p] \in Bufs /\ holder[buf[p]] = p
      /\ \A q \in Procs : q # p /\ pc[q] \in {"read", "hold", "dirty"}
                          => buf[q] # buf[p]
  BY Zenon, <1>1, HolderAlone
<1>3. \A q \in Procs :
        /\ pc'[q] = "idle" <=> pc[q] = "idle"
        /\ pc'[q] \in {"read", "hold", "dirty", "asleep"}
             => q # p /\ pc'[q] = pc[q] /\ buf[q] # buf[p]
        /\ pc[q] = "dirty" => pc'[q] = "dirty"
        /\ pc[q] \in {"read", "hold", "dirty"} /\ q # p => pc'[q] = pc[q]
  BY Zenon, <1>1, <1>2
<1>4. TypeOK'
  <2>1. pc' \in [Procs -> PCs]
    BY Zenon, <1>1 DEF TypeOK, PCs
  <2>2. holder' \in [Bufs -> Procs \cup {NoProc}]
    BY Zenon, <1>1 DEF TypeOK
  <2> QED
    BY Zenon, <1>1, <2>1, <2>2 DEF TypeOK
<1>5. OneBufferPerBlock' /\ RefcntIsExact' /\ PinnedInv'
  BY Zenon, <1>1 DEF OneBufferPerBlock, RefcntIsExact, PinnedInv
<1>6. BufferIsStable'
  <2> SUFFICES ASSUME NEW q \in Procs
               PROVE  /\ pc'[q] # "idle" => blockno[buf[q]] = want[q]
                      /\ pc'[q] \in {"read", "hold", "dirty"} => holder'[buf[q]] = q
    BY Zenon, <1>1 DEF BufferIsStable
  <2>1. pc'[q] # "idle" => blockno[buf[q]] = want[q]
    BY Zenon, <1>3 DEF BufferIsStable
  <2>2. ASSUME pc'[q] \in {"read", "hold", "dirty"}
        PROVE  holder'[buf[q]] = q
    <3>1. pc[q] \in {"read", "hold", "dirty"} /\ buf[q] # buf[p]
      BY Zenon, <1>3, <2>2
    <3>2. buf[q] \in Bufs /\ holder[buf[q]] = q
      BY Zenon, <3>1, HolderAlone
    <3> QED
      BY Zenon, <1>1, <3>1, <3>2 DEF TypeOK
  <2> QED
    BY Zenon, <2>1, <2>2
<1>7. SleeperHasHolder'
  <2> SUFFICES ASSUME NEW q \in Procs, pc'[q] = "asleep"
               PROVE  holder'[buf[q]] \notin {NoProc, q}
    BY Zenon, <1>1 DEF SleeperHasHolder
  <2>1. pc[q] = "asleep" /\ buf[q] # buf[p]
    BY Zenon, <1>3
  <2>2. buf[q] \in Bufs
    BY Zenon, <2>1 DEF UserInv
  <2>3. holder'[buf[q]] = holder[buf[q]]
    BY Zenon, <1>1, <2>1, <2>2 DEF TypeOK
  <2> QED
    BY Zenon, <2>1, <2>3 DEF SleeperHasHolder
<1>8. UserInv'
  BY Zenon, <1>1, <1>3 DEF UserInv
<1>9. HolderInv'
  <2> SUFFICES ASSUME NEW i \in Bufs, NEW q \in Procs, holder'[i] = q
               PROVE  buf[q] = i /\ pc'[q] \in {"read", "hold", "dirty"}
    BY Zenon, <1>1 DEF HolderInv
  <2>1. i # buf[p] /\ holder[i] = q
    BY Zenon, <1>1, BcacheAssumption DEF TypeOK
  <2>2. buf[q] = i /\ pc[q] \in {"read", "hold", "dirty"}
    BY Zenon, <2>1 DEF HolderInv
  <2> QED
    BY Zenon, <1>3, <2>1, <2>2
<1>10. ValidInv'
  BY Zenon, <1>1, <1>3 DEF ValidInv
<1>11. CleanInv'
  BY Zenon, <1>1, <1>3 DEF CleanInv
<1> QED
  BY Zenon, <1>4, <1>5, <1>6, <1>7, <1>8, <1>9, <1>10, <1>11 DEF IInv

\* The second half of brelse().
LEMMA BrelseKeeps ==
  ASSUME IInv, NEW p \in Procs, Brelse(p)
  PROVE  IInv'
<1>i. /\ TypeOK /\ OneBufferPerBlock /\ BufferIsStable /\ SleeperHasHolder
      /\ RefcntIsExact /\ UserInv /\ HolderInv /\ PinnedInv /\ ValidInv
      /\ CleanInv
  BY Zenon DEF IInv
<1> USE <1>i
<1>1. /\ pc[p] = "unref" /\ buf[p] \in Bufs
      /\ refcnt' = [refcnt EXCEPT ![buf[p]] = @ - 1]
      /\ lru' = IF refcnt'[buf[p]] = 0 THEN MoveToFront(lru, buf[p]) ELSE lru
      /\ want' = [want EXCEPT ![p] = NoBlock]
      /\ buf' = [buf EXCEPT ![p] = 0]
      /\ pc' = [pc EXCEPT ![p] = "idle"]
      /\ UNCHANGED <<disk, blockno, valid, data, holder, pinned, panicked>>
  BY Zenon DEF Brelse, Goto, UserInv
<1>2. TypeOK'
  <2>1. lru' \in [Bufs -> Bufs] /\ Range(lru') = Bufs
    BY Zenon, <1>1, MoveToFrontKeeps DEF TypeOK
  <2>2. refcnt[buf[p]] \in Nat /\ refcnt[buf[p]] # 0
    BY Zenon, <1>1, InUse
  <2>3. refcnt' \in [Bufs -> Nat]
    BY <1>1, <2>2 DEF TypeOK
  <2>4. 0 \in 0..NBUF
    BY BcacheAssumption
  <2> QED
    BY Zenon, <1>1, <2>1, <2>3, <2>4 DEF TypeOK, PCs
<1>3. RefcntIsExact'
  <2> SUFFICES ASSUME NEW j \in Bufs
               PROVE  refcnt'[j] = Cardinality(Users(buf', j))
                        + (IF blockno[j] \in pinned THEN 1 ELSE 0)
    BY Zenon, <1>1 DEF RefcntIsExact, Users
  <2>1. Cardinality(Users(buf', j))
          = Cardinality(Users(buf, j)) - (IF j = buf[p] THEN 1 ELSE 0)
    <3>1. buf \in [Procs -> 0..NBUF]
      BY Zenon DEF TypeOK
    <3>2. Cardinality(Users([buf EXCEPT ![p] = 0], j))
            = Cardinality(Users(buf, j)) - (IF j = buf[p] THEN 1 ELSE 0)
      BY Zenon, <1>1, <3>1, UsersLose
    <3> QED
      BY Zenon, <1>1, <3>2
  <2>2. refcnt[j] = Cardinality(Users(buf, j))
                    + (IF blockno[j] \in pinned THEN 1 ELSE 0)
    BY Zenon DEF RefcntIsExact, Users
  <2>3. refcnt'[j] = refcnt[j] - (IF j = buf[p] THEN 1 ELSE 0)
        /\ refcnt[j] \in Nat
    BY <1>1 DEF TypeOK
  <2>4. Cardinality(Users(buf, j)) \in Nat
    BY Zenon, UsersFinite
  <2> QED
    BY <2>1, <2>2, <2>3, <2>4
<1>4. OneBufferPerBlock' /\ PinnedInv'
  BY Zenon, <1>1 DEF OneBufferPerBlock, PinnedInv
<1>5. BufferIsStable' /\ SleeperHasHolder'
  BY <1>1 DEF BufferIsStable, SleeperHasHolder, TypeOK
<1>6. UserInv' /\ HolderInv'
  BY <1>1, BcacheAssumption DEF UserInv, HolderInv, TypeOK
<1>7. ValidInv'
  BY Zenon, <1>1 DEF ValidInv, TypeOK
<1>8. CleanInv'
  BY Zenon, <1>1 DEF CleanInv, TypeOK
<1> QED
  BY Zenon, <1>2, <1>3, <1>4, <1>5, <1>6, <1>7, <1>8 DEF IInv

-----------------------------------------------------------------------------
(* The invariants.                                                         *)

\* Every step keeps the inductive invariant.
LEMMA BcacheStep == IInv /\ [Next]_vars => IInv'
<1> SUFFICES ASSUME IInv, [Next]_vars PROVE IInv'
  BY Zenon
<1>1. ASSUME NEW p \in Procs, NEW b \in Uses[p],
             BgetHit(p, b) \/ BgetMiss(p, b) \/ BgetPanic(p, b)
      PROVE  IInv'
  BY Zenon, <1>1, BgetHitKeeps, BgetMissKeeps, BgetPanicKeeps
<1>2. ASSUME NEW p \in Procs, NEW v \in Vals, Modify(p, v)
      PROVE  IInv'
  BY Zenon, <1>2, ModifyKeeps
<1>3. ASSUME NEW p \in Procs, Finish(p) \/ WriteAndBunpin(p)
      PROVE  IInv'
  BY Zenon, <1>3, AcquireSleepKeeps, DiskReadKeeps, BwriteKeeps, BpinKeeps,
     WriteAndBunpinKeeps, ReleaseSleepKeeps, BrelseKeeps DEF Finish
<1>4. CASE UNCHANGED vars
  BY <1>4 DEF vars, IInv, TypeOK, OneBufferPerBlock, BufferIsStable, UserInv,
     SleeperHasHolder, RefcntIsExact, HolderInv, PinnedInv, ValidInv, CleanInv
<1> QED
  BY Zenon, <1>1, <1>2, <1>3, <1>4 DEF Next

\* The inductive invariant holds in every state of the buffer cache.
THEOREM BcacheInvariant == Spec => []IInv
<1> QED
  BY BcacheInit, BcacheStep, PTL DEF Spec

\* bget() never caches a block twice, a buffer keeps its block from bget() to
\* brelse() whatever other processes do meanwhile, whoever is past bread() has
\* its lock alone, and whoever sleeps in acquiresleep() has a holder to wake
\* them, for any number of buffers and processes.
THEOREM BcacheBufferIsOurs == Spec => []BufferIsOurs
<1>1. IInv => BufferIsOurs
  BY Zenon DEF IInv, BufferIsOurs
<1> QED
  BY <1>1, BcacheInvariant, PTL

\* b->refcnt counts exactly the users between bget() and brelse() and the pin
\* of the log, so that bget() recycles a buffer when and only when it is free.
THEOREM BcacheRefcnt == Spec => []RefcntIsExact
<1>1. IInv => RefcntIsExact
  BY Zenon DEF IInv
<1> QED
  BY <1>1, BcacheInvariant, PTL

-----------------------------------------------------------------------------
(* What a block reads as.                                                  *)

\* Store as a function of the variables it depends on.
StoreOf(bn, vl, dt, dk, b) ==
  IF \E i \in Bufs : bn[i] = b /\ vl[i]
  THEN dt[CHOOSE i \in Bufs : bn[i] = b /\ vl[i]]
  ELSE dk[b]

\* A block in at most one buffer.
Once(bn, b) == \A i, j \in Bufs : bn[i] = b /\ bn[j] = b => i = j

\* The block reads as its valid buffer, or else as the disk.
LEMMA StoreValue ==
  ASSUME NEW bn, NEW vl, NEW dt, NEW dk, NEW b, Once(bn, b)
  PROVE  /\ \A i \in Bufs : bn[i] = b /\ vl[i] => StoreOf(bn, vl, dt, dk, b) = dt[i]
         /\ (\A i \in Bufs : bn[i] = b => ~vl[i]) => StoreOf(bn, vl, dt, dk, b) = dk[b]
<1>1. ASSUME NEW i \in Bufs, bn[i] = b, vl[i]
      PROVE  StoreOf(bn, vl, dt, dk, b) = dt[i]
  <2> DEFINE c == CHOOSE j \in Bufs : bn[j] = b /\ vl[j]
  <2>1. c \in Bufs /\ bn[c] = b
    BY Zenon, <1>1
  <2>2. c = i
    BY Zenon, <1>1, <2>1 DEF Once
  <2> QED
    BY Zenon, <1>1, <2>2 DEF StoreOf
<1>2. (\A i \in Bufs : bn[i] = b => ~vl[i]) => StoreOf(bn, vl, dt, dk, b) = dk[b]
  BY Zenon DEF StoreOf
<1> QED
  BY Zenon, <1>1, <1>2

\* It reads the same if its valid buffer and the disk are the same.
LEMMA StoreSame ==
  ASSUME NEW bn, NEW vl, NEW dt, NEW dk, NEW b, Once(bn, b),
         NEW bn2, NEW vl2, NEW dt2, NEW dk2, Once(bn2, b),
         \A i \in Bufs : bn[i] = b /\ vl[i] <=> bn2[i] = b /\ vl2[i],
         \A i \in Bufs : bn[i] = b /\ vl[i] => dt2[i] = dt[i],
         dk2[b] = dk[b]
  PROVE  StoreOf(bn2, vl2, dt2, dk2, b) = StoreOf(bn, vl, dt, dk, b)
<1>1. CASE \E i \in Bufs : bn[i] = b /\ vl[i]
  <2>1. PICK i \in Bufs : bn[i] = b /\ vl[i]
    BY Zenon, <1>1
  <2>2. StoreOf(bn, vl, dt, dk, b) = dt[i]
    BY <2>1, StoreValue
  <2>3. StoreOf(bn2, vl2, dt2, dk2, b) = dt2[i]
    BY <2>1, StoreValue
  <2> QED
    BY Zenon, <2>1, <2>2, <2>3
<1>2. CASE ~\E i \in Bufs : bn[i] = b /\ vl[i]
  BY Zenon, <1>2 DEF StoreOf
<1> QED
  BY Zenon, <1>1, <1>2

\* bget() that recycles a buffer: one that is free to be taken over is clean.
LEMMA BgetKeepsStore ==
  ASSUME IInv, IInv', NEW b \in Blocks, NEW p \in Procs, NEW a \in Uses[p],
         BgetMiss(p, a)
  PROVE  Store(b)' = Store(b)
<1> DEFINE S == StoreOf(blockno, valid, data, disk, b)
           T == StoreOf(blockno', valid', data', disk', b)
<1>0. Once(blockno, b) /\ Once(blockno', b)
  BY Zenon, BcacheAssumption DEF IInv, OneBufferPerBlock, Once
<1>1. PICK i \in Bufs :
        /\ refcnt[i] = 0
        /\ blockno' = [blockno EXCEPT ![i] = a]
        /\ valid' = [valid EXCEPT ![i] = FALSE]
  BY Zenon DEF BgetMiss, Victim, Recyclable, Invalidate
<1>2. data' = data /\ disk' = disk /\ \A j \in Bufs : blockno[j] # a
  BY Zenon DEF BgetMiss, Cached
<1>3. \A j \in Bufs : /\ j = i => ~valid'[j]
                      /\ j # i => blockno'[j] = blockno[j] /\ valid'[j] = valid[j]
  BY ZenonT(60), <1>1 DEF IInv, TypeOK
<1>4. CASE blockno[i] = b /\ valid[i]
  <2>1. data[i] = disk[b]
    BY <1>1, <1>4, InUse DEF IInv, CleanInv
  <2>2. S = data[i]
    BY <1>0, <1>4, StoreValue
  <2>3. \A j \in Bufs : blockno'[j] = b => ~valid'[j]
    BY Zenon, <1>0, <1>3, <1>4 DEF Once
  <2>4. T = disk'[b]
    BY <1>0, <2>3, StoreValue
  <2> QED
    BY Zenon, <1>2, <2>1, <2>2, <2>4 DEF Store, StoreOf
<1>5. CASE ~(blockno[i] = b /\ valid[i])
  <2>1. \A j \in Bufs : blockno[j] = b /\ valid[j] <=> blockno'[j] = b /\ valid'[j]
    BY Zenon, <1>3, <1>5
  <2>2. T = S
    BY <1>0, <1>2, <2>1, StoreSame
  <2> QED
    BY Zenon, <2>2 DEF Store, StoreOf
<1> QED
  BY Zenon, <1>4, <1>5

\* The transfers of a locked buffer: what is read off the disk, or written to
\* it, is what the block reads as already.
LEMMA TransferKeepsStore ==
  ASSUME IInv, IInv', NEW b \in Blocks, NEW p \in Procs,
         DiskRead(p) \/ Bwrite(p) \/ WriteAndBunpin(p)
  PROVE  Store(b)' = Store(b)
<1> DEFINE S == StoreOf(blockno, valid, data, disk, b)
           T == StoreOf(blockno', valid', data', disk', b)
           i == buf[p]
<1>0. Once(blockno, b) /\ Once(blockno', b)
  BY Zenon, BcacheAssumption DEF IInv, OneBufferPerBlock, Once
<1>1. pc[p] \in {"read", "hold", "dirty"} /\ blockno' = blockno
  BY Zenon DEF DiskRead, Bwrite, WriteAndBunpin
<1>2. /\ i \in Bufs /\ want[p] \in Blocks /\ blockno[i] = want[p]
      /\ \A j \in Bufs : j # i => blockno[j] # want[p]
  BY Zenon, <1>1, HolderAlone
<1> HIDE DEF i
<1>3. CASE DiskRead(p)
  <2>1. /\ pc[p] = "read" /\ disk' = disk
        /\ data' = [data EXCEPT ![i] = disk[want[p]]]
        /\ valid' = [valid EXCEPT ![i] = TRUE]
    BY Zenon, <1>2, <1>3 DEF DiskRead, i
  <2>2. ~valid[i] /\ valid'[i] /\ data'[i] = disk[want[p]]
    BY Zenon, <1>2, <2>1 DEF IInv, ValidInv, TypeOK, i
  <2>3. CASE b = want[p]
    <3>1. S = disk[b]
      BY <1>0, <1>2, <2>2, <2>3, StoreValue
    <3>2. T = data'[i]
      BY <1>0, <1>1, <1>2, <2>2, <2>3, StoreValue
    <3> QED
      BY Zenon, <2>2, <2>3, <3>1, <3>2 DEF Store, StoreOf
  <2>4. CASE b # want[p]
    <3>1. \A j \in Bufs : blockno[j] = b => valid'[j] = valid[j] /\ data'[j] = data[j]
      BY Zenon, <1>2, <2>1, <2>4 DEF IInv, TypeOK
    <3>2. T = S
      <4>1. /\ \A j \in Bufs : blockno[j] = b /\ valid[j] <=> blockno'[j] = b /\ valid'[j]
            /\ \A j \in Bufs : blockno[j] = b /\ valid[j] => data'[j] = data[j]
            /\ disk'[b] = disk[b]
        BY ZenonT(60), <1>1, <2>1, <3>1
      <4> QED
        BY <1>0, <4>1, StoreSame
    <3> QED
      BY Zenon, <3>2 DEF Store, StoreOf
  <2> QED
    BY Zenon, <2>3, <2>4
<1>4. CASE Bwrite(p) \/ WriteAndBunpin(p)
  <2>1. /\ pc[p] \in {"hold", "dirty"} /\ UNCHANGED <<data, valid>>
        /\ disk' = [disk EXCEPT ![want[p]] = data[i]]
    BY Zenon, <1>2, <1>4 DEF Bwrite, WriteAndBunpin, i
  <2>2. valid[i]
    BY Zenon, <2>1 DEF IInv, ValidInv, i
  <2>3. CASE b = want[p]
    <3>1. S = data[i] /\ T = data'[i]
      BY <1>0, <1>1, <1>2, <2>1, <2>2, <2>3, StoreValue
    <3> QED
      BY Zenon, <2>1, <3>1 DEF Store, StoreOf
  <2>4. CASE b # want[p]
    <3>1. disk'[b] = disk[b]
      BY Zenon, <2>1, <2>4 DEF IInv, TypeOK
    <3>2. T = S
      <4>1. /\ \A j \in Bufs : blockno[j] = b /\ valid[j] <=> blockno'[j] = b /\ valid'[j]
            /\ \A j \in Bufs : blockno[j] = b /\ valid[j] => data'[j] = data[j]
            /\ disk'[b] = disk[b]
        BY Zenon, <1>1, <2>1, <3>1
      <4> QED
        BY <1>0, <4>1, StoreSame
    <3> QED
      BY Zenon, <3>2 DEF Store, StoreOf
  <2> QED
    BY Zenon, <2>3, <2>4
<1> QED
  BY Zenon, <1>3, <1>4

\* A change of a locked buffer changes what its own block reads as, only.
LEMMA ModifyKeepsOthers ==
  ASSUME IInv, IInv', NEW b \in Blocks, NEW p \in Procs, NEW v, Modify(p, v),
         want[p] # b
  PROVE  Store(b)' = Store(b)
<1> DEFINE S == StoreOf(blockno, valid, data, disk, b)
           T == StoreOf(blockno', valid', data', disk', b)
<1>0. Once(blockno, b) /\ Once(blockno', b)
  BY Zenon, BcacheAssumption DEF IInv, OneBufferPerBlock, Once
<1>1. /\ pc[p] = "hold" /\ UNCHANGED <<disk, blockno, valid>>
      /\ data' = [data EXCEPT ![buf[p]] = v]
  BY Zenon DEF Modify
<1>2. blockno[buf[p]] = want[p]
  BY Zenon, <1>1, HolderAlone
<1>3. \A j \in Bufs : blockno[j] = b => data'[j] = data[j]
  BY Zenon, <1>1, <1>2 DEF IInv, TypeOK
<1>4. T = S
  <2>1. /\ \A j \in Bufs : blockno[j] = b /\ valid[j] <=> blockno'[j] = b /\ valid'[j]
        /\ \A j \in Bufs : blockno[j] = b /\ valid[j] => data'[j] = data[j]
        /\ disk'[b] = disk[b]
    BY Zenon, <1>1, <1>3
  <2> QED
    BY <1>0, <2>1, StoreSame
<1> QED
  BY Zenon, <1>4 DEF Store, StoreOf

\* Recycling a buffer, reading it in again, writing it out and pinning it
\* never change what a block reads as: only a process that has the block's
\* buffer locked does, by changing its data.
THEOREM BcacheOnlyHolderChanges == Spec => OnlyHolderChanges
<1> DEFINE Changes(b) == \E p \in Procs :
             want[p] = b /\ pc[p] = "hold" /\ pc'[p] = "dirty"
<1>1. IInv /\ IInv' /\ [Next]_vars
        => [\A b \in Blocks : Store(b)' # Store(b) =>
              \E p \in Procs : want[p] = b /\ pc[p] = "hold" /\ pc'[p] = "dirty"]_vars
  <2> SUFFICES ASSUME IInv, IInv', [Next]_vars, NEW b \in Blocks,
                      Store(b)' # Store(b)
               PROVE  Changes(b)
    BY Zenon
  <2>1. ASSUME NEW p \in Procs, NEW a \in Uses[p],
               BgetHit(p, a) \/ BgetMiss(p, a) \/ BgetPanic(p, a)
        PROVE  Store(b)' = Store(b)
    <3>1. CASE BgetMiss(p, a)
      BY Zenon, <3>1, BgetKeepsStore
    <3>2. CASE BgetHit(p, a) \/ BgetPanic(p, a)
      <4>1. UNCHANGED <<blockno, valid, data, disk>>
        BY Zenon, <3>2 DEF BgetHit, BgetPanic
      <4> QED
        BY Zenon, <4>1 DEF Store
    <3> QED
      BY Zenon, <2>1, <3>1, <3>2
  <2>2. ASSUME NEW p \in Procs, NEW v \in Vals, Modify(p, v)
        PROVE  Changes(b)
    <3>1. want[p] = b
      BY Zenon, <2>2, ModifyKeepsOthers
    <3>2. pc[p] = "hold" /\ pc'[p] = "dirty"
      BY Zenon, <2>2 DEF Modify, Goto, IInv, TypeOK
    <3> QED
      BY Zenon, <3>1, <3>2
  <2>3. ASSUME NEW p \in Procs, Finish(p) \/ WriteAndBunpin(p)
        PROVE  Store(b)' = Store(b)
    <3>1. CASE DiskRead(p) \/ Bwrite(p) \/ WriteAndBunpin(p)
      BY Zenon, <3>1, TransferKeepsStore
    <3>2. CASE AcquireSleep(p) \/ Bpin(p) \/ ReleaseSleep(p) \/ Brelse(p)
      <4>1. UNCHANGED <<blockno, valid, data, disk>>
        BY Zenon, <3>2 DEF AcquireSleep, Bpin, ReleaseSleep, Brelse
      <4> QED
        BY Zenon, <4>1 DEF Store
    <3> QED
      BY Zenon, <2>3, <3>1, <3>2 DEF Finish
  <2>4. CASE UNCHANGED vars
    BY Zenon, <2>4 DEF vars, Store
  <2> QED
    BY Zenon, <2>1, <2>2, <2>3, <2>4 DEF Next
<1> QED
  BY <1>1, BcacheInvariant, PTL DEF Spec, OnlyHolderChanges
=============================================================================
