----------------------------- MODULE PipeProofs -----------------------------
(***************************************************************************)
(* Theorems about Pipe, for any number of readers and writers, any size of *)
(* the ring and any wrap-around of its counters: nobody sleeps in front of *)
(* what it waits for, the pipe is freed once and last, and the ring buffer *)
(* is the queue that Channel specifies.                                    *)
(***************************************************************************)
EXTENDS Pipe, SequenceTheorems, TLAPS

-----------------------------------------------------------------------------
(* The inductive invariant.                                                *)

\* pi->lock is held exactly by the process inside a critical section, and
\* readers and writers are each at places of their own.
LockInv ==
  /\ \A p \in Procs : lock = p <=> pc[p] \in {"loop", "checked", "copy"}
  /\ \A p \in Writers : pc[p] \notin {"copy", "asleep_nread"}
  /\ \A p \in Readers : pc[p] # "asleep_nwrite"

\* A process in a call has its end open.  The last one to close an end, and
\* only it, goes on to pipeclose(), once; the pipe is freed when both have.
EndsInv ==
  /\ \A p \in Procs : /\ pc[p] \notin {"user", "pipeclose", "closed"} => p \in open
                      /\ pc[p] \in {"pipeclose", "closed"} => p \notin open
  /\ \A p, q \in Writers : pc[p] = "pipeclose" /\ pc[q] = "pipeclose" => p = q
  /\ \A p, q \in Readers : pc[p] = "pipeclose" /\ pc[q] = "pipeclose" => p = q
  /\ \A p \in Writers : pc[p] = "pipeclose" => writeopen /\ open \cap Writers = {}
  /\ \A p \in Readers : pc[p] = "pipeclose" => readopen /\ open \cap Readers = {}
  /\ ~writeopen => open \cap Writers = {}
  /\ ~readopen => open \cap Readers = {}
  /\ freed <=> ~readopen /\ ~writeopen

\* What was tested in the loop still holds when the process acts on it.
CheckedInv ==
  /\ \A p \in Writers : pc[p] = "checked" => readopen /\ count[p] > 0
  /\ \A p \in Readers : pc[p] = "checked" => Empty /\ writeopen

\* A sleeping writer has a full ring in front of it, or a reader that is
\* taking bytes out and will wake it.
WriterInv ==
  \A p \in Writers : pc[p] = "asleep_nwrite" =>
    readopen /\ (Full \/ \E r \in Readers : pc[r] = "copy")

\* Unless a writer was killed, a sleeping reader has an empty ring in front
\* of it, or a writer that is putting bytes in and will wake it.
ReaderInv ==
  killed \cap Writers = {} =>
    \A p \in Readers : pc[p] = "asleep_nread" =>
      writeopen /\ (Empty \/ \E w \in Writers : pc[w] \in {"loop", "checked"})

IInv == TypeOK /\ LockInv /\ EndsInv /\ CheckedInv /\ WriterInv /\ ReaderInv

-----------------------------------------------------------------------------
(* Arithmetic of counters that wrap.                                       *)

\* Division with remainder, for the unsigned % of C.
LEMMA DivMod ==
  ASSUME NEW M \in Nat \ {0}, NEW a \in Nat
  PROVE  /\ a % M \in 0..(M - 1) /\ a \div M \in Nat
         /\ a = (M * (a \div M)) + (a % M)
OBVIOUS

\* The remainder is the only one: how % is computed for a given quotient.
LEMMA ModUnique ==
  ASSUME NEW M \in Nat \ {0}, NEW a \in Nat, NEW q \in Nat, NEW r \in 0..(M - 1),
         a = M * q + r
  PROVE  a % M = r
OBVIOUS

\* Whole turns around a ring of P cells do not change the cell.
LEMMA ModPeriod ==
  ASSUME NEW P \in Nat \ {0}, NEW a \in Nat, NEW k \in Nat
  PROVE  (a + P * k) % P = a % P
<1> DEFINE q == a \div P
           r == a % P
<1>1. q \in Nat /\ r \in 0..(P - 1) /\ a = P * q + r
  BY Zenon, DivMod
<1> HIDE DEF q, r
<1>2. P * (q + k) = P * q + P * k /\ P * k \in Nat /\ q + k \in Nat
  BY <1>1
<1>3. (a + P * k) % P = r
  BY <1>1, <1>2, ModUnique
<1> QED
  BY Zenon, <1>3 DEF r

\* Less than a turn apart, two positions are different cells of the ring.
LEMMA ModApart ==
  ASSUME NEW P \in Nat \ {0}, NEW a \in Nat, NEW d \in 1..(P - 1)
  PROVE  (a + d) % P # a % P
<1> DEFINE q == a \div P
           r == a % P
<1>1. q \in Nat /\ r \in 0..(P - 1) /\ a = P * q + r
  BY Zenon, DivMod
<1> HIDE DEF q, r
<1>2. CASE r + d < P
  <2>1. (a + d) % P = r + d
    BY <1>1, <1>2, ModUnique
  <2> QED
    BY <2>1, <1>1 DEF r
<1>3. CASE r + d >= P
  <2>1. P * (q + 1) = P * q + P /\ q + 1 \in Nat
    BY <1>1
  <2>2. (a + d) % P = r + d - P
    BY <1>1, <1>3, <2>1, ModUnique
  <2> QED
    BY <2>2, <1>1 DEF r
<1> QED
  BY <1>1, <1>2, <1>3

-----------------------------------------------------------------------------
(* Every action keeps the invariant.                                       *)

\* A read() or write() that begins keeps the invariant.
LEMMA CallKeeps ==
  ASSUME IInv, NEW p \in Procs, NEW n \in 1..MaxCount[p], Call(p, n)
  PROVE  IInv'
<1> USE PipeAssumption DEF IInv, Procs, PCs, ring, ends, Goto, TypeOK
<1> USE DEF Call
<1>1. TypeOK'
  OBVIOUS
<1>2. LockInv'
  BY Zenon DEF LockInv
<1>3. EndsInv'
  BY DEF EndsInv, LockInv
<1>4. CheckedInv'
  BY Zenon DEF CheckedInv, LockInv, EndsInv, Empty
<1>5. WriterInv'
  BY Zenon DEF WriterInv, LockInv, EndsInv, CheckedInv, Full, Empty
<1>6. ReaderInv'
  BY Zenon DEF ReaderInv, LockInv, EndsInv, CheckedInv, Full, Empty
<1> QED
  BY Zenon, <1>1, <1>2, <1>3, <1>4, <1>5, <1>6

\* Taking pi->lock, at the start of a call or at the end of sleep(), keeps it.
LEMMA AcquireKeeps ==
  ASSUME IInv, NEW p \in Procs, Acquire(p)
  PROVE  IInv'
<1> USE PipeAssumption DEF IInv, Procs, PCs, ring, ends, Goto, TypeOK
<1> USE DEF Acquire
<1>1. TypeOK'
  BY Zenon
<1>2. LockInv'
  BY Zenon DEF LockInv
<1>3. EndsInv'
  BY Zenon DEF EndsInv, LockInv
<1>4. CheckedInv'
  BY Zenon DEF CheckedInv, LockInv, EndsInv, Empty
<1>5. WriterInv'
  BY Zenon DEF WriterInv, LockInv, EndsInv, CheckedInv, Full, Empty
<1>6. ReaderInv'
  BY Zenon DEF ReaderInv, LockInv, EndsInv, CheckedInv, Full, Empty
<1> QED
  BY Zenon, <1>1, <1>2, <1>3, <1>4, <1>5, <1>6

\* pipewrite() that gives up keeps it: it leaves no reader asleep in front of
\* bytes unless it was killed, for without a reader nobody sleeps there.
LEMMA WriteAbortKeeps ==
  ASSUME IInv, NEW p \in Procs, WriteAbort(p)
  PROVE  IInv'
<1> USE PipeAssumption DEF IInv, Procs, PCs, ring, ends, Goto, TypeOK
<1> USE DEF WriteAbort, InWrite, Return
<1>1. TypeOK'
  OBVIOUS
<1>2. LockInv'
  BY Zenon DEF LockInv
<1>3. EndsInv'
  BY Zenon DEF EndsInv, LockInv
<1>4. CheckedInv'
  BY Zenon DEF CheckedInv, LockInv, EndsInv, Empty
<1>5. WriterInv'
  BY Zenon DEF WriterInv, LockInv, EndsInv, CheckedInv, Full, Empty
<1>6. ReaderInv'
  BY Zenon DEF ReaderInv, LockInv, EndsInv, CheckedInv, Full, Empty
<1> QED
  BY Zenon, <1>1, <1>2, <1>3, <1>4, <1>5, <1>6

\* The tests at the head of pipewrite()'s loop keep it.
LEMMA WriteCheckKeeps ==
  ASSUME IInv, NEW p \in Procs, WriteCheck(p)
  PROVE  IInv'
<1> USE PipeAssumption DEF IInv, Procs, PCs, ring, ends, Goto, TypeOK
<1> USE DEF WriteCheck, InWrite
<1>1. TypeOK'
  BY Zenon
<1>2. LockInv'
  BY Zenon DEF LockInv
<1>3. EndsInv'
  BY Zenon DEF EndsInv, LockInv
<1>4. CheckedInv'
  BY DEF CheckedInv, LockInv, EndsInv, Empty
<1>5. WriterInv'
  BY Zenon DEF WriterInv, LockInv, EndsInv, CheckedInv, Full, Empty
<1>6. ReaderInv'
  BY Zenon DEF ReaderInv, LockInv, EndsInv, CheckedInv, Full, Empty
<1> QED
  BY Zenon, <1>1, <1>2, <1>3, <1>4, <1>5, <1>6

\* pipewrite() that goes to sleep wakes the readers first, and keeps it.
LEMMA WriteSleepKeeps ==
  ASSUME IInv, NEW p \in Procs, WriteSleep(p)
  PROVE  IInv'
<1> USE PipeAssumption DEF IInv, Procs, PCs, ring, ends, Goto, TypeOK
<1> USE DEF WriteSleep, InWrite, WakeAndGoto
<1>1. TypeOK'
  BY Zenon
<1>2. LockInv'
  BY DEF LockInv
<1>3. EndsInv'
  BY Zenon DEF EndsInv, LockInv
<1>4. CheckedInv'
  BY Zenon DEF CheckedInv, LockInv, EndsInv, Empty
<1>5. WriterInv'
  BY Zenon DEF WriterInv, LockInv, EndsInv, CheckedInv, Full, Empty
<1>6. ReaderInv'
  BY Zenon DEF ReaderInv, LockInv, EndsInv, CheckedInv, Full, Empty
<1> QED
  BY Zenon, <1>1, <1>2, <1>3, <1>4, <1>5, <1>6

\* A byte put in the ring keeps it: whoever sleeps there will be woken.
LEMMA WriteByteKeeps ==
  ASSUME IInv, NEW p \in Procs, NEW ch \in Bytes, WriteByte(p, ch)
  PROVE  IInv'
<1> USE PipeAssumption DEF IInv, Procs, PCs, ring, ends, Goto, TypeOK
<1> USE DEF WriteByte, InWrite, NextCount
<1>1. TypeOK'
  <2> DEFINE cell == nwrite % PIPESIZE
             next == (nwrite + 1) % UINTMOD
  <2>1. cell \in 0..(PIPESIZE - 1) /\ next \in 0..(UINTMOD - 1)
    BY DivMod
  <2>2. data' = [data EXCEPT ![cell] = ch] /\ nwrite' = next
    BY Zenon
  <2> HIDE DEF cell, next
  <2>3. data' \in [0..(PIPESIZE - 1) -> Bytes]
    BY <2>1, <2>2
  <2>4. count' \in [Procs -> Nat] /\ \A q \in Procs : count'[q] <= MaxCount[q]
    BY DEF CheckedInv
  <2> QED
    BY Zenon, <2>1, <2>2, <2>3, <2>4
<1>2. LockInv'
  BY Zenon DEF LockInv
<1>3. EndsInv'
  BY Zenon DEF EndsInv, LockInv
<1>4. CheckedInv'
  BY Zenon DEF CheckedInv, LockInv, EndsInv, Empty
<1>5. WriterInv'
  BY Zenon DEF WriterInv, LockInv, EndsInv, CheckedInv, Full, Empty
<1>6. ReaderInv'
  BY Zenon DEF ReaderInv, LockInv, EndsInv, CheckedInv, Full, Empty
<1> QED
  BY Zenon, <1>1, <1>2, <1>3, <1>4, <1>5, <1>6

\* The end of pipewrite(), which wakes the readers, keeps it.
LEMMA WriteDoneKeeps ==
  ASSUME IInv, NEW p \in Procs, WriteDone(p)
  PROVE  IInv'
<1> USE PipeAssumption DEF IInv, Procs, PCs, ring, ends, Goto, TypeOK
<1> USE DEF WriteDone, InWrite, Done, WakeAndGoto
<1>1. TypeOK'
  OBVIOUS
<1>2. LockInv'
  BY Zenon DEF LockInv
<1>3. EndsInv'
  BY Zenon DEF EndsInv, LockInv
<1>4. CheckedInv'
  BY Zenon DEF CheckedInv, LockInv, EndsInv, Empty
<1>5. WriterInv'
  BY Zenon DEF WriterInv, LockInv, EndsInv, CheckedInv, Full, Empty
<1>6. ReaderInv'
  BY Zenon DEF ReaderInv, LockInv, EndsInv, CheckedInv, Full, Empty
<1> QED
  BY Zenon, <1>1, <1>2, <1>3, <1>4, <1>5, <1>6

\* piperead() of a killed process keeps it.
LEMMA ReadAbortKeeps ==
  ASSUME IInv, NEW p \in Procs, ReadAbort(p)
  PROVE  IInv'
<1> USE PipeAssumption DEF IInv, Procs, PCs, ring, ends, Goto, TypeOK
<1> USE DEF ReadAbort, InRead, Return
<1>1. TypeOK'
  OBVIOUS
<1>2. LockInv'
  BY Zenon DEF LockInv
<1>3. EndsInv'
  BY Zenon DEF EndsInv, LockInv
<1>4. CheckedInv'
  BY Zenon DEF CheckedInv, LockInv, EndsInv, Empty
<1>5. WriterInv'
  BY Zenon DEF WriterInv, LockInv, EndsInv, CheckedInv, Full, Empty
<1>6. ReaderInv'
  BY Zenon DEF ReaderInv, LockInv, EndsInv, CheckedInv, Full, Empty
<1> QED
  BY Zenon, <1>1, <1>2, <1>3, <1>4, <1>5, <1>6

\* The tests before piperead() sleeps keep it.
LEMMA ReadCheckKeeps ==
  ASSUME IInv, NEW p \in Procs, ReadCheck(p)
  PROVE  IInv'
<1> USE PipeAssumption DEF IInv, Procs, PCs, ring, ends, Goto, TypeOK
<1> USE DEF ReadCheck, InRead
<1>1. TypeOK'
  BY Zenon
<1>2. LockInv'
  BY Zenon DEF LockInv
<1>3. EndsInv'
  BY Zenon DEF EndsInv, LockInv
<1>4. CheckedInv'
  BY DEF CheckedInv, LockInv, EndsInv, Empty
<1>5. WriterInv'
  BY Zenon DEF WriterInv, LockInv, EndsInv, CheckedInv, Full, Empty
<1>6. ReaderInv'
  BY Zenon DEF ReaderInv, LockInv, EndsInv, CheckedInv, Full, Empty
<1> QED
  BY Zenon, <1>1, <1>2, <1>3, <1>4, <1>5, <1>6

\* piperead() that goes to sleep keeps it: the ring is still empty.
LEMMA ReadSleepKeeps ==
  ASSUME IInv, NEW p \in Procs, ReadSleep(p)
  PROVE  IInv'
<1> USE PipeAssumption DEF IInv, Procs, PCs, ring, ends, Goto, TypeOK
<1> USE DEF ReadSleep, InRead
<1>1. TypeOK'
  BY Zenon
<1>2. LockInv'
  BY DEF LockInv
<1>3. EndsInv'
  BY Zenon DEF EndsInv, LockInv
<1>4. CheckedInv'
  BY Zenon DEF CheckedInv, LockInv, EndsInv, Empty
<1>5. WriterInv'
  BY Zenon DEF WriterInv, LockInv, EndsInv, CheckedInv, Full, Empty
<1>6. ReaderInv'
  BY Zenon DEF ReaderInv, LockInv, EndsInv, CheckedInv, Full, Empty
<1> QED
  BY Zenon, <1>1, <1>2, <1>3, <1>4, <1>5, <1>6

\* Leaving the waiting loop for the copying loop keeps it.
LEMMA ReadStartKeeps ==
  ASSUME IInv, NEW p \in Procs, ReadStart(p)
  PROVE  IInv'
<1> USE PipeAssumption DEF IInv, Procs, PCs, ring, ends, Goto, TypeOK
<1> USE DEF ReadStart, InRead
<1>1. TypeOK'
  BY Zenon
<1>2. LockInv'
  BY DEF LockInv
<1>3. EndsInv'
  BY Zenon DEF EndsInv, LockInv
<1>4. CheckedInv'
  BY Zenon DEF CheckedInv, LockInv, EndsInv, Empty
<1>5. WriterInv'
  BY Zenon DEF WriterInv, LockInv, EndsInv, CheckedInv, Full, Empty
<1>6. ReaderInv'
  BY DEF ReaderInv, LockInv, EndsInv, CheckedInv, Full, Empty
<1> QED
  BY Zenon, <1>1, <1>2, <1>3, <1>4, <1>5, <1>6

\* A byte taken from the ring keeps it: sleeping writers will be woken.
LEMMA ReadByteKeeps ==
  ASSUME IInv, NEW p \in Procs, ReadByte(p)
  PROVE  IInv'
<1> USE PipeAssumption DEF IInv, Procs, PCs, ring, ends, Goto, TypeOK
<1> USE DEF ReadByte, InRead, NextCount
<1>1. TypeOK'
  <2> DEFINE next == (nread + 1) % UINTMOD
  <2>1. next \in 0..(UINTMOD - 1) /\ nread' = next
    BY DivMod
  <2> HIDE DEF next
  <2> QED
    BY <2>1
<1>2. LockInv'
  BY Zenon DEF LockInv
<1>3. EndsInv'
  BY Zenon DEF EndsInv, LockInv
<1>4. CheckedInv'
  BY Zenon DEF CheckedInv, LockInv, EndsInv, Empty
<1>5. WriterInv'
  BY Zenon DEF WriterInv, LockInv, EndsInv, CheckedInv, Full, Empty
<1>6. ReaderInv'
  BY Zenon DEF ReaderInv, LockInv, EndsInv, CheckedInv, Full, Empty
<1> QED
  BY Zenon, <1>1, <1>2, <1>3, <1>4, <1>5, <1>6

\* A copyout() that fails ends piperead() like its loop, and keeps it.
LEMMA ReadFaultKeeps ==
  ASSUME IInv, NEW p \in Procs, ReadFault(p)
  PROVE  IInv'
<1> USE PipeAssumption DEF IInv, Procs, PCs, ring, ends, Goto, TypeOK
<1> USE DEF ReadFault, InRead, NextCount, WakeAndGoto
<1>1. TypeOK'
  <2> DEFINE next == (nread + 1) % UINTMOD
  <2>1. next \in 0..(UINTMOD - 1) /\ nread' = next
    BY DivMod
  <2> HIDE DEF next
  <2> QED
    BY <2>1
<1>2. LockInv'
  BY Zenon DEF LockInv
<1>3. EndsInv'
  BY Zenon DEF EndsInv, LockInv
<1>4. CheckedInv'
  BY Zenon DEF CheckedInv, LockInv, EndsInv, Empty
<1>5. WriterInv'
  BY Zenon DEF WriterInv, LockInv, EndsInv, CheckedInv, Full, Empty
<1>6. ReaderInv'
  BY Zenon DEF ReaderInv, LockInv, EndsInv, CheckedInv, Full, Empty
<1> QED
  BY Zenon, <1>1, <1>2, <1>3, <1>4, <1>5, <1>6

\* The end of piperead(), which wakes the writers, keeps it.
LEMMA ReadDoneKeeps ==
  ASSUME IInv, NEW p \in Procs, ReadDone(p)
  PROVE  IInv'
<1> USE PipeAssumption DEF IInv, Procs, PCs, ring, ends, Goto, TypeOK
<1> USE DEF ReadDone, InRead, Done, WakeAndGoto
<1>1. TypeOK'
  OBVIOUS
<1>2. LockInv'
  BY Zenon DEF LockInv
<1>3. EndsInv'
  BY Zenon DEF EndsInv, LockInv
<1>4. CheckedInv'
  BY Zenon DEF CheckedInv, LockInv, EndsInv, Empty
<1>5. WriterInv'
  BY Zenon DEF WriterInv, LockInv, EndsInv, CheckedInv, Full, Empty
<1>6. ReaderInv'
  BY Zenon DEF ReaderInv, LockInv, EndsInv, CheckedInv, Full, Empty
<1> QED
  BY Zenon, <1>1, <1>2, <1>3, <1>4, <1>5, <1>6

\* fileclose() keeps it: one process per end is the last to close it.
LEMMA FileCloseKeeps ==
  ASSUME IInv, NEW p \in Procs, FileClose(p)
  PROVE  IInv'
<1> USE PipeAssumption DEF IInv, Procs, PCs, ring, ends, Goto, TypeOK
<1> USE DEF FileClose, LastHolder
<1>1. TypeOK'
  BY Zenon
<1>2. LockInv'
  BY Zenon DEF LockInv
<1>3. EndsInv'
  BY DEF EndsInv, LockInv
<1>4. CheckedInv'
  BY Zenon DEF CheckedInv, LockInv, EndsInv, Empty
<1>5. WriterInv'
  BY Zenon DEF WriterInv, LockInv, EndsInv, CheckedInv, Full, Empty
<1>6. ReaderInv'
  BY Zenon DEF ReaderInv, LockInv, EndsInv, CheckedInv, Full, Empty
<1> QED
  BY Zenon, <1>1, <1>2, <1>3, <1>4, <1>5, <1>6

\* pipeclose() keeps it: it wakes the other end, and frees the pipe when the
\* other end was closed before.
LEMMA PipeCloseKeeps ==
  ASSUME IInv, NEW p \in Procs, PipeClose(p)
  PROVE  IInv'
<1> USE PipeAssumption DEF IInv, Procs, PCs, ring, ends, Goto, TypeOK
<1>1. CASE p \in Writers
  <2>0. /\ writeopen' = FALSE /\ readopen' = readopen /\ pc[p] = "pipeclose"
        /\ freed' = ~readopen /\ lock = NoProc
        /\ open \cap Writers = {} /\ UNCHANGED <<ring, open, lock, killed, count>>
        /\ \A q \in Procs : pc'[q] = IF q = p THEN "closed"
             ELSE IF pc[q] = "asleep_nread" THEN "acquire" ELSE pc[q]
        /\ pc' \in [Procs -> PCs]
    BY <1>1 DEF PipeClose, WakeAndGoto, EndsInv
  <2> USE <1>1, <2>0
  <2>1. TypeOK'
    BY Zenon
  <2>2. LockInv'
    BY Zenon DEF LockInv
  <2>3. EndsInv'
    BY Zenon DEF EndsInv, LockInv
  <2>4. CheckedInv'
    <3>1. \A q \in Procs : pc'[q] # "checked"
      BY DEF LockInv
    <3> QED
      BY Zenon, <3>1 DEF CheckedInv
  <2>5. WriterInv'
    BY Zenon DEF WriterInv, LockInv, EndsInv, Full
  <2>6. ReaderInv'
    BY Zenon DEF ReaderInv, LockInv, EndsInv, Empty
  <2> QED
    BY Zenon, <2>1, <2>2, <2>3, <2>4, <2>5, <2>6
<1>2. CASE p \in Readers
  <2>0. /\ readopen' = FALSE /\ writeopen' = writeopen /\ pc[p] = "pipeclose"
        /\ freed' = ~writeopen /\ lock = NoProc
        /\ open \cap Readers = {} /\ UNCHANGED <<ring, open, lock, killed, count>>
        /\ \A q \in Procs : pc'[q] = IF q = p THEN "closed"
             ELSE IF pc[q] = "asleep_nwrite" THEN "acquire" ELSE pc[q]
        /\ pc' \in [Procs -> PCs]
    BY <1>2 DEF PipeClose, WakeAndGoto, EndsInv
  <2> USE <1>2, <2>0
  <2>1. TypeOK'
    BY Zenon
  <2>2. LockInv'
    BY Zenon DEF LockInv
  <2>3. EndsInv'
    BY Zenon DEF EndsInv, LockInv
  <2>4. CheckedInv'
    <3>1. \A q \in Procs : pc'[q] # "checked"
      BY ZenonT(60) DEF LockInv
    <3> QED
      BY Zenon, <3>1 DEF CheckedInv
  <2>5. WriterInv'
    BY Zenon DEF WriterInv, LockInv, EndsInv, Full
  <2>6. ReaderInv'
    BY Zenon DEF ReaderInv, LockInv, EndsInv, Empty
  <2> QED
    BY Zenon, <2>1, <2>2, <2>3, <2>4, <2>5, <2>6
<1> QED
  BY Zenon, <1>1, <1>2

\* kill() keeps it: a killed sleeper goes back to its loop.
LEMMA KillKeeps ==
  ASSUME IInv, NEW p \in Procs, Kill(p)
  PROVE  IInv'
<1> USE PipeAssumption DEF IInv, Procs, PCs, ring, ends, Goto, TypeOK
<1> USE DEF Kill
<1>1. TypeOK'
  BY Zenon
<1>2. LockInv'
  BY Zenon DEF LockInv
<1>3. EndsInv'
  BY Zenon DEF EndsInv, LockInv
<1>4. CheckedInv'
  BY Zenon DEF CheckedInv, LockInv, EndsInv, Empty
<1>5. WriterInv'
  BY Zenon DEF WriterInv, LockInv, EndsInv, CheckedInv, Full, Empty
<1>6. ReaderInv'
  BY DEF ReaderInv, LockInv, EndsInv, CheckedInv, Full, Empty
<1> QED
  BY Zenon, <1>1, <1>2, <1>3, <1>4, <1>5, <1>6

\* The invariant holds when pipealloc() has made the pipe.
LEMMA PipeInit == Init => IInv
<1> SUFFICES ASSUME Init PROVE IInv
  BY Zenon
<1> USE PipeAssumption DEF Init, Procs
<1>1. TypeOK
  <2>1. PICK ch \in Bytes : data \in [0..(PIPESIZE - 1) -> {ch}]
    BY Zenon
  <2>2. data \in [0..(PIPESIZE - 1) -> Bytes]
    BY <2>1
  <2>3. pc \in [Procs -> PCs] /\ count \in [Procs -> Nat]
        /\ \A p \in Procs : count[p] <= MaxCount[p]
    BY DEF PCs
  <2>4. open \subseteq Procs /\ killed \subseteq Procs
    BY Zenon
  <2>5. nread \in 0..(UINTMOD - 1) /\ nwrite \in 0..(UINTMOD - 1)
    OBVIOUS
  <2> QED
    BY Zenon, <2>2, <2>3, <2>4, <2>5 DEF TypeOK
<1>2. LockInv /\ EndsInv
  BY Zenon DEF LockInv, EndsInv
<1>3. CheckedInv /\ WriterInv /\ ReaderInv
  BY Zenon DEF CheckedInv, WriterInv, ReaderInv
<1> QED
  BY Zenon, <1>1, <1>2, <1>3 DEF IInv

\* Every step of any process keeps it.
LEMMA PipeStepKeeps == IInv /\ [Next]_vars => IInv'
<1> SUFFICES ASSUME IInv, [Next]_vars PROVE IInv'
  BY Zenon
<1>1. ASSUME NEW p \in Procs, PipeStep(p) PROVE IInv'
  BY Zenon, <1>1, AcquireKeeps, WriteAbortKeeps, WriteCheckKeeps, WriteSleepKeeps,
     WriteDoneKeeps, WriteByteKeeps, ReadAbortKeeps, ReadCheckKeeps,
     ReadSleepKeeps, ReadStartKeeps, ReadByteKeeps, ReadFaultKeeps,
     ReadDoneKeeps, PipeCloseKeeps DEF PipeStep
<1>2. ASSUME NEW p \in Procs, FileClose(p) \/ Kill(p) PROVE IInv'
  BY Zenon, <1>2, FileCloseKeeps, KillKeeps
<1>3. ASSUME NEW p \in Procs, NEW n \in 1..MaxCount[p], Call(p, n) PROVE IInv'
  BY Zenon, <1>3, CallKeeps
<1>4. CASE UNCHANGED vars
  BY Zenon, <1>4 DEF vars, IInv, TypeOK, LockInv, EndsInv, CheckedInv, WriterInv,
              ReaderInv, Full, Empty
<1> QED
  BY Zenon, <1>1, <1>2, <1>3, <1>4 DEF Next

\* The inductive invariant holds in every state of every behaviour.
THEOREM PipeInvariant == Spec => []IInv
  BY PipeInit, PipeStepKeeps, PTL DEF Spec

\* No writer sleeps in pipewrite() unless the ring is full and somebody can
\* read; no reader sleeps in piperead() unless it is empty and somebody can
\* write, as long as no writer is killed.
THEOREM PipeSleepers == Spec => []SleepersMustWait
<1>1. IInv => SleepersMustWait
  <2> SUFFICES ASSUME IInv PROVE SleepersMustWait
    BY Zenon
  <2> USE PipeAssumption DEF IInv, Procs, LockInv
  <2>1. WriterSleepsOnlyIfFull
    BY DEF WriterSleepsOnlyIfFull, WriterInv
  <2>2. UnkilledWritersWakeReaders
    BY Zenon DEF UnkilledWritersWakeReaders, ReaderSleepsOnlyIfEmpty, ReaderInv
  <2> QED
    BY Zenon, <2>1, <2>2 DEF SleepersMustWait
<1> QED
  BY <1>1, PipeInvariant, PTL

\* kfree(pi) comes after the last use: nobody has the pipe open or is in a
\* call on it, whatever the order in which the ends were closed.
THEOREM PipeFreedLast == Spec => []NoUseAfterFree
<1>1. IInv => NoUseAfterFree
  BY Zenon, PipeAssumption DEF IInv, NoUseAfterFree, EndsInv, TypeOK, PCs, Procs
<1> QED
  BY <1>1, PipeInvariant, PTL

-----------------------------------------------------------------------------
(* The ring buffer is a queue.                                             *)

\* nwrite - nread in uint arithmetic, for any two counters.
Distance(r, w) == (w + UINTMOD - r) % UINTMOD

Counter == 0..(UINTMOD - 1)

\* The subtraction overflows at most once.
LEMMA DistanceValue ==
  ASSUME NEW r \in Counter, NEW w \in Counter
  PROVE  Distance(r, w) = IF r <= w THEN w - r ELSE w + UINTMOD - r
<1>1. w + UINTMOD - r \in 0..(2 * UINTMOD - 1)
  BY PipeAssumption DEF Counter
<1>2. UINTMOD \in Nat \ {0}
  BY PipeAssumption
<1> QED
  BY <1>1, <1>2 DEF Distance, Counter

\* ++ of a counter, without %.
LEMMA NextCountValue ==
  ASSUME NEW n \in Counter
  PROVE  /\ NextCount(n) \in Counter
         /\ NextCount(n) = IF n + 1 = UINTMOD THEN 0 ELSE n + 1
<1>1. n + 1 \in 0..(2 * UINTMOD - 1) /\ UINTMOD \in Nat \ {0}
  BY PipeAssumption DEF Counter
<1>2. (n + 1) % UINTMOD = IF n + 1 < UINTMOD THEN n + 1 ELSE n + 1 - UINTMOD
  BY <1>1 DEF Counter
<1> QED
  BY <1>1, <1>2 DEF NextCount, Counter

\* The tests DOC: pipe-empty and DOC: pipewrite-full count the bytes.
LEMMA EmptyOrFull ==
  ASSUME nread \in Counter, nwrite \in Counter
  PROVE  (Empty <=> Used = 0) /\ (Full <=> Used = PIPESIZE)
<1>1. Used = IF nread <= nwrite THEN nwrite - nread ELSE nwrite + UINTMOD - nread
  BY Zenon, DistanceValue DEF Distance, Used
<1>2. nread + PIPESIZE \in 0..(2 * UINTMOD - 1) /\ UINTMOD \in Nat \ {0}
  BY PipeAssumption DEF Counter
<1>3. (nread + PIPESIZE) % UINTMOD = IF nread + PIPESIZE < UINTMOD
        THEN nread + PIPESIZE ELSE nread + PIPESIZE - UINTMOD
  BY <1>2, PipeAssumption DEF Counter
<1> QED
  BY <1>1, <1>3, PipeAssumption DEF Empty, Full, Counter

\* A byte in, a byte out, also where a counter wraps.
LEMMA CountBytes ==
  ASSUME NEW r \in Counter, NEW w \in Counter
  PROVE  /\ Distance(r, w) \in 0..(UINTMOD - 1)
         /\ Distance(r, w) < UINTMOD - 1 =>
              Distance(r, NextCount(w)) = Distance(r, w) + 1
         /\ Distance(r, w) > 0 =>
              Distance(NextCount(r), w) = Distance(r, w) - 1
<1>1. NextCount(w) \in Counter /\ NextCount(r) \in Counter
  BY Zenon, NextCountValue
<1>2. Distance(r, w) = IF r <= w THEN w - r ELSE w + UINTMOD - r
  BY Zenon, DistanceValue
<1>3. Distance(r, NextCount(w)) = IF r <= NextCount(w) THEN NextCount(w) - r
                                  ELSE NextCount(w) + UINTMOD - r
  BY Zenon, <1>1, DistanceValue
<1>4. Distance(NextCount(r), w) = IF NextCount(r) <= w THEN w - NextCount(r)
                                  ELSE w + UINTMOD - NextCount(r)
  BY Zenon, <1>1, DistanceValue
<1> QED
  BY <1>2, <1>3, <1>4, NextCountValue, PipeAssumption DEF Counter

\* The counters' modulus is a multiple of the ring's size, so a counter that
\* wraps points to the cell it would have pointed to.
LEMMA WrapKeepsCell ==
  ASSUME NEW a \in Nat
  PROVE  (a + UINTMOD) % PIPESIZE = a % PIPESIZE
<1> DEFINE k == UINTMOD \div PIPESIZE
<1>1. k \in Nat /\ UINTMOD = PIPESIZE * k
  BY PipeAssumption, DivMod
<1> HIDE DEF k
<1> QED
  BY Zenon, <1>1, ModPeriod, PipeAssumption

\* The cell pipewrite() uses is the one after the last byte of the queue.
LEMMA WriteCell ==
  ASSUME NEW r \in Counter, NEW w \in Counter
  PROVE  w % PIPESIZE = (r + Distance(r, w)) % PIPESIZE
<1>1. r + Distance(r, w) = w \/ r + Distance(r, w) = w + UINTMOD
  BY DistanceValue, PipeAssumption DEF Counter
<1> QED
  BY <1>1, WrapKeepsCell DEF Counter

\* When a byte is taken the others keep their cells.
LEMMA ReadCell ==
  ASSUME NEW r \in Counter, NEW i \in Nat \ {0}
  PROVE  (NextCount(r) + i - 1) % PIPESIZE = (r + i) % PIPESIZE
<1>1. CASE r + 1 = UINTMOD
  <2>1. NextCount(r) + i - 1 = i - 1 /\ r + i = (i - 1) + UINTMOD /\ i - 1 \in Nat
    BY <1>1, NextCountValue, PipeAssumption DEF Counter
  <2> QED
    BY Zenon, <2>1, WrapKeepsCell
<1>2. CASE r + 1 # UINTMOD
  <2>1. NextCount(r) + i - 1 = r + i
    BY <1>2, NextCountValue, PipeAssumption DEF Counter
  <2> QED
    BY Zenon, <2>1
<1> QED
  BY Zenon, <1>1, <1>2

\* The cells of the queue are different from the next one to be written.
LEMMA CellsApart ==
  ASSUME NEW r \in Counter, NEW n \in 0..(PIPESIZE - 1), NEW i \in 1..n
  PROVE  (r + i - 1) % PIPESIZE # (r + n) % PIPESIZE
<1>1. r + i - 1 \in Nat /\ n - i + 1 \in 1..(PIPESIZE - 1)
      /\ (r + i - 1) + (n - i + 1) = r + n
  BY PipeAssumption DEF Counter
<1>2. ((r + i - 1) + (n - i + 1)) % PIPESIZE # (r + i - 1) % PIPESIZE
  BY Zenon, <1>1, ModApart, PipeAssumption
<1> QED
  BY Zenon, <1>1, <1>2

\* The n bytes from counter r on, in a ring d.
Cells == 0..(PIPESIZE - 1)
Contents(d, r, n) == [i \in 1..n |-> d[(r + i - 1) % PIPESIZE]]

\* They are a sequence of n bytes.
LEMMA ContentsIsSeq ==
  ASSUME NEW d \in [Cells -> Bytes], NEW r \in Counter, NEW n \in Nat
  PROVE  /\ Contents(d, r, n) \in Seq(Bytes) /\ Len(Contents(d, r, n)) = n
         /\ \A i \in 1..n : Contents(d, r, n)[i] = d[(r + i - 1) % PIPESIZE]
<1>1. ASSUME NEW i \in 1..n
      PROVE  d[(r + i - 1) % PIPESIZE] \in Bytes
  <2> DEFINE a == r + i - 1
  <2>1. a \in Nat
    BY PipeAssumption DEF Counter
  <2> HIDE DEF a
  <2>2. a % PIPESIZE \in Cells
    BY Zenon, <2>1, DivMod, PipeAssumption DEF Cells
  <2>3. d[a % PIPESIZE] \in Bytes
    BY Zenon, <2>2
  <2> QED
    BY Zenon, <2>3 DEF a
<1>2. Contents(d, r, n) \in [1..n -> Bytes]
  BY Zenon, <1>1 DEF Contents
<1>3. Contents(d, r, n) \in Seq(Bytes) /\ Len(Contents(d, r, n)) = n
  BY <1>2
<1> QED
  BY Zenon, <1>3 DEF Contents

\* A byte stored in the cell after them, while there is room, is appended:
\* no byte in the ring is overwritten.
LEMMA StoreAppends ==
  ASSUME NEW d \in [Cells -> Bytes], NEW r \in Counter,
         NEW n \in 0..(PIPESIZE - 1), NEW ch \in Bytes
  PROVE  Contents([d EXCEPT ![(r + n) % PIPESIZE] = ch], r, n + 1)
           = Append(Contents(d, r, n), ch)
<1> DEFINE last == (r + n) % PIPESIZE
           e == [d EXCEPT ![last] = ch]
<1>1. last \in Cells
  BY DivMod, PipeAssumption DEF Cells, Counter
<1>2. e \in [Cells -> Bytes] /\ e[last] = ch
      /\ \A c \in Cells : c # last => e[c] = d[c]
  BY Zenon, <1>1
<1> HIDE DEF last, e
<1>3. ASSUME NEW i \in 1..n
      PROVE  e[(r + i - 1) % PIPESIZE] = d[(r + i - 1) % PIPESIZE]
  <2>1. (r + i - 1) % PIPESIZE # last
    BY Zenon, CellsApart DEF last
  <2>2. r + i - 1 \in Nat
    BY PipeAssumption DEF Counter
  <2>3. (r + i - 1) % PIPESIZE \in Cells
    BY Zenon, <2>2, DivMod, PipeAssumption DEF Cells
  <2> QED
    BY Zenon, <1>2, <2>1, <2>3
<1> DEFINE s == Contents(d, r, n)
           t == Contents(e, r, n + 1)
<1>4. /\ s \in Seq(Bytes) /\ Len(s) = n
      /\ \A i \in 1..n : s[i] = d[(r + i - 1) % PIPESIZE]
  <2>1. n \in Nat
    BY PipeAssumption
  <2> QED
    BY Zenon, <2>1, ContentsIsSeq
<1>5. /\ t \in Seq(Bytes) /\ Len(t) = n + 1
      /\ \A i \in 1..(n + 1) : t[i] = e[(r + i - 1) % PIPESIZE]
  <2>1. n + 1 \in Nat
    BY PipeAssumption
  <2> QED
    BY Zenon, <1>2, <2>1, ContentsIsSeq
<1> HIDE DEF s, t
<1>6. t[n + 1] = ch
  <2>1. r + (n + 1) - 1 = r + n
    BY PipeAssumption DEF Counter
  <2>2. t[n + 1] = e[(r + (n + 1) - 1) % PIPESIZE]
    BY <1>5, PipeAssumption
  <2> QED
    BY Zenon, <1>2, <2>1, <2>2 DEF last
<1>7. ASSUME NEW i \in 1..n
      PROVE  t[i] = s[i]
  <2>1. i \in 1..(n + 1)
    BY PipeAssumption
  <2>2. t[i] = e[(r + i - 1) % PIPESIZE]
    BY Zenon, <1>5, <2>1
  <2>3. s[i] = d[(r + i - 1) % PIPESIZE]
    BY Zenon, <1>4
  <2> QED
    BY Zenon, <1>3, <2>2, <2>3
<1>8. /\ Append(s, ch) \in Seq(Bytes) /\ Len(Append(s, ch)) = n + 1
      /\ \A i \in 1..n : Append(s, ch)[i] = s[i]
      /\ Append(s, ch)[n + 1] = ch
  BY <1>4, AppendProperties
<1>9. \A i \in 1..Len(t) : t[i] = Append(s, ch)[i]
  BY <1>5, <1>6, <1>7, <1>8, PipeAssumption
<1>10. t = Append(s, ch)
  BY Zenon, <1>5, <1>8, <1>9, SeqEqual
<1> QED
  BY Zenon, <1>10 DEF s, t, e, last

\* A byte read off the front leaves the others in their order.
LEMMA TakeIsTail ==
  ASSUME NEW d \in [Cells -> Bytes], NEW r \in Counter, NEW n \in Nat \ {0}
  PROVE  Contents(d, NextCount(r), n - 1) = Tail(Contents(d, r, n))
<1> DEFINE s == Contents(d, r, n)
           t == Contents(d, NextCount(r), n - 1)
<1>1. /\ s \in Seq(Bytes) /\ Len(s) = n
      /\ \A i \in 1..n : s[i] = d[(r + i - 1) % PIPESIZE]
  BY Zenon, ContentsIsSeq
<1>2. /\ t \in Seq(Bytes) /\ Len(t) = n - 1
      /\ \A i \in 1..(n - 1) : t[i] = d[(NextCount(r) + i - 1) % PIPESIZE]
  <2>1. n - 1 \in Nat /\ NextCount(r) \in Counter
    BY NextCountValue
  <2> QED
    BY Zenon, <2>1, ContentsIsSeq
<1>3. ASSUME NEW i \in 1..(n - 1)
      PROVE  t[i] = s[i + 1]
  <2>1. (NextCount(r) + i - 1) % PIPESIZE = (r + i) % PIPESIZE
    BY ReadCell
  <2>2. r + (i + 1) - 1 = r + i /\ i + 1 \in 1..n
    BY DEF Counter
  <2> QED
    BY <1>1, <1>2, <2>1, <2>2
<1> HIDE DEF s, t
<1>4. s # <<>>
  BY Zenon, <1>1
<1>5. /\ Tail(s) \in Seq(Bytes) /\ Len(Tail(s)) = n - 1
      /\ \A i \in 1..(n - 1) : Tail(s)[i] = s[i + 1]
  BY Zenon, <1>1, <1>4, HeadTailProperties
<1>6. t = Tail(s)
  BY Zenon, <1>2, <1>3, <1>5, SeqEqual
<1> QED
  BY Zenon, <1>6 DEF s, t

-----------------------------------------------------------------------------
(* Pipe implements Channel.                                                *)

\* The ring never holds more than its size.
RingInv == Used <= PIPESIZE

\* Queue in terms of Contents, in a state of the right type.
LEMMA QueueContents ==
  ASSUME TypeOK
  PROVE  /\ nread \in Counter /\ nwrite \in Counter /\ data \in [Cells -> Bytes]
         /\ Used = Distance(nread, nwrite) /\ Used \in Nat
         /\ Queue = Contents(data, nread, Used)
         /\ Queue \in Seq(Bytes) /\ Len(Queue) = Used
<1>1. /\ nread \in Counter /\ nwrite \in Counter /\ data \in [Cells -> Bytes]
      /\ Used = Distance(nread, nwrite) /\ Queue = Contents(data, nread, Used)
  BY Zenon DEF TypeOK, Counter, Cells, Used, Distance, Queue, Contents
<1>2. Used \in Nat
  BY <1>1, CountBytes
<1> QED
  BY Zenon, <1>1, <1>2, ContentsIsSeq

\* pipewrite() that stores a byte is a Send.
LEMMA WriteByteSends ==
  ASSUME IInv, RingInv, NEW p \in Procs, NEW ch \in Bytes, WriteByte(p, ch)
  PROVE  C!Send(ch) /\ RingInv'
<1> USE DEF IInv
<1>1. /\ nread \in Counter /\ nwrite \in Counter /\ data \in [Cells -> Bytes]
      /\ Used = Distance(nread, nwrite) /\ Queue = Contents(data, nread, Used)
      /\ Len(Queue) = Used
  BY Zenon, QueueContents
<1>2. Used \in 0..(PIPESIZE - 1)
  BY <1>1, EmptyOrFull, CountBytes, PipeAssumption DEF RingInv, WriteByte
<1>3. nwrite' = NextCount(nwrite) /\ nread' = nread
      /\ data' = [data EXCEPT ![nwrite % PIPESIZE] = ch]
      /\ UNCHANGED <<readopen, writeopen>>
  BY Zenon DEF WriteByte, ends
<1>4. Used' = Used + 1
  <2>1. Distance(nread, NextCount(nwrite)) = Distance(nread, nwrite) + 1
    BY <1>1, <1>2, CountBytes, PipeAssumption
  <2> QED
    BY Zenon, <1>1, <1>3, <2>1 DEF Used, Distance
<1>5. Queue' = Append(Queue, ch)
  <2>1. nwrite % PIPESIZE = (nread + Used) % PIPESIZE
    BY Zenon, <1>1, WriteCell
  <2>2. Queue' = Contents(data', nread, Used + 1)
    BY <1>3, <1>4 DEF Queue, Contents
  <2>3. data' = [data EXCEPT ![(nread + Used) % PIPESIZE] = ch]
    BY Zenon, <1>3, <2>1
  <2>4. Contents(data', nread, Used + 1) = Append(Contents(data, nread, Used), ch)
    <3>1. Contents([data EXCEPT ![(nread + Used) % PIPESIZE] = ch], nread, Used + 1)
            = Append(Contents(data, nread, Used), ch)
      BY Zenon, <1>1, <1>2, StoreAppends
    <3> QED
      BY Zenon, <2>3, <3>1
  <2> QED
    BY Zenon, <1>1, <2>2, <2>4
<1>6. readopen /\ writeopen
  BY Zenon, PipeAssumption DEF WriteByte, InWrite, CheckedInv, EndsInv, Procs
<1> QED
  BY <1>1, <1>2, <1>3, <1>4, <1>5, <1>6, PipeAssumption DEF C!Send, RingInv

\* piperead() that takes a byte, copied out or not, is a Receive.
LEMMA ReadByteReceives ==
  ASSUME IInv, RingInv, NEW p \in Procs, ReadByte(p) \/ ReadFault(p)
  PROVE  C!Receive /\ RingInv'
<1> USE DEF IInv
<1>1. /\ nread \in Counter /\ nwrite \in Counter /\ data \in [Cells -> Bytes]
      /\ Used = Distance(nread, nwrite) /\ Queue = Contents(data, nread, Used)
      /\ Len(Queue) = Used /\ Used \in Nat
  BY Zenon, QueueContents
<1>2. Used \in Nat \ {0}
  BY Zenon, <1>1, EmptyOrFull DEF ReadByte, ReadFault
<1>3. nread' = NextCount(nread) /\ UNCHANGED <<data, nwrite, readopen, writeopen>>
  BY Zenon DEF ReadByte, ReadFault, ends
<1>4. Used' = Used - 1
  <2>1. Distance(NextCount(nread), nwrite) = Distance(nread, nwrite) - 1
    BY <1>1, <1>2, CountBytes
  <2> QED
    BY Zenon, <1>1, <1>3, <2>1 DEF Used, Distance
<1>5. Queue' = Tail(Queue)
  <2>1. Queue' = Contents(data, NextCount(nread), Used - 1)
    BY Zenon, <1>3, <1>4 DEF Queue, Contents
  <2> QED
    BY Zenon, <1>1, <1>2, <2>1, TakeIsTail
<1>6. readopen /\ Queue # <<>>
  <2>1. readopen
    BY Zenon, PipeAssumption DEF ReadByte, ReadFault, InRead, EndsInv, Procs
  <2> QED
    BY Zenon, <1>1, <1>2, <2>1
<1> QED
  BY <1>1, <1>2, <1>3, <1>4, <1>5, <1>6, PipeAssumption DEF C!Receive, RingInv

\* pipeclose() closes one end; no other step changes the channel.
LEMMA OtherSteps ==
  ASSUME IInv, RingInv, NEW p \in Procs,
         \/ Acquire(p) \/ WriteAbort(p) \/ WriteCheck(p) \/ WriteSleep(p)
         \/ WriteDone(p) \/ ReadAbort(p) \/ ReadCheck(p) \/ ReadSleep(p)
         \/ ReadStart(p) \/ ReadDone(p) \/ PipeClose(p) \/ FileClose(p)
         \/ Kill(p) \/ \E n \in 1..MaxCount[p] : Call(p, n)
  PROVE  [C!Next]_(C!vars) /\ RingInv'
<1>1. UNCHANGED ring
  BY Zenon DEF Acquire, WriteAbort, WriteCheck, WriteSleep, WriteDone, ReadAbort,
         ReadCheck, ReadSleep, ReadStart, ReadDone, PipeClose, FileClose,
         Kill, Call, Return, Done
<1>2. Queue' = Queue /\ RingInv'
  BY Zenon, <1>1 DEF ring, Queue, Used, RingInv
<1>3. CASE PipeClose(p)
  <2>1. CASE p \in Writers
    <3>1. C!CloseWrite
      BY Zenon, <1>2, <1>3, <2>1 DEF IInv, EndsInv, PipeClose, C!CloseWrite
    <3> QED
      BY Zenon, <1>2, <3>1 DEF C!Next
  <2>2. CASE p \in Readers
    <3>1. C!CloseRead
      BY Zenon, <1>2, <1>3, <2>2, PipeAssumption DEF IInv, EndsInv, PipeClose, C!CloseRead
    <3> QED
      BY Zenon, <1>2, <3>1 DEF C!Next
  <2> QED
    BY Zenon, <2>1, <2>2 DEF Procs
<1>4. CASE ~PipeClose(p)
  <2>1. UNCHANGED <<readopen, writeopen>>
    BY Zenon, <1>4 DEF Acquire, WriteAbort, WriteCheck, WriteSleep, WriteDone,
         ReadAbort, ReadCheck, ReadSleep, ReadStart, ReadDone, FileClose,
         Kill, Call, Return, Done, ends
  <2> QED
    BY Zenon, <1>2, <2>1 DEF C!vars
<1> QED
  BY Zenon, <1>3, <1>4

\* A pipe is a bounded first-in first-out queue: bytes are read in the order
\* they were written, each once, whatever the sizes of the ring and of its
\* counters, as long as the latter is a multiple of the former.
THEOREM PipeRefinesChannel == Spec => RefinesChannel
<1>1. Init => C!Init /\ RingInv
  <2> SUFFICES ASSUME Init PROVE C!Init /\ RingInv
    BY Zenon
  <2>1. TypeOK /\ Empty
    BY Zenon, PipeInit DEF IInv, Init, Empty
  <2>2. Used = 0 /\ Queue \in Seq(Bytes) /\ Len(Queue) = 0
    BY Zenon, <2>1, QueueContents, EmptyOrFull
  <2> QED
    BY <2>2, PipeAssumption DEF Init, C!Init, RingInv
<1>2. IInv /\ RingInv /\ [Next]_vars => [C!Next]_(C!vars) /\ RingInv'
  <2> SUFFICES ASSUME IInv, RingInv, [Next]_vars
               PROVE  [C!Next]_(C!vars) /\ RingInv'
    BY Zenon
  <2>1. ASSUME NEW p \in Procs, NEW ch \in Bytes, WriteByte(p, ch)
        PROVE  [C!Next]_(C!vars) /\ RingInv'
    BY Zenon, <2>1, WriteByteSends DEF C!Next
  <2>2. ASSUME NEW p \in Procs, ReadByte(p) \/ ReadFault(p)
        PROVE  [C!Next]_(C!vars) /\ RingInv'
    BY Zenon, <2>2, ReadByteReceives DEF C!Next
  <2>3. CASE UNCHANGED vars
    BY Zenon, <2>3 DEF vars, C!vars, Queue, Used, RingInv
  <2> QED
    BY Zenon, <2>1, <2>2, <2>3, OtherSteps DEF Next, PipeStep
<1> QED
  BY <1>1, <1>2, PipeInvariant, PTL DEF Spec, RefinesChannel, C!Spec
=============================================================================
