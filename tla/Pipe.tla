-------------------------------- MODULE Pipe --------------------------------
(***************************************************************************)
(* One pipe of kernel/pipe.c: pipewrite, piperead and pipeclose by several *)
(* processes that share its two ends, from pipealloc() to kfree().         *)
(*                                                                         *)
(* Grain of atomicity.  Each iteration of a loop is a step, under pi->lock:*)
(* kill() takes no pipe lock, so a process can become killed between two   *)
(* iterations, and between the test of killed(pr) and what follows it.     *)
(* sleep() is one step that releases pi->lock: it takes p->lock before it  *)
(* lets go of pi->lock, and wakeup() takes p->lock.  Counters are unsigned *)
(* and wrap at UINTMOD.                                                    *)
(***************************************************************************)
EXTENDS Naturals, Sequences, FiniteSets

CONSTANTS Writers,    \* processes that have the write end open
          Readers,    \* processes that have the read end open
          Holders,    \* who may have the pipe open to begin with, after
                      \* pipe(), fork() and close() have dealt it out
          Killable,   \* processes that kill() may name
          Bytes,      \* values of a byte
          PIPESIZE,   \* size of the ring buffer
          UINTMOD,    \* number of values of a uint (2^32)
          MaxCount,   \* bound: largest n of each process's read() or write()
          NoProc      \* nobody

ASSUME PipeAssumption ==
  /\ PIPESIZE \in Nat \ {0}
  /\ UINTMOD \in Nat /\ UINTMOD > PIPESIZE /\ UINTMOD % PIPESIZE = 0
  /\ MaxCount \in [Writers \cup Readers -> Nat \ {0}]
  /\ Writers \cap Readers = {}
  /\ Holders \subseteq SUBSET (Writers \cup Readers)
  /\ Killable \subseteq Writers \cup Readers
  /\ NoProc \notin Writers \cup Readers
  /\ Bytes # {}

Procs == Writers \cup Readers

VARIABLES data,       \* pi->data
          nread,      \* pi->nread
          nwrite,     \* pi->nwrite
          readopen,   \* pi->readopen
          writeopen,  \* pi->writeopen
          lock,       \* holder of pi->lock
          open,       \* processes that still have their end open
          killed,     \* killed processes
          pc,         \* where each process is
          count,      \* n - i, bytes still to transfer in this call
          freed       \* kfree(pi) has happened

vars == <<data, nread, nwrite, readopen, writeopen, lock, open, killed, pc,
          count, freed>>
ring == <<data, nread, nwrite>>
ends == <<readopen, writeopen, open, freed>>

\* "asleep_nread" and "asleep_nwrite" are the two sleep channels.
PCs == {"user", "acquire", "loop", "checked", "copy", "asleep_nread",
        "asleep_nwrite", "pipeclose", "closed"}

Init ==
  /\ data \in [0..(PIPESIZE - 1) -> {CHOOSE ch \in Bytes : TRUE}]
  /\ nread = 0 /\ nwrite = 0
  /\ readopen = TRUE /\ writeopen = TRUE
  /\ lock = NoProc
  /\ open \in Holders
  /\ killed = {}
  /\ pc = [p \in Procs |-> "user"]
  /\ count = [p \in Procs |-> 0]
  /\ freed = FALSE

Goto(p, l) == pc' = [pc EXCEPT ![p] = l]

\* wakeup(ch) and, in the same critical section, p moves to l.
GotoWakesNobody(ch, p, l) == pc' = [pc EXCEPT ![p] = l]
WakeAndGoto(ch, p, l) ==
  pc' = [q \in Procs |-> IF q = p THEN l
                         ELSE IF pc[q] = ch THEN "acquire" ELSE pc[q]]

\* The test of DOC: pipewrite-full, in uint arithmetic.
FullAtUintMax == nwrite = nread + PIPESIZE
Full          == nwrite = (nread + PIPESIZE) % UINTMOD
Empty         == nread = nwrite

\* A counter after ++.
CountUnbounded(n) == n + 1
NextCount(n)      == (n + 1) % UINTMOD

-----------------------------------------------------------------------------
\* read(fd, buf, n) or write(fd, buf, n) on this pipe.
Call(p, n) ==
  /\ pc[p] = "user"
  /\ p \in open
  /\ p \notin killed
  /\ count' = [count EXCEPT ![p] = n]
  /\ Goto(p, "acquire")
  /\ UNCHANGED <<ring, ends, lock, killed>>

\* acquire(&pi->lock), first in the call or last in sleep().
Acquire(p) ==
  /\ pc[p] = "acquire"
  /\ lock = NoProc
  /\ lock' = p
  /\ Goto(p, "loop")
  /\ UNCHANGED <<ring, ends, killed, count>>

\* Leave without wakeup: the -1 returns.
Return(p) ==
  /\ lock' = NoProc
  /\ count' = [count EXCEPT ![p] = 0]
  /\ Goto(p, "user")
  /\ UNCHANGED <<ring, ends, killed>>

\* wakeup(ch), release the lock and return the number of bytes moved.
Done(p, ch) ==
  /\ lock' = NoProc
  /\ count' = [count EXCEPT ![p] = 0]
  /\ WakeAndGoto(ch, p, "user")
  /\ UNCHANGED <<ring, ends, killed>>

-----------------------------------------------------------------------------
(* pipewrite()                                                             *)

InWrite(p, l) == p \in Writers /\ pc[p] = l

WriteAbort(p) ==
  /\ InWrite(p, "loop")
  /\ count[p] > 0
  /\ ~readopen \/ p \in killed
  /\ Return(p)

\* The loop's tests: more to write, a reader, not killed.
WriteCheck(p) ==
  /\ InWrite(p, "loop")
  /\ count[p] > 0
  /\ readopen /\ p \notin killed
  /\ Goto(p, "checked")
  /\ UNCHANGED <<ring, ends, lock, killed, count>>

WriteSleepSilent(p) ==
  /\ InWrite(p, "checked")
  /\ Full
  /\ Goto(p, "asleep_nwrite")
  /\ lock' = NoProc
  /\ UNCHANGED <<ring, ends, killed, count>>

\* wakeup(&pi->nread); sleep(&pi->nwrite, &pi->lock).
WriteSleep(p) ==
  /\ InWrite(p, "checked")
  /\ Full
  /\ WakeAndGoto("asleep_nread", p, "asleep_nwrite")
  /\ lock' = NoProc
  /\ UNCHANGED <<ring, ends, killed, count>>

WriteByte(p, ch) ==
  /\ InWrite(p, "checked")
  /\ ~Full
  /\ data' = [data EXCEPT ![nwrite % PIPESIZE] = ch]
  /\ nwrite' = NextCount(nwrite)
  /\ count' = [count EXCEPT ![p] = @ - 1]
  /\ Goto(p, "loop")
  /\ UNCHANGED <<nread, ends, lock, killed>>

\* The loop ends, or copyin() fails and breaks out of it.
WriteDone(p) ==
  /\ \/ InWrite(p, "loop") /\ count[p] = 0
     \/ InWrite(p, "checked") /\ ~Full
  /\ Done(p, "asleep_nread")

-----------------------------------------------------------------------------
(* piperead()                                                              *)

InRead(p, l) == p \in Readers /\ pc[p] = l

ReadAbort(p) ==
  /\ InRead(p, "loop")
  /\ Empty /\ writeopen
  /\ p \in killed
  /\ Return(p)

ReadCheck(p) ==
  /\ InRead(p, "loop")
  /\ Empty /\ writeopen
  /\ p \notin killed
  /\ Goto(p, "checked")
  /\ UNCHANGED <<ring, ends, lock, killed, count>>

ReadSleep(p) ==
  /\ InRead(p, "checked")
  /\ lock' = NoProc
  /\ Goto(p, "asleep_nread")
  /\ UNCHANGED <<ring, ends, killed, count>>

\* Out of the waiting loop, into the copying loop (DOC: piperead-copy).
ReadStart(p) ==
  /\ InRead(p, "loop")
  /\ ~(Empty /\ writeopen)
  /\ Goto(p, "copy")
  /\ UNCHANGED <<ring, ends, lock, killed, count>>

\* Take a byte and copy it out.
ReadByte(p) ==
  /\ InRead(p, "copy")
  /\ count[p] > 0
  /\ ~Empty
  /\ nread' = NextCount(nread)
  /\ count' = [count EXCEPT ![p] = @ - 1]
  /\ UNCHANGED <<data, nwrite, ends, lock, killed, pc>>

\* The same, but copyout() fails: the byte is gone and the loop ends.
ReadFault(p) ==
  /\ InRead(p, "copy")
  /\ count[p] > 0
  /\ ~Empty
  /\ nread' = NextCount(nread)
  /\ lock' = NoProc
  /\ count' = [count EXCEPT ![p] = 0]
  /\ WakeAndGoto("asleep_nwrite", p, "user")
  /\ UNCHANGED <<data, nwrite, ends, killed>>

ReadDoneSilent(p) ==
  /\ InRead(p, "copy")
  /\ count[p] = 0 \/ Empty
  /\ Return(p)

ReadDone(p) ==
  /\ InRead(p, "copy")
  /\ count[p] = 0 \/ Empty
  /\ Done(p, "asleep_nwrite")

-----------------------------------------------------------------------------
(* close() and exit(): fileclose(), then pipeclose() for the last holder.  *)

LastHolderEager(p) == TRUE
LastHolder(p) == open \cap (IF p \in Writers THEN Writers ELSE Readers) = {p}

FileClose(p) ==
  /\ pc[p] = "user"
  /\ p \in open
  /\ open' = open \ {p}
  /\ Goto(p, IF LastHolder(p) THEN "pipeclose" ELSE "closed")
  /\ UNCHANGED <<ring, readopen, writeopen, freed, lock, killed, count>>

PipeClose(p) ==
  /\ pc[p] = "pipeclose"
  /\ lock = NoProc
  /\ IF p \in Writers
     THEN /\ writeopen' = FALSE
          /\ WakeAndGoto("asleep_nread", p, "closed")
          /\ UNCHANGED readopen
     ELSE /\ readopen' = FALSE
          /\ WakeAndGoto("asleep_nwrite", p, "closed")
          /\ UNCHANGED writeopen
  /\ freed' = (~readopen' /\ ~writeopen')
  /\ UNCHANGED <<ring, open, lock, killed, count>>

\* kill(): mark the process, and make it runnable if it sleeps.
Kill(p) ==
  /\ p \in Killable \ killed
  /\ killed' = killed \cup {p}
  /\ pc' = [pc EXCEPT ![p] = IF @ \in {"asleep_nread", "asleep_nwrite"}
                             THEN "acquire" ELSE @]
  /\ UNCHANGED <<ring, ends, lock, count>>

-----------------------------------------------------------------------------
PipeStep(p) ==
  \/ Acquire(p)
  \/ WriteAbort(p) \/ WriteCheck(p) \/ WriteSleep(p) \/ WriteDone(p)
  \/ \E ch \in Bytes : WriteByte(p, ch)
  \/ ReadAbort(p) \/ ReadCheck(p) \/ ReadSleep(p) \/ ReadStart(p)
  \/ ReadByte(p) \/ ReadFault(p) \/ ReadDone(p)
  \/ PipeClose(p)

Next == \E p \in Procs :
  PipeStep(p) \/ FileClose(p) \/ Kill(p) \/ \E n \in 1..MaxCount[p] : Call(p, n)

Spec == Init /\ [][Next]_vars

\* Processes in the kernel run and get the spin-lock in the end; a killed
\* process exits (usertrap()), which closes its end.
Fairness == \A p \in Procs :
  /\ SF_vars(PipeStep(p))
  /\ WF_vars(p \in killed /\ FileClose(p))

FairSpec == Spec /\ Fairness

-----------------------------------------------------------------------------
(* Properties.                                                             *)

\* Every variable keeps its type.
TypeOK ==
  /\ data \in [0..(PIPESIZE - 1) -> Bytes]
  /\ nread \in 0..(UINTMOD - 1) /\ nwrite \in 0..(UINTMOD - 1)
  /\ readopen \in BOOLEAN /\ writeopen \in BOOLEAN /\ freed \in BOOLEAN
  /\ lock \in Procs \cup {NoProc}
  /\ open \subseteq Procs /\ killed \subseteq Procs
  /\ pc \in [Procs -> PCs]
  /\ count \in [Procs -> Nat] /\ \A p \in Procs : count[p] <= MaxCount[p]

Used == (nwrite + UINTMOD - nread) % UINTMOD
Queue == [i \in 1..Used |-> data[(nread + i - 1) % PIPESIZE]]

C == INSTANCE Channel WITH Capacity <- PIPESIZE, queue <- Queue

\* The ring buffer is a bounded queue: bytes leave in the order they came,
\* each once, none is overwritten, also when a counter wraps around.
RefinesChannel == C!Spec

\* A reader asleep on &pi->nread has nothing to read and a writer to wait
\* for (the condition DOC: pipe-empty), once the pipe lock is free.
ReaderSleepsOnlyIfEmpty ==
  lock = NoProc /\ (\E p \in Procs : pc[p] = "asleep_nread")
    => Empty /\ writeopen

\* The same as long as no writer was killed: pipewrite() then wakes readers
\* before it sleeps and before it returns, whatever it has put in the pipe.
UnkilledWritersWakeReaders ==
  killed \cap Writers = {} => ReaderSleepsOnlyIfEmpty

\* A writer asleep on &pi->nwrite has a full pipe in front of it and a
\* reader to wait for, once the pipe lock is free.
WriterSleepsOnlyIfFull ==
  lock = NoProc /\ (\E p \in Procs : pc[p] = "asleep_nwrite")
    => Full /\ readopen

\* pipeclose() frees the pipe only when no process is inside a call on it
\* or can start one.
NoUseAfterFree ==
  freed => open = {} /\ \A p \in Procs : pc[p] \in {"user", "closed"}

\* A reader blocked in piperead() returns once all writers have closed
\* their end, and a writer blocked in pipewrite() once all readers have,
\* killed or not and however long its call is.
CloseUnblocks ==
  \A p \in Procs : (IF p \in Readers THEN ~writeopen ELSE ~readopen)
                      ~> pc[p] \in {"user", "closed"}

\* Nobody sleeps in pipewrite() or piperead() in front of what it waits for
\* (readers: as long as no writer was killed); variables keep their types.
SleepersMustWait ==
  TypeOK /\ WriterSleepsOnlyIfFull /\ UnkilledWritersWakeReaders
=============================================================================
