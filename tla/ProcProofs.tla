----------------------------- MODULE ProcProofs -----------------------------
(***************************************************************************)
(* Proofs about the process table, for any number of slots and CPUs: the   *)
(* process tree has no orphans, no exit is missed by a parent in wait(),   *)
(* and kernel stacks and locks are handed over as sched() expects.         *)
(***************************************************************************)
EXTENDS Proc, TLAPS

\* The processes whose kernel stack some CPU runs on.
Stacks == {p \in Procs : OnCPU(p)}

\* States of a process that can still wait() for a child.
Alive == {"SLEEPING", "RUNNABLE", "RUNNING"}

\* Where a process may be inside sched(): yield(), sleep(), exit(), or not
\* started yet.
Parked == {"user", "fork_parent", "fork_run", "wait_lock", "relock",
           "exit_lock", "sleeping", "exited"}

\* Where a process holds wait_lock.
Locked == {"wait_scan", "sleep", "sleep_locked", "reparent", "reparent_wake",
           "exit_wake", "exit_zombie"}

\* Where a process is in exit().
Exiting == {"exit_lock", "reparent", "reparent_wake", "exit_wake",
            "exit_zombie", "exited"}

\* A process outside sched() is RUNNING on a CPU; one inside it is at one of
\* the calls of sched(), and its state says which.
StackInv ==
  /\ OneStackOneCPU
  /\ \A p \in Procs :
       /\ state[p] = "RUNNING" => p \in Stacks
       /\ ~insched[p] => /\ p \in Stacks /\ state[p] = "RUNNING"
                         /\ pc[p] \notin {"sleeping", "exited"}
       /\ insched[p] => pc[p] \in Parked
       /\ state[p] \in {"UNUSED", "USED"} => p \notin Stacks /\ pc[p] = "user"
       /\ state[p] = "ZOMBIE" <=> pc[p] = "exited"
       /\ state[p] = "SLEEPING" => pc[p] = "sleeping"
       /\ chan[p] = IF pc[p] = "sleeping" THEN p ELSE None

\* p->lock is p's own from before sched() until the CPU has switched, and
\* wait_lock is held exactly in the critical sections of wait() and exit().
LockInv ==
  \A p \in Procs :
    /\ plock[p] = IF p \in Stacks /\ (insched[p] \/ pc[p] = "sleep_locked")
                  THEN p ELSE None
    /\ wlock = p <=> pc[p] \in Locked

\* fork() owns the slot it fills until it makes it RUNNABLE.
ForkInv ==
  \A p \in Procs :
    /\ pc[p] \in {"fork_parent", "fork_run"} <=> child[p] # None
    /\ child[p] # None =>
         /\ state[child[p]] = "USED"
         /\ parent[child[p]] = IF pc[p] = "fork_run" THEN p ELSE None
         /\ \A q \in Procs : child[q] = child[p] => q = p

\* A parent is alive, also inside exit()'s critical section; init never exits.
TreeInv ==
  /\ \A q \in Procs : parent[q] # None => state[parent[q]] \in Alive
  /\ \A q \in Procs \ {initproc} :
       state[q] \notin {"UNUSED", "USED"} => parent[q] # None
  /\ state[initproc] \in Alive /\ pc[initproc] \notin Exiting

\* Where a walk of proc[] stands, from its first slot to past its last.
Started == 1..NPROC + 1

\* reparent() leaves no child behind, and wakeup() has woken the parent by the
\* time it is past it.
ExitInv ==
  \A p \in Procs :
    /\ pc[p] = "reparent" =>
         /\ idx[p] \in Started
         /\ \A q \in Procs : q < idx[p] => parent[q] # p
    /\ pc[p] = "reparent_wake" =>
         /\ idx[p] \in Procs /\ visit[p] \in Started
         /\ \A q \in Procs : q <= idx[p] => parent[q] # p
    /\ pc[p] \in {"exit_wake", "exit_zombie"} =>
         \A q \in Procs : parent[q] # p
    /\ pc[p] = "exit_wake" =>
         /\ visit[p] \in Started
         /\ parent[p] < visit[p] => state[parent[p]] # "SLEEPING"
    /\ pc[p] = "exit_zombie" => state[parent[p]] # "SLEEPING"

\* wait() has seen no zombie child in the slots it has scanned, and keeps
\* wait_lock until it sleeps; a parent that sleeps all the same is init, and
\* reparent() is about to wake it.
WaitInv ==
  /\ \A p \in Procs :
       /\ pc[p] = "wait_scan" =>
            /\ idx[p] \in Started
            /\ \A q \in Procs : q < idx[p] /\ parent[q] = p => state[q] # "ZOMBIE"
       /\ pc[p] \in {"sleep", "sleep_locked"} =>
            \A q \in Procs : parent[q] = p => state[q] # "ZOMBIE"
  /\ \A q \in Procs :
       /\ state[q] = "ZOMBIE" /\ parent[q] # None
       /\ state[parent[q]] = "SLEEPING"
       => /\ parent[q] = initproc
          /\ \E r \in Procs : pc[r] = "reparent_wake" /\ visit[r] = initproc

\* The inductive invariant.
IInv == TypeOK /\ StackInv /\ LockInv /\ ForkInv /\ TreeInv /\ ExitInv /\ WaitInv

-----------------------------------------------------------------------------
(* Facts the steps share.                                                  *)

\* Slots, as far as they are not numbers.
LEMMA Slots == None \notin Procs /\ initproc \in Procs
BY ProcAssumption DEF None, Procs, initproc

\* A process at a line of its code is RUNNING on a CPU.
LEMMA AtLine ==
  ASSUME IInv, NEW p \in Procs, NEW l, At(p, l)
  PROVE  /\ pc[p] = l /\ ~insched[p] /\ p \in Stacks /\ state[p] = "RUNNING"
         /\ p # None
BY Zenon, Slots DEF At, Running, IInv, StackInv

\* At most one process is in a critical section of wait_lock.
LEMMA WaitLockAlone ==
  ASSUME IInv, NEW p \in Procs
  PROVE  /\ wlock = None => pc[p] \notin Locked
         /\ pc[p] \in Locked => \A q \in Procs : q # p => pc[q] \notin Locked
BY Zenon, Slots DEF IInv, LockInv

\* A slot that fork() may take, or wait() frees, is nobody's child or parent.
LEMMA FreeSlot ==
  ASSUME IInv, NEW p \in Procs, state[p] \notin Alive
  PROVE  /\ p # initproc
         /\ \A q \in Procs : parent[q] # p
         /\ state[p] # "USED" => \A q \in Procs : child[q] # p
BY Slots DEF IInv, TreeInv, ForkInv

\* Init establishes the invariant.
LEMMA ProcInit == Init => IInv
<1> SUFFICES ASSUME Init PROVE IInv
  BY Zenon
<1> USE DEF Init
<1>1. Stacks = {}
  BY Zenon, Slots DEF Stacks, OnCPU
<1>2. TypeOK
  <2>1. 0 \in Indices
    BY ProcAssumption DEF Indices, Started
  <2> QED
    BY Zenon, <2>1 DEF TypeOK, PStates, PCs
<1>3. StackInv /\ LockInv
  BY Zenon, <1>1, Slots DEF StackInv, LockInv, OneStackOneCPU, Parked, Locked
<1>4. ForkInv /\ TreeInv
  BY Zenon, Slots DEF ForkInv, TreeInv, Alive, Exiting
<1>5. ExitInv /\ WaitInv
  BY Zenon DEF ExitInv, WaitInv
<1> QED
  BY Zenon, <1>2, <1>3, <1>4, <1>5 DEF IInv

-----------------------------------------------------------------------------
(* fork()                                                                  *)

\* allocproc() takes an UNUSED slot.
LEMMA ForkKeeps ==
  ASSUME IInv, NEW p \in Procs, NEW np \in Procs, Fork(p, np)
  PROVE  IInv'
<1>i. TypeOK /\ StackInv /\ LockInv /\ ForkInv /\ TreeInv /\ ExitInv /\ WaitInv
  BY Zenon DEF IInv
<1> USE <1>i
<1>1. /\ state[np] = "UNUSED" /\ plock[np] = None
      /\ state' = [state EXCEPT ![np] = "USED"]
      /\ pc' = [pc EXCEPT ![p] = "fork_parent", ![np] = "user"]
      /\ insched' = [insched EXCEPT ![np] = TRUE]
      /\ child' = [child EXCEPT ![p] = np]
      /\ UNCHANGED <<parent, chan, killed, plock, wlock, cpu, idx, visit,
                     havekids>>
  BY Zenon DEF Fork
<1>2. /\ pc[p] = "user" /\ ~insched[p] /\ p \in Stacks /\ state[p] = "RUNNING"
  BY Zenon, AtLine DEF Fork
<1>3. /\ np # p /\ np # initproc /\ np \notin Stacks /\ pc[np] = "user"
      /\ parent[np] = None /\ chan[np] = None
      /\ \A q \in Procs : parent[q] # np /\ child[q] # np
  BY Zenon, <1>1, <1>2, FreeSlot DEF StackInv, Alive, TypeOK
<1>4. Stacks' = Stacks
  BY Zenon, <1>1 DEF Stacks, OnCPU
<1>5. TypeOK'
  BY Zenon, <1>1 DEF TypeOK, PStates, PCs
<1>6. StackInv'
  BY <1>1, <1>2, <1>3, <1>4 DEF StackInv, OneStackOneCPU, TypeOK, Parked
<1>7. LockInv'
  BY <1>1, <1>2, <1>3, <1>4 DEF LockInv, TypeOK, Locked
<1>8. ForkInv'
  BY <1>1, <1>2, <1>3, Slots DEF ForkInv, TypeOK
<1>9. TreeInv'
  BY ZenonT(60), <1>1, <1>2, <1>3, Slots DEF TreeInv, TypeOK, Alive, Exiting
<1>10. ExitInv'
  BY <1>1, <1>2, <1>3 DEF ExitInv, TypeOK
<1>11. WaitInv'
  BY <1>1, <1>2, <1>3 DEF WaitInv, TypeOK
<1> QED
  BY Zenon, <1>5, <1>6, <1>7, <1>8, <1>9, <1>10, <1>11 DEF IInv

\* allocproc() or uvmcopy() fails.
LEMMA ForkFailsKeeps ==
  ASSUME IInv, NEW p \in Procs, NEW np \in Procs, ForkFails(p, np)
  PROVE  IInv'
<1>i. TypeOK /\ StackInv /\ LockInv /\ ForkInv /\ TreeInv /\ ExitInv /\ WaitInv
  BY Zenon DEF IInv
<1> USE <1>i
<1>1. /\ killed' = [killed EXCEPT ![np] = FALSE]
      /\ UNCHANGED <<state, parent, chan, plock, wlock, cpu, insched, pc, idx,
                     visit, havekids, child>>
  BY Zenon DEF ForkFails
<1>2. Stacks' = Stacks
  BY Zenon, <1>1 DEF Stacks, OnCPU
<1>3. TypeOK'
  BY Zenon, <1>1 DEF TypeOK
<1> QED
  BY <1>1, <1>2, <1>3 DEF IInv, StackInv, OneStackOneCPU, LockInv, ForkInv, TreeInv,
     ExitInv, WaitInv

\* fork() sets the child's parent, under wait_lock.
LEMMA ForkParentKeeps ==
  ASSUME IInv, NEW p \in Procs, ForkParent(p)
  PROVE  IInv'
<1>i. TypeOK /\ StackInv /\ LockInv /\ ForkInv /\ TreeInv /\ ExitInv /\ WaitInv
  BY Zenon DEF IInv
<1> USE <1>i
<1>1. /\ wlock = None
      /\ parent' = [parent EXCEPT ![child[p]] = p]
      /\ pc' = [pc EXCEPT ![p] = "fork_run"]
      /\ UNCHANGED <<state, chan, killed, plock, wlock, cpu, insched, idx,
                     visit, havekids, child>>
  BY Zenon DEF ForkParent, Goto
<1>2. /\ pc[p] = "fork_parent" /\ ~insched[p] /\ p \in Stacks
      /\ state[p] = "RUNNING" /\ p # None
  BY Zenon, AtLine DEF ForkParent
<1>3. /\ child[p] \in Procs /\ state[child[p]] = "USED"
      /\ \A q \in Procs : q # p => child[q] # child[p]
      /\ pc[child[p]] = "user"
  BY <1>2 DEF ForkInv, TypeOK, StackInv
<1>4. Stacks' = Stacks
  BY Zenon, <1>1 DEF Stacks, OnCPU
<1>5. \A q \in Procs : pc[q] \notin Locked
  BY Zenon, <1>1, WaitLockAlone
<1>6. TypeOK'
  <2>1. parent' \in [Procs -> Procs \cup {None}]
    BY Zenon, <1>1 DEF TypeOK
  <2>2. \A q \in Procs : state'[q] = "UNUSED" => parent'[q] = None /\ chan'[q] = None
    BY Zenon, <1>1, <1>3 DEF TypeOK
  <2> QED
    BY Zenon, <1>1, <2>1, <2>2 DEF TypeOK, PCs
<1>7. StackInv'
  BY <1>1, <1>2, <1>4 DEF StackInv, OneStackOneCPU, TypeOK, Parked
<1>8. LockInv'
  BY Zenon, <1>1, <1>2, <1>4 DEF LockInv, TypeOK, Locked
<1>9. ForkInv'
  BY <1>1, <1>2, <1>3, Slots DEF ForkInv, TypeOK
<1>10. TreeInv'
  BY Zenon, <1>1, <1>2, <1>3, Slots DEF TreeInv, TypeOK, Alive, Exiting
<1>11. ExitInv'
  BY Zenon, <1>1, <1>2, <1>5 DEF ExitInv, TypeOK, Locked
<1>12. WaitInv'
  BY Zenon, <1>1, <1>2, <1>3, <1>5 DEF WaitInv, TypeOK, Locked
<1> QED
  BY Zenon, <1>6, <1>7, <1>8, <1>9, <1>10, <1>11, <1>12 DEF IInv

\* fork() makes the child RUNNABLE.
LEMMA ForkRunKeeps ==
  ASSUME IInv, NEW p \in Procs, ForkRun(p)
  PROVE  IInv'
<1>i. TypeOK /\ StackInv /\ LockInv /\ ForkInv /\ TreeInv /\ ExitInv /\ WaitInv
  BY Zenon DEF IInv
<1> USE <1>i
<1>1. /\ state' = [state EXCEPT ![child[p]] = "RUNNABLE"]
      /\ child' = [child EXCEPT ![p] = None]
      /\ pc' = [pc EXCEPT ![p] = "user"]
      /\ UNCHANGED <<parent, chan, killed, plock, wlock, cpu, insched, idx,
                     visit, havekids>>
  BY Zenon DEF ForkRun, Goto
<1>2. /\ pc[p] = "fork_run" /\ ~insched[p] /\ p \in Stacks
      /\ state[p] = "RUNNING" /\ p # None
  BY Zenon, AtLine DEF ForkRun
<1>3. /\ child[p] \in Procs /\ state[child[p]] = "USED"
      /\ parent[child[p]] = p
      /\ \A q \in Procs : q # p => child[q] # child[p]
      /\ pc[child[p]] = "user" /\ insched[child[p]]
  BY <1>2 DEF ForkInv, TypeOK, StackInv
<1>4. Stacks' = Stacks
  BY Zenon, <1>1 DEF Stacks, OnCPU
<1>5. TypeOK'
  BY Zenon, <1>1, <1>3 DEF TypeOK, PStates, PCs
<1>6. StackInv'
  BY <1>1, <1>2, <1>3, <1>4 DEF StackInv, OneStackOneCPU, TypeOK, Parked
<1>7. LockInv'
  BY Zenon, <1>1, <1>2, <1>4 DEF LockInv, TypeOK, Locked
<1>8. ForkInv'
  BY <1>1, <1>2, <1>3, Slots DEF ForkInv, TypeOK
<1>9. TreeInv'
  BY <1>1, <1>2, <1>3, Slots DEF TreeInv, TypeOK, Alive, Exiting
<1>10. ExitInv'
  BY <1>1, <1>2, <1>3 DEF ExitInv, TypeOK
<1>11. WaitInv'
  BY <1>1, <1>2, <1>3 DEF WaitInv, TypeOK
<1> QED
  BY Zenon, <1>5, <1>6, <1>7, <1>8, <1>9, <1>10, <1>11 DEF IInv

-----------------------------------------------------------------------------
(* exit()                                                                  *)

\* A step that only moves a process between lines with no lock and no child.
LEMMA MoveKeeps ==
  ASSUME IInv, NEW p \in Procs, ~insched[p], p \in Stacks, state[p] = "RUNNING",
         pc[p] = "user",
         NEW l \in {"panicked", "exit_lock", "wait_lock"},
         p = initproc => l # "exit_lock",
         pc' = [pc EXCEPT ![p] = l],
         UNCHANGED <<state, parent, chan, killed, plock, wlock, cpu, insched,
                     idx, visit, havekids, child>>
  PROVE  IInv'
<1>i. TypeOK /\ StackInv /\ LockInv /\ ForkInv /\ TreeInv /\ ExitInv /\ WaitInv
  BY Zenon DEF IInv
<1> USE <1>i
<1>1. Stacks' = Stacks
  BY Zenon DEF Stacks, OnCPU
<1>2. TypeOK'
  BY Zenon DEF TypeOK, PCs
<1>3. StackInv' /\ LockInv'
  BY <1>1 DEF StackInv, OneStackOneCPU, LockInv, TypeOK, Parked, Locked
<1>4. ForkInv' /\ TreeInv'
  BY DEF ForkInv, TreeInv, TypeOK, Exiting
<1>5. ExitInv' /\ WaitInv'
  BY DEF ExitInv, WaitInv, TypeOK
<1> QED
  BY Zenon, <1>2, <1>3, <1>4, <1>5 DEF IInv

\* exit() begins; init panics there.
LEMMA ExitKeeps ==
  ASSUME IInv, NEW p \in Procs, Exit(p)
  PROVE  IInv'
<1> DEFINE l == IF p = initproc THEN "panicked" ELSE "exit_lock"
<1>1. /\ pc' = [pc EXCEPT ![p] = l]
      /\ UNCHANGED <<state, parent, chan, killed, plock, wlock, cpu, insched,
                     idx, visit, havekids, child>>
  BY Zenon DEF Exit, Goto
<1>2. l \in {"panicked", "exit_lock", "wait_lock"} /\ (p = initproc => l # "exit_lock")
  BY Zenon
<1>3. pc[p] = "user" /\ ~insched[p] /\ p \in Stacks /\ state[p] = "RUNNING"
  BY Zenon, AtLine DEF Exit
<1> HIDE DEF l
<1> QED
  BY Zenon, <1>1, <1>2, <1>3, MoveKeeps

\* wait() begins.
LEMMA WaitKeeps ==
  ASSUME IInv, NEW p \in Procs, Wait(p)
  PROVE  IInv'
<1>1. /\ pc' = [pc EXCEPT ![p] = "wait_lock"]
      /\ UNCHANGED <<state, parent, chan, killed, plock, wlock, cpu, insched,
                     idx, visit, havekids, child>>
  BY Zenon DEF Wait, Goto
<1>2. pc[p] = "user" /\ ~insched[p] /\ p \in Stacks /\ state[p] = "RUNNING"
  BY Zenon, AtLine DEF Wait
<1> QED
  BY Zenon, <1>1, <1>2, MoveKeeps

\* exit() takes wait_lock.
LEMMA ExitLockKeeps ==
  ASSUME IInv, NEW p \in Procs, ExitLock(p)
  PROVE  IInv'
<1>i. TypeOK /\ StackInv /\ LockInv /\ ForkInv /\ TreeInv /\ ExitInv /\ WaitInv
  BY Zenon DEF IInv
<1> USE <1>i
<1>1. /\ wlock = None /\ wlock' = p
      /\ idx' = [idx EXCEPT ![p] = 1]
      /\ pc' = [pc EXCEPT ![p] = "reparent"]
      /\ UNCHANGED <<state, parent, chan, killed, plock, cpu, insched, visit,
                     havekids, child>>
  BY Zenon DEF ExitLock, Goto
<1>2. /\ pc[p] = "exit_lock" /\ ~insched[p] /\ p \in Stacks
      /\ state[p] = "RUNNING" /\ p # None
  BY Zenon, AtLine DEF ExitLock
<1>3. Stacks' = Stacks
  BY Zenon, <1>1 DEF Stacks, OnCPU
<1>4. \A q \in Procs : pc[q] \notin Locked
  BY Zenon, <1>1, WaitLockAlone
<1>5. TypeOK'
  <2>1. 1 \in Indices
    BY ProcAssumption DEF Indices, Started
  <2> QED
    BY Zenon, <1>1, <2>1 DEF TypeOK, PCs
<1>6. StackInv'
  BY <1>1, <1>2, <1>3 DEF StackInv, OneStackOneCPU, TypeOK, Parked
<1>7. LockInv'
  BY Zenon, <1>1, <1>2, <1>3, <1>4 DEF LockInv, TypeOK, Locked
<1>8. ForkInv' /\ TreeInv'
  BY <1>1, <1>2 DEF ForkInv, TreeInv, TypeOK, Exiting
<1>9. ExitInv'
  <2>1. 1 \in Started /\ \A q \in Procs : ~(q < 1)
    BY ProcAssumption DEF Procs, Indices, Started
  <2> QED
    BY <1>1, <1>2, <2>1 DEF ExitInv, TypeOK
<1>10. WaitInv'
  BY Zenon, <1>1, <1>2 DEF WaitInv, TypeOK
<1> QED
  BY Zenon, <1>5, <1>6, <1>7, <1>8, <1>9, <1>10 DEF IInv

\* An iteration of reparent().
LEMMA ReparentKeeps ==
  ASSUME IInv, NEW p \in Procs, Reparent(p)
  PROVE  IInv'
<1>i. TypeOK /\ StackInv /\ LockInv /\ ForkInv /\ TreeInv /\ ExitInv /\ WaitInv
  BY Zenon DEF IInv
<1> USE <1>i
<1>1. UNCHANGED <<state, chan, killed, plock, wlock, cpu, insched, havekids, child>>
  BY Zenon DEF Reparent
<1>2. /\ pc[p] = "reparent" /\ ~insched[p] /\ p \in Stacks
      /\ state[p] = "RUNNING" /\ p # None
  BY Zenon, AtLine DEF Reparent
<1>3. Stacks' = Stacks
  BY Zenon, <1>1 DEF Stacks, OnCPU
<1>4. \A q \in Procs : q # p => pc[q] \notin Locked
  BY Zenon, <1>2, WaitLockAlone DEF Locked
<1>5. /\ p # initproc /\ parent[p] \in Procs
      /\ idx[p] \in Started
      /\ \A q \in Procs : q < idx[p] => parent[q] # p
  BY <1>2 DEF TreeInv, ExitInv, Exiting, TypeOK
<1>6. CASE idx[p] > NPROC
  <2>1. /\ pc' = [pc EXCEPT ![p] = "exit_wake"]
        /\ visit' = [visit EXCEPT ![p] = 1]
        /\ UNCHANGED <<parent, idx>>
    BY Zenon, <1>6 DEF Reparent, Goto, LastSlot
  <2>2. /\ \A q \in Procs : parent[q] # p
        /\ 1 \in Started /\ 1 \in Indices /\ ~(parent[p] < 1)
    BY <1>5, <1>6, ProcAssumption DEF Procs, Indices, Started
  <2>3. TypeOK'
    BY Zenon, <1>1, <2>1, <2>2 DEF TypeOK, PCs
  <2>4. StackInv' /\ LockInv'
    BY <1>1, <1>2, <1>3, <2>1 DEF StackInv, OneStackOneCPU, LockInv, TypeOK,
       Parked, Locked
  <2>5. ForkInv' /\ TreeInv'
    BY <1>1, <1>2, <2>1 DEF ForkInv, TreeInv, TypeOK, Exiting
  <2>6. ExitInv'
    BY <1>1, <1>2, <2>1, <2>2 DEF ExitInv, TypeOK
  <2>7. WaitInv'
    BY ZenonT(60), <1>1, <1>2, <2>1 DEF WaitInv, TypeOK
  <2> QED
    BY Zenon, <2>3, <2>4, <2>5, <2>6, <2>7 DEF IInv
<1>7. CASE ~(idx[p] > NPROC) /\ parent[idx[p]] = p
  <2>1. /\ pc' = [pc EXCEPT ![p] = "reparent_wake"]
        /\ parent' = [parent EXCEPT ![idx[p]] = initproc]
        /\ visit' = [visit EXCEPT ![p] = 1]
        /\ UNCHANGED idx
    BY Zenon, <1>7 DEF Reparent, Goto, LastSlot
  <2>2. /\ idx[p] \in Procs
        /\ 1 \in Started /\ 1 \in Indices
        /\ \A q \in Procs : q <= idx[p] => q < idx[p] \/ q = idx[p]
    BY <1>5, <1>7, ProcAssumption DEF Procs, Indices, Started
  <2>3. \A q \in Procs : child[q] # None => child[q] # idx[p]
    BY <1>2, <1>7, Slots DEF ForkInv
  <2>4. TypeOK'
    <3>1. parent' \in [Procs -> Procs \cup {None}]
      BY Zenon, <2>1, Slots DEF TypeOK
    <3>2. \A q \in Procs : state'[q] = "UNUSED" => parent'[q] = None /\ chan'[q] = None
      BY Zenon, <1>1, <1>2, <1>7, <2>1, <2>2 DEF TypeOK
    <3> QED
      BY Zenon, <1>1, <2>1, <2>2, <3>1, <3>2 DEF TypeOK, PCs
  <2>5. StackInv' /\ LockInv'
    BY <1>1, <1>2, <1>3, <2>1 DEF StackInv, OneStackOneCPU, LockInv, TypeOK,
       Parked, Locked
  <2>6. ForkInv'
    BY <1>1, <1>2, <2>1, <2>3 DEF ForkInv, TypeOK
  <2>7. TreeInv'
    BY Zenon, <1>1, <1>2, <2>1, <2>2, Slots DEF TreeInv, TypeOK, Exiting
  <2>8. ExitInv'
    BY <1>1, <1>2, <1>4, <1>5, <2>1, <2>2 DEF ExitInv, TypeOK, Locked
  <2>9. WaitInv'
    BY <1>1, <1>2, <1>4, <2>1, <2>2 DEF WaitInv, TypeOK, Locked, initproc
  <2> QED
    BY Zenon, <2>4, <2>5, <2>6, <2>7, <2>8, <2>9 DEF IInv
<1>8. CASE ~(idx[p] > NPROC) /\ parent[idx[p]] # p
  <2>1. idx' = [idx EXCEPT ![p] = @ + 1] /\ UNCHANGED <<parent, pc, visit>>
    BY Zenon, <1>8 DEF Reparent, LastSlot
  <2>2. /\ idx[p] + 1 \in Started /\ idx[p] + 1 \in Indices
        /\ \A q \in Procs : q < idx[p] + 1 => q < idx[p] \/ q = idx[p]
    BY <1>5, <1>8, ProcAssumption DEF Procs, Indices, Started
  <2>3. TypeOK'
    BY Zenon, <1>1, <2>1, <2>2 DEF TypeOK
  <2>4. StackInv' /\ LockInv' /\ ForkInv' /\ TreeInv'
    BY <1>1, <1>3, <2>1 DEF StackInv, OneStackOneCPU, LockInv, ForkInv, TreeInv
  <2>5. ExitInv'
    BY <1>1, <1>2, <1>5, <1>8, <2>1, <2>2 DEF ExitInv, TypeOK
  <2>6. WaitInv'
    BY Zenon, <1>1, <1>2, <2>1 DEF WaitInv, TypeOK
  <2> QED
    BY Zenon, <2>3, <2>4, <2>5, <2>6 DEF IInv
<1> QED
  BY Zenon, <1>6, <1>7, <1>8 DEF IInv

\* What wakeup() or kill() does to the state of one slot.
Woken(q) ==
  \/ state' = state
  \/ /\ state[q] = "SLEEPING" /\ plock[q] = None
     /\ state' = [state EXCEPT ![q] = "RUNNABLE"]

\* A process is woken only once its CPU has switched away from it.
LEMMA WokenKeeps ==
  ASSUME IInv, NEW q \in Procs, Woken(q),
         UNCHANGED <<parent, chan, plock, wlock, cpu, insched, pc, child>>
  PROVE  /\ StackInv' /\ LockInv' /\ ForkInv' /\ TreeInv'
         /\ state' \in [Procs -> PStates]
         /\ \A p \in Procs : /\ state'[p] = "UNUSED" <=> state[p] = "UNUSED"
                             /\ state'[p] = "ZOMBIE" <=> state[p] = "ZOMBIE"
                             /\ state'[p] = "SLEEPING" => state[p] = "SLEEPING"
<1>i. TypeOK /\ StackInv /\ LockInv /\ ForkInv /\ TreeInv /\ ExitInv /\ WaitInv
  BY Zenon DEF IInv
<1> USE <1>i
<1>1. Stacks' = Stacks
  BY Zenon DEF Stacks, OnCPU
<1>2. CASE state' = state
  BY <1>1, <1>2 DEF StackInv, OneStackOneCPU, LockInv, ForkInv, TreeInv, TypeOK
<1>3. CASE /\ state[q] = "SLEEPING" /\ plock[q] = None
           /\ state' = [state EXCEPT ![q] = "RUNNABLE"]
  <2>1. StackInv'
    BY <1>1, <1>3 DEF StackInv, OneStackOneCPU, TypeOK
  <2>2. LockInv' /\ ForkInv'
    BY <1>1, <1>3 DEF LockInv, ForkInv, TypeOK
  <2>3. TreeInv'
    BY Zenon, <1>3, Slots DEF TreeInv, TypeOK, Alive
  <2> QED
    BY Zenon, <1>3, <2>1, <2>2, <2>3 DEF TypeOK, PStates
<1> QED
  BY Zenon, <1>2, <1>3 DEF IInv, Woken

\* The wakeup(initproc) in reparent().
LEMMA ReparentWakeKeeps ==
  ASSUME IInv, NEW p \in Procs, ReparentWake(p)
  PROVE  IInv'
<1>i. TypeOK /\ StackInv /\ LockInv /\ ForkInv /\ TreeInv /\ ExitInv /\ WaitInv
  BY Zenon DEF IInv
<1> USE <1>i
<1>1. UNCHANGED <<parent, chan, killed, plock, wlock, cpu, insched, havekids, child>>
  BY Zenon DEF ReparentWake
<1>2. /\ pc[p] = "reparent_wake" /\ ~insched[p] /\ p \in Stacks
      /\ state[p] = "RUNNING" /\ p # None
  BY Zenon, AtLine DEF ReparentWake
<1>3. Stacks' = Stacks
  BY Zenon, <1>1 DEF Stacks, OnCPU
<1>4. \A q \in Procs : q # p => pc[q] \notin Locked
  BY Zenon, <1>2, WaitLockAlone DEF Locked
<1>5. /\ p # initproc /\ idx[p] \in Procs /\ visit[p] \in Started
      /\ \A q \in Procs : q <= idx[p] => parent[q] # p
  BY Zenon, <1>2 DEF TreeInv, ExitInv, Exiting
<1>6. CASE visit[p] <= NPROC
  <2> DEFINE v == visit[p]
  <2>1. /\ Wakeup(p, v, initproc) /\ UNCHANGED <<pc, idx>>
    BY Zenon, <1>6 DEF ReparentWake
  <2>2. v \in Procs /\ v + 1 \in Started /\ v + 1 \in Indices
    BY <1>5, <1>6, ProcAssumption DEF Procs, Indices, Started
  <2>3. visit' = [visit EXCEPT ![p] = v + 1]
    BY Zenon, <2>1 DEF Wakeup
  <2>4. Woken(v)
    BY Zenon, <2>1 DEF Wakeup, Woken
  <2>5. v = initproc => state'[initproc] # "SLEEPING"
    BY Zenon, <1>5, <2>1, Slots DEF Wakeup, TypeOK, StackInv
  <2> HIDE DEF v
  <2>6. /\ StackInv' /\ LockInv' /\ ForkInv' /\ TreeInv'
        /\ state' \in [Procs -> PStates]
        /\ \A q \in Procs : /\ state'[q] = "UNUSED" <=> state[q] = "UNUSED"
                            /\ state'[q] = "ZOMBIE" <=> state[q] = "ZOMBIE"
                            /\ state'[q] = "SLEEPING" => state[q] = "SLEEPING"
    BY Zenon, <1>1, <2>1, <2>2, <2>4, WokenKeeps
  <2>7. TypeOK'
    BY Zenon, <1>1, <2>1, <2>2, <2>3, <2>6 DEF TypeOK
  <2>8. ExitInv'
    BY <1>1, <1>2, <1>4, <1>5, <2>1, <2>2, <2>3 DEF ExitInv, TypeOK, Locked
  <2>9. WaitInv'
    <3>1. ASSUME NEW q \in Procs, state'[q] = "ZOMBIE", parent[q] # None,
                 state'[parent[q]] = "SLEEPING"
          PROVE  FALSE
      <4>1. state[q] = "ZOMBIE" /\ state[parent[q]] = "SLEEPING"
        BY <2>6, <3>1 DEF TypeOK
      <4>2. parent[q] = initproc /\ v = initproc
        BY Zenon, <1>4, <3>1, <4>1 DEF WaitInv, Locked, v
      <4> QED
        BY Zenon, <2>5, <3>1, <4>2
    <3> QED
      BY Zenon, <1>1, <1>2, <1>4, <2>1, <3>1 DEF WaitInv, TypeOK, Locked
  <2> QED
    BY Zenon, <2>6, <2>7, <2>8, <2>9 DEF IInv
<1>7. CASE ~(visit[p] <= NPROC)
  <2>1. /\ idx' = [idx EXCEPT ![p] = @ + 1]
        /\ pc' = [pc EXCEPT ![p] = "reparent"]
        /\ UNCHANGED <<state, visit>>
    BY Zenon, <1>7 DEF ReparentWake, Goto
  <2>2. /\ idx[p] + 1 \in Started /\ idx[p] + 1 \in Indices
        /\ \A q \in Procs : q < idx[p] + 1 => q <= idx[p]
        /\ visit[p] # initproc
    BY <1>5, <1>7, ProcAssumption DEF Procs, initproc, Indices, Started
  <2>3. TypeOK'
    BY Zenon, <1>1, <2>1, <2>2 DEF TypeOK, PCs
  <2>4. StackInv' /\ LockInv'
    BY <1>1, <1>2, <1>3, <2>1 DEF StackInv, OneStackOneCPU, LockInv, TypeOK,
       Parked, Locked
  <2>5. ForkInv' /\ TreeInv'
    BY <1>1, <1>2, <2>1 DEF ForkInv, TreeInv, TypeOK, Exiting
  <2>6. ExitInv'
    BY <1>1, <1>2, <1>5, <2>1, <2>2 DEF ExitInv, TypeOK
  <2>7. WaitInv'
    BY Zenon, <1>1, <1>2, <1>4, <2>1, <2>2 DEF WaitInv, TypeOK, Locked
  <2> QED
    BY Zenon, <2>3, <2>4, <2>5, <2>6, <2>7 DEF IInv
<1> QED
  BY Zenon, <1>6, <1>7 DEF IInv

\* The wakeup(p->parent) in exit().
LEMMA ExitWakeKeeps ==
  ASSUME IInv, NEW p \in Procs, ExitWake(p)
  PROVE  IInv'
<1>i. TypeOK /\ StackInv /\ LockInv /\ ForkInv /\ TreeInv /\ ExitInv /\ WaitInv
  BY Zenon DEF IInv
<1> USE <1>i
<1>1. UNCHANGED <<parent, chan, killed, plock, wlock, cpu, insched, idx,
                  havekids, child>>
  BY Zenon DEF ExitWake
<1>2. /\ pc[p] = "exit_wake" /\ ~insched[p] /\ p \in Stacks
      /\ state[p] = "RUNNING" /\ p # None
  BY Zenon, AtLine DEF ExitWake
<1>3. Stacks' = Stacks
  BY Zenon, <1>1 DEF Stacks, OnCPU
<1>4. \A q \in Procs : q # p => pc[q] \notin Locked
  BY Zenon, <1>2, WaitLockAlone DEF Locked
<1>5. /\ p # initproc /\ parent[p] \in Procs /\ visit[p] \in Started
      /\ \A q \in Procs : parent[q] # p
      /\ parent[p] < visit[p] => state[parent[p]] # "SLEEPING"
  BY <1>2 DEF TreeInv, ExitInv, Exiting, TypeOK
<1>6. CASE visit[p] <= NPROC
  <2> DEFINE v == visit[p]
  <2>1. /\ Wakeup(p, v, parent[p]) /\ UNCHANGED pc
    BY Zenon, <1>6 DEF ExitWake
  <2>2. /\ v \in Procs /\ v + 1 \in Started /\ v + 1 \in Indices
        /\ parent[p] < v + 1 => parent[p] < v \/ parent[p] = v
    BY <1>5, <1>6, ProcAssumption DEF Procs, Indices, Started
  <2>3. visit' = [visit EXCEPT ![p] = v + 1]
    BY Zenon, <2>1 DEF Wakeup
  <2>4. Woken(v)
    BY Zenon, <2>1 DEF Wakeup, Woken
  <2>5. v = parent[p] => state'[v] # "SLEEPING"
    BY Zenon, <1>5, <2>1, <2>2 DEF Wakeup, TypeOK, StackInv
  <2> HIDE DEF v
  <2>6. /\ StackInv' /\ LockInv' /\ ForkInv' /\ TreeInv'
        /\ state' \in [Procs -> PStates]
        /\ \A q \in Procs : /\ state'[q] = "UNUSED" <=> state[q] = "UNUSED"
                            /\ state'[q] = "ZOMBIE" <=> state[q] = "ZOMBIE"
                            /\ state'[q] = "SLEEPING" => state[q] = "SLEEPING"
    BY Zenon, <1>1, <2>1, <2>2, <2>4, WokenKeeps
  <2>7. TypeOK'
    BY Zenon, <1>1, <2>1, <2>2, <2>3, <2>6 DEF TypeOK
  <2>8. ExitInv'
    <3>1. parent[p] < v + 1 => state'[parent[p]] # "SLEEPING"
      BY Zenon, <1>5, <2>2, <2>5, <2>6 DEF v
    <3> QED
      BY Zenon, <1>1, <1>2, <1>4, <1>5, <2>1, <2>2, <2>3, <3>1 DEF ExitInv, TypeOK, Locked
  <2>9. WaitInv'
    BY Zenon, <1>1, <1>2, <1>4, <2>1, <2>6 DEF WaitInv, TypeOK, Locked
  <2> QED
    BY Zenon, <2>6, <2>7, <2>8, <2>9 DEF IInv
<1>7. CASE ~(visit[p] <= NPROC)
  <2>1. pc' = [pc EXCEPT ![p] = "exit_zombie"] /\ UNCHANGED <<state, visit>>
    BY Zenon, <1>7 DEF ExitWake, Goto
  <2>2. parent[p] < visit[p]
    BY <1>5, <1>7, ProcAssumption DEF Procs, Indices, Started
  <2>3. TypeOK'
    BY Zenon, <1>1, <2>1 DEF TypeOK, PCs
  <2>4. StackInv' /\ LockInv'
    BY <1>1, <1>2, <1>3, <2>1 DEF StackInv, OneStackOneCPU, LockInv, TypeOK,
       Parked, Locked
  <2>5. ForkInv' /\ TreeInv'
    BY <1>1, <1>2, <2>1 DEF ForkInv, TreeInv, TypeOK, Exiting
  <2>6. ExitInv'
    BY <1>1, <1>2, <1>5, <2>1, <2>2 DEF ExitInv, TypeOK
  <2>7. WaitInv'
    BY Zenon, <1>1, <1>2, <2>1 DEF WaitInv, TypeOK
  <2> QED
    BY Zenon, <2>3, <2>4, <2>5, <2>6, <2>7 DEF IInv
<1> QED
  BY Zenon, <1>6, <1>7 DEF IInv

\* exit() becomes a zombie and releases wait_lock.
LEMMA ExitZombieKeeps ==
  ASSUME IInv, NEW p \in Procs, ExitZombie(p)
  PROVE  IInv'
<1>i. TypeOK /\ StackInv /\ LockInv /\ ForkInv /\ TreeInv /\ ExitInv /\ WaitInv
  BY Zenon DEF IInv
<1> USE <1>i
<1>1. /\ plock' = [plock EXCEPT ![p] = p]
      /\ state' = [state EXCEPT ![p] = "ZOMBIE"]
      /\ wlock' = None
      /\ insched' = [insched EXCEPT ![p] = TRUE]
      /\ idx' = [idx EXCEPT ![p] = 0]
      /\ visit' = [visit EXCEPT ![p] = 0]
      /\ pc' = [pc EXCEPT ![p] = "exited"]
      /\ UNCHANGED <<parent, chan, killed, cpu, havekids, child>>
  BY Zenon DEF ExitZombie, Goto
<1>2. /\ pc[p] = "exit_zombie" /\ ~insched[p] /\ p \in Stacks
      /\ state[p] = "RUNNING" /\ p # None
  BY Zenon, AtLine DEF ExitZombie
<1>3. Stacks' = Stacks
  BY Zenon, <1>1 DEF Stacks, OnCPU
<1>4. \A q \in Procs : q # p => pc[q] \notin Locked
  BY Zenon, <1>2, WaitLockAlone DEF Locked
<1>5. /\ p # initproc /\ parent[p] \in Procs /\ state[parent[p]] # "SLEEPING"
      /\ \A q \in Procs : parent[q] # p
  BY <1>2 DEF TreeInv, ExitInv, Exiting, TypeOK
<1>6. TypeOK'
  <2>1. 0 \in Indices
    BY ProcAssumption DEF Indices, Started
  <2> QED
    BY Zenon, <1>1, <2>1 DEF TypeOK, PStates, PCs
<1>7. StackInv'
  BY <1>1, <1>2, <1>3 DEF StackInv, OneStackOneCPU, TypeOK, Parked
<1>8. LockInv'
  BY Zenon, <1>1, <1>2, <1>3, <1>4, Slots DEF LockInv, TypeOK, Locked
<1>9. ForkInv'
  BY <1>1, <1>2 DEF ForkInv, TypeOK
<1>10. TreeInv'
  BY Zenon, <1>1, <1>2, <1>5, Slots DEF TreeInv, TypeOK, Exiting
<1>11. ExitInv'
  BY Zenon, <1>1, <1>2, <1>4 DEF ExitInv, TypeOK, Locked
<1>12. WaitInv'
  BY <1>1, <1>2, <1>4, <1>5 DEF WaitInv, TypeOK, Locked
<1> QED
  BY Zenon, <1>6, <1>7, <1>8, <1>9, <1>10, <1>11, <1>12 DEF IInv

-----------------------------------------------------------------------------
(* wait(), sleep() and kill()                                              *)

\* wait() takes wait_lock, at its start and when sleep() returns.
LEMMA WaitLockKeeps ==
  ASSUME IInv, NEW p \in Procs, WaitLock(p)
  PROVE  IInv'
<1>i. TypeOK /\ StackInv /\ LockInv /\ ForkInv /\ TreeInv /\ ExitInv /\ WaitInv
  BY Zenon DEF IInv
<1> USE <1>i
<1>1. /\ wlock = None /\ wlock' = p
      /\ idx' = [idx EXCEPT ![p] = 1]
      /\ havekids' = [havekids EXCEPT ![p] = FALSE]
      /\ pc' = [pc EXCEPT ![p] = "wait_scan"]
      /\ UNCHANGED <<state, parent, chan, killed, plock, cpu, insched, visit,
                     child>>
  BY Zenon DEF WaitLock, Goto
<1>2. /\ pc[p] \in {"wait_lock", "relock"} /\ ~insched[p] /\ p \in Stacks
      /\ state[p] = "RUNNING" /\ p # None
  BY Zenon, AtLine DEF WaitLock
<1>3. Stacks' = Stacks
  BY Zenon, <1>1 DEF Stacks, OnCPU
<1>4. \A q \in Procs : pc[q] \notin Locked
  BY Zenon, <1>1, WaitLockAlone
<1>5. TypeOK'
  <2>1. 1 \in Indices
    BY ProcAssumption DEF Indices, Started
  <2> QED
    BY Zenon, <1>1, <2>1 DEF TypeOK, PCs
<1>6. StackInv'
  BY <1>1, <1>2, <1>3 DEF StackInv, OneStackOneCPU, TypeOK, Parked
<1>7. LockInv'
  BY Zenon, <1>1, <1>2, <1>3, <1>4 DEF LockInv, TypeOK, Locked
<1>8. ForkInv' /\ TreeInv'
  BY <1>1, <1>2 DEF ForkInv, TreeInv, TypeOK, Exiting
<1>9. ExitInv'
  BY <1>1, <1>2 DEF ExitInv, TypeOK
<1>10. WaitInv'
  <2>1. 1 \in Started /\ \A q \in Procs : ~(q < 1)
    BY ProcAssumption DEF Procs, Indices, Started
  <2> QED
    BY Zenon, <1>1, <1>2, <2>1 DEF WaitInv, TypeOK
<1> QED
  BY Zenon, <1>5, <1>6, <1>7, <1>8, <1>9, <1>10 DEF IInv

\* An iteration of wait() that finds no zombie.
LEMMA WaitScanKeeps ==
  ASSUME IInv, NEW p \in Procs, WaitScan(p)
  PROVE  IInv'
<1>i. TypeOK /\ StackInv /\ LockInv /\ ForkInv /\ TreeInv /\ ExitInv /\ WaitInv
  BY Zenon DEF IInv
<1> USE <1>i
<1>1. /\ idx[p] <= NPROC
      /\ parent[idx[p]] = p => state[idx[p]] # "ZOMBIE"
      /\ havekids' = [havekids EXCEPT ![p] = @ \/ parent[idx[p]] = p]
      /\ idx' = [idx EXCEPT ![p] = @ + 1]
      /\ UNCHANGED <<state, parent, chan, killed, plock, wlock, cpu, insched,
                     pc, visit, child>>
  BY Zenon DEF WaitScan, LastSlot
<1>2. pc[p] = "wait_scan"
  BY Zenon, AtLine DEF WaitScan
<1>3. Stacks' = Stacks
  BY Zenon, <1>1 DEF Stacks, OnCPU
<1>4. /\ idx[p] \in Started
      /\ \A q \in Procs : q < idx[p] /\ parent[q] = p => state[q] # "ZOMBIE"
  BY Zenon, <1>2 DEF WaitInv
<1>5. /\ idx[p] + 1 \in Started /\ idx[p] + 1 \in Indices
      /\ \A q \in Procs : q < idx[p] + 1 => q < idx[p] \/ q = idx[p]
  BY <1>1, <1>4, ProcAssumption DEF Procs, Indices, Started
<1>6. TypeOK'
  BY Zenon, <1>1, <1>5 DEF TypeOK
<1>7. StackInv' /\ LockInv' /\ ForkInv' /\ TreeInv'
  BY <1>1, <1>3 DEF StackInv, OneStackOneCPU, LockInv, ForkInv, TreeInv
<1>8. ExitInv'
  BY <1>1, <1>2 DEF ExitInv, TypeOK
<1>9. WaitInv'
  BY Zenon, <1>1, <1>2, <1>4, <1>5 DEF WaitInv, TypeOK
<1> QED
  BY Zenon, <1>6, <1>7, <1>8, <1>9 DEF IInv

\* wait() frees a zombie whose CPU has switched away from it.
LEMMA WaitReapKeeps ==
  ASSUME IInv, NEW p \in Procs, WaitReap(p)
  PROVE  IInv'
<1>i. TypeOK /\ StackInv /\ LockInv /\ ForkInv /\ TreeInv /\ ExitInv /\ WaitInv
  BY Zenon DEF IInv
<1> USE <1>i
<1> DEFINE pp == idx[p]
<1>1. /\ pp <= NPROC /\ parent[pp] = p /\ plock[pp] = None /\ state[pp] = "ZOMBIE"
      /\ state' = [state EXCEPT ![pp] = "UNUSED"]
      /\ parent' = [parent EXCEPT ![pp] = None]
      /\ chan' = [chan EXCEPT ![pp] = None]
      /\ killed' = [killed EXCEPT ![pp] = FALSE]
      /\ wlock' = None
      /\ idx' = [idx EXCEPT ![p] = 0]
      /\ havekids' = [havekids EXCEPT ![p] = FALSE]
      /\ pc' = [pc EXCEPT ![p] = "user", ![pp] = "user"]
      /\ UNCHANGED <<plock, cpu, insched, visit, child>>
  BY Zenon DEF WaitReap, ChildVisible, ClearParent, LastSlot
<1>2. /\ pc[p] = "wait_scan" /\ ~insched[p] /\ p \in Stacks
      /\ state[p] = "RUNNING" /\ p # None
  BY Zenon, AtLine DEF WaitReap
<1>3. pp \in Procs
  <2>1. pp \in Started
    BY Zenon, <1>2 DEF WaitInv
  <2> QED
    BY <1>1, <2>1, ProcAssumption DEF Procs, Indices, Started
<1> HIDE DEF pp
<1>4. Stacks' = Stacks
  BY Zenon, <1>1 DEF Stacks, OnCPU
<1>5. \A q \in Procs : q # p => pc[q] \notin Locked
  BY Zenon, <1>2, WaitLockAlone DEF Locked
<1>6. /\ pp # p /\ pc[pp] = "exited" /\ insched[pp] /\ pp \notin Stacks
      /\ pp # initproc
      /\ \A q \in Procs : parent[q] # pp /\ child[q] # pp
  BY <1>1, <1>2, <1>3, FreeSlot, Slots DEF StackInv, LockInv, Alive, TypeOK
<1>7. TypeOK'
  <2>1. 0 \in Indices
    BY ProcAssumption DEF Indices, Started
  <2>2. \A q \in Procs : state'[q] = "UNUSED" => parent'[q] = None /\ chan'[q] = None
    BY Zenon, <1>1, <1>3 DEF TypeOK
  <2> QED
    BY Zenon, <1>1, <2>1, <2>2 DEF TypeOK, PStates, PCs
<1>8. StackInv'
  BY <1>1, <1>2, <1>3, <1>4, <1>6 DEF StackInv, OneStackOneCPU, TypeOK, Parked
<1>9. LockInv'
  BY <1>1, <1>2, <1>3, <1>4, <1>5, <1>6, Slots DEF LockInv, TypeOK, Locked
<1>10. ForkInv'
  BY <1>1, <1>2, <1>3, <1>6, Slots DEF ForkInv, TypeOK
<1>11. TreeInv'
  BY <1>1, <1>2, <1>3, <1>6, Slots DEF TreeInv, TypeOK, Exiting
<1>12. ExitInv'
  BY <1>1, <1>2, <1>3, <1>5 DEF ExitInv, TypeOK, Locked
<1>13. WaitInv'
  BY <1>1, <1>2, <1>3, <1>5, <1>6 DEF WaitInv, TypeOK, Locked
<1> QED
  BY Zenon, <1>7, <1>8, <1>9, <1>10, <1>11, <1>12, <1>13 DEF IInv

\* wait() returns with nothing freed: no children, killed, or copyout() fails.
LEMMA WaitReturnKeeps ==
  ASSUME IInv, NEW p \in Procs, At(p, "wait_scan"),
         wlock' = None,
         idx' = [idx EXCEPT ![p] = 0],
         havekids' = [havekids EXCEPT ![p] = FALSE],
         pc' = [pc EXCEPT ![p] = "user"],
         UNCHANGED <<state, parent, chan, killed, plock, cpu, insched, visit,
                     child>>
  PROVE  IInv'
<1>i. TypeOK /\ StackInv /\ LockInv /\ ForkInv /\ TreeInv /\ ExitInv /\ WaitInv
  BY Zenon DEF IInv
<1> USE <1>i
<1>2. /\ pc[p] = "wait_scan" /\ ~insched[p] /\ p \in Stacks
      /\ state[p] = "RUNNING" /\ p # None
  BY Zenon, AtLine
<1>3. Stacks' = Stacks
  BY Zenon DEF Stacks, OnCPU
<1>4. \A q \in Procs : q # p => pc[q] \notin Locked
  BY Zenon, <1>2, WaitLockAlone DEF Locked
<1>5. TypeOK'
  <2>1. 0 \in Indices
    BY ProcAssumption DEF Indices, Started
  <2> QED
    BY Zenon, <2>1 DEF TypeOK, PCs
<1>6. StackInv'
  BY Zenon, <1>2, <1>3 DEF StackInv, OneStackOneCPU, TypeOK, Parked
<1>7. LockInv'
  BY Zenon, <1>2, <1>3, <1>4, Slots DEF LockInv, TypeOK, Locked
<1>8. ForkInv' /\ TreeInv'
  BY <1>2 DEF ForkInv, TreeInv, TypeOK, Exiting
<1>9. ExitInv' /\ WaitInv'
  BY <1>2 DEF ExitInv, WaitInv, TypeOK
<1> QED
  BY Zenon, <1>5, <1>6, <1>7, <1>8, <1>9 DEF IInv

\* wait() has scanned every slot: it returns, or is about to sleep.
LEMMA WaitCheckKeeps ==
  ASSUME IInv, NEW p \in Procs, WaitCheck(p)
  PROVE  IInv'
<1>i. TypeOK /\ StackInv /\ LockInv /\ ForkInv /\ TreeInv /\ ExitInv /\ WaitInv
  BY Zenon DEF IInv
<1> USE <1>i
<1>1. /\ idx[p] > NPROC
      /\ idx' = [idx EXCEPT ![p] = 0]
      /\ havekids' = [havekids EXCEPT ![p] = FALSE]
      /\ UNCHANGED <<state, parent, chan, killed, plock, cpu, insched, visit,
                     child>>
  BY Zenon DEF WaitCheck, LastSlot
<1>2. /\ pc[p] = "wait_scan" /\ ~insched[p] /\ p \in Stacks
      /\ state[p] = "RUNNING" /\ p # None
  BY Zenon, AtLine DEF WaitCheck
<1>3. Stacks' = Stacks
  BY Zenon, <1>1 DEF Stacks, OnCPU
<1>4. CASE ~havekids[p] \/ killed[p]
  <2>1. At(p, "wait_scan") /\ wlock' = None /\ pc' = [pc EXCEPT ![p] = "user"]
    BY Zenon, <1>4 DEF WaitCheck, Goto
  <2> QED
    BY Zenon, <1>1, <2>1, WaitReturnKeeps
<1>5. CASE ~(~havekids[p] \/ killed[p])
  <2>1. pc' = [pc EXCEPT ![p] = "sleep"] /\ UNCHANGED wlock
    BY Zenon, <1>5 DEF WaitCheck, Goto
  <2>2. \A q \in Procs : parent[q] = p => state[q] # "ZOMBIE"
    <3>1. \A q \in Procs : q < idx[p]
      BY <1>1, ProcAssumption DEF TypeOK, Procs, Indices, Started
    <3> QED
      BY Zenon, <1>2, <3>1 DEF WaitInv
  <2>3. TypeOK'
    <3>1. 0 \in Indices
      BY ProcAssumption DEF Indices, Started
    <3> QED
      BY Zenon, <1>1, <2>1, <3>1 DEF TypeOK, PCs
  <2>4. StackInv' /\ LockInv'
    BY <1>1, <1>2, <1>3, <2>1 DEF StackInv, OneStackOneCPU, LockInv, TypeOK,
       Parked, Locked
  <2>5. ForkInv' /\ TreeInv'
    BY <1>1, <1>2, <2>1 DEF ForkInv, TreeInv, TypeOK, Exiting
  <2>6. ExitInv'
    BY <1>1, <1>2, <2>1 DEF ExitInv, TypeOK
  <2>7. WaitInv'
    BY <1>1, <1>2, <2>1, <2>2 DEF WaitInv, TypeOK
  <2> QED
    BY Zenon, <2>3, <2>4, <2>5, <2>6, <2>7 DEF IInv
<1> QED
  BY Zenon, <1>4, <1>5 DEF IInv

\* wait()'s copyout() of the status fails.
LEMMA WaitCopyoutFailsKeeps ==
  ASSUME IInv, NEW p \in Procs, WaitCopyoutFails(p)
  PROVE  IInv'
<1>1. /\ At(p, "wait_scan") /\ wlock' = None
      /\ idx' = [idx EXCEPT ![p] = 0]
      /\ havekids' = [havekids EXCEPT ![p] = FALSE]
      /\ pc' = [pc EXCEPT ![p] = "user"]
      /\ UNCHANGED <<state, parent, chan, killed, plock, cpu, insched, visit,
                     child>>
  BY Zenon DEF WaitCopyoutFails, Goto
<1> QED
  BY Zenon, <1>1, WaitReturnKeeps

\* sleep() takes p->lock while it still has wait_lock.
LEMMA SleepLockKeeps ==
  ASSUME IInv, NEW p \in Procs, SleepLock(p)
  PROVE  IInv'
<1>i. TypeOK /\ StackInv /\ LockInv /\ ForkInv /\ TreeInv /\ ExitInv /\ WaitInv
  BY Zenon DEF IInv
<1> USE <1>i
<1>1. /\ plock' = [plock EXCEPT ![p] = p]
      /\ pc' = [pc EXCEPT ![p] = "sleep_locked"]
      /\ UNCHANGED <<state, parent, chan, killed, wlock, cpu, insched, idx,
                     visit, havekids, child>>
  BY Zenon DEF SleepLock, Goto
<1>2. /\ pc[p] = "sleep" /\ ~insched[p] /\ p \in Stacks
      /\ state[p] = "RUNNING" /\ p # None
  BY Zenon, AtLine DEF SleepLock
<1>3. Stacks' = Stacks
  BY Zenon, <1>1 DEF Stacks, OnCPU
<1>4. TypeOK'
  BY Zenon, <1>1 DEF TypeOK, PCs
<1>5. StackInv' /\ LockInv'
  BY <1>1, <1>2, <1>3 DEF StackInv, OneStackOneCPU, LockInv, TypeOK, Parked, Locked
<1>6. ForkInv' /\ TreeInv'
  BY <1>1, <1>2 DEF ForkInv, TreeInv, TypeOK, Exiting
<1>7. ExitInv' /\ WaitInv'
  BY <1>1, <1>2 DEF ExitInv, WaitInv, TypeOK
<1> QED
  BY Zenon, <1>4, <1>5, <1>6, <1>7 DEF IInv

\* sleep() releases wait_lock and enters sched().
LEMMA SleepKeeps ==
  ASSUME IInv, NEW p \in Procs, Sleep(p)
  PROVE  IInv'
<1>i. TypeOK /\ StackInv /\ LockInv /\ ForkInv /\ TreeInv /\ ExitInv /\ WaitInv
  BY Zenon DEF IInv
<1> USE <1>i
<1>1. /\ wlock' = None
      /\ chan' = [chan EXCEPT ![p] = p]
      /\ state' = [state EXCEPT ![p] = "SLEEPING"]
      /\ insched' = [insched EXCEPT ![p] = TRUE]
      /\ pc' = [pc EXCEPT ![p] = "sleeping"]
      /\ UNCHANGED <<parent, killed, plock, cpu, idx, visit, havekids, child>>
  BY Zenon DEF Sleep, Goto
<1>2. /\ pc[p] = "sleep_locked" /\ ~insched[p] /\ p \in Stacks
      /\ state[p] = "RUNNING" /\ p # None
  BY Zenon, AtLine DEF Sleep
<1>3. Stacks' = Stacks
  BY Zenon, <1>1 DEF Stacks, OnCPU
<1>4. \A q \in Procs : q # p => pc[q] \notin Locked
  BY Zenon, <1>2, WaitLockAlone DEF Locked
<1>5. TypeOK'
  BY Zenon, <1>1, <1>2 DEF TypeOK, PStates, PCs
<1>6. StackInv'
  BY <1>1, <1>2, <1>3 DEF StackInv, OneStackOneCPU, TypeOK, Parked
<1>7. LockInv'
  BY <1>1, <1>2, <1>3, <1>4, Slots DEF LockInv, TypeOK, Locked
<1>8. ForkInv'
  BY <1>1, <1>2 DEF ForkInv, TypeOK
<1>9. TreeInv'
  BY Zenon, <1>1, <1>2, Slots DEF TreeInv, TypeOK, Alive, Exiting
<1>10. ExitInv'
  BY Zenon, <1>1, <1>2, <1>4 DEF ExitInv, TypeOK, Locked
<1>11. WaitInv'
  BY Zenon, <1>1, <1>2, <1>4 DEF WaitInv, TypeOK, Locked
<1> QED
  BY Zenon, <1>5, <1>6, <1>7, <1>8, <1>9, <1>10, <1>11 DEF IInv

\* kill() marks a process and wakes it.
LEMMA KillKeeps ==
  ASSUME IInv, NEW p \in Procs, NEW q \in Procs, Kill(q, p)
  PROVE  IInv'
<1>i. TypeOK /\ StackInv /\ LockInv /\ ForkInv /\ TreeInv /\ ExitInv /\ WaitInv
  BY Zenon DEF IInv
<1> USE <1>i
<1>1. /\ killed' = [killed EXCEPT ![p] = TRUE]
      /\ UNCHANGED <<parent, chan, plock, wlock, cpu, insched, pc, idx, visit,
                     havekids, child>>
  BY Zenon DEF Kill
<1>2. Woken(p)
  BY Zenon DEF Kill, Woken
<1>3. /\ StackInv' /\ LockInv' /\ ForkInv' /\ TreeInv'
      /\ state' \in [Procs -> PStates]
      /\ \A r \in Procs : /\ state'[r] = "UNUSED" <=> state[r] = "UNUSED"
                          /\ state'[r] = "ZOMBIE" <=> state[r] = "ZOMBIE"
                          /\ state'[r] = "SLEEPING" => state[r] = "SLEEPING"
  BY Zenon, <1>1, <1>2, WokenKeeps
<1>4. TypeOK'
  BY Zenon, <1>1, <1>3 DEF TypeOK
<1>5. ExitInv'
  <2>1. \A r \in Procs : pc[r] \in {"exit_wake", "exit_zombie"} => parent[r] \in Procs
    BY Zenon DEF StackInv, TreeInv, TypeOK, Exiting
  <2> QED
    BY <1>1, <1>3, <2>1 DEF ExitInv
<1>6. WaitInv'
  BY <1>1, <1>3 DEF WaitInv, TypeOK
<1> QED
  BY Zenon, <1>3, <1>4, <1>5, <1>6 DEF IInv

-----------------------------------------------------------------------------
(* yield(), sched() and scheduler()                                        *)

\* yield() enters sched().
LEMMA YieldKeeps ==
  ASSUME IInv, NEW p \in Procs, Yield(p)
  PROVE  IInv'
<1>i. TypeOK /\ StackInv /\ LockInv /\ ForkInv /\ TreeInv /\ ExitInv /\ WaitInv
  BY Zenon DEF IInv
<1> USE <1>i
<1>1. /\ pc[p] \in {"user", "fork_parent", "fork_run", "wait_lock", "relock",
                    "exit_lock"}
      /\ plock' = [plock EXCEPT ![p] = p]
      /\ state' = [state EXCEPT ![p] = "RUNNABLE"]
      /\ insched' = [insched EXCEPT ![p] = TRUE]
      /\ UNCHANGED <<parent, chan, killed, wlock, cpu, pc, idx, visit,
                     havekids, child>>
  BY Zenon DEF Yield
<1>2. ~insched[p] /\ p \in Stacks /\ state[p] = "RUNNING"
  BY Zenon DEF Yield, Running, IInv, StackInv
<1>3. Stacks' = Stacks
  BY Zenon, <1>1 DEF Stacks, OnCPU
<1>4. TypeOK'
  BY Zenon, <1>1, <1>2 DEF TypeOK, PStates
<1>5. StackInv'
  BY <1>1, <1>2, <1>3 DEF StackInv, OneStackOneCPU, TypeOK, Parked
<1>6. LockInv' /\ ForkInv'
  BY <1>1, <1>2, <1>3 DEF LockInv, ForkInv, TypeOK
<1>7. TreeInv'
  BY Zenon, <1>1, <1>2, Slots DEF TreeInv, TypeOK, Alive
<1>8. ExitInv' /\ WaitInv'
  BY <1>1, <1>2 DEF ExitInv, WaitInv, TypeOK
<1> QED
  BY Zenon, <1>4, <1>5, <1>6, <1>7, <1>8 DEF IInv

\* sched() returns in yield(), sleep() or forkret().
LEMMA SchedReturnKeeps ==
  ASSUME IInv, NEW p \in Procs, SchedReturn(p)
  PROVE  IInv'
<1>i. TypeOK /\ StackInv /\ LockInv /\ ForkInv /\ TreeInv /\ ExitInv /\ WaitInv
  BY Zenon DEF IInv
<1> USE <1>i
<1>1. /\ insched[p] /\ state[p] = "RUNNING" /\ p \in Stacks
      /\ plock' = [plock EXCEPT ![p] = None]
      /\ insched' = [insched EXCEPT ![p] = FALSE]
      /\ UNCHANGED <<state, parent, killed, wlock, cpu, idx, visit, havekids,
                     child>>
  BY Zenon DEF SchedReturn, Stacks
<1>2. Stacks' = Stacks
  BY Zenon, <1>1 DEF Stacks, OnCPU
<1>3. pc[p] \in Parked \ {"exited"}
  BY Zenon, <1>1 DEF StackInv
<1>4. CASE pc[p] = "sleeping"
  <2>1. chan' = [chan EXCEPT ![p] = None] /\ pc' = [pc EXCEPT ![p] = "relock"]
    BY Zenon, <1>4 DEF SchedReturn, Goto
  <2>2. TypeOK'
    BY Zenon, <1>1, <2>1 DEF TypeOK, PCs
  <2>3. StackInv'
    BY <1>1, <1>2, <1>4, <2>1 DEF StackInv, OneStackOneCPU, TypeOK, Parked
  <2>4. LockInv'
    BY Zenon, <1>1, <1>2, <1>4, <2>1 DEF LockInv, TypeOK, Locked
  <2>5. ForkInv' /\ TreeInv'
    BY <1>1, <1>4, <2>1 DEF ForkInv, TreeInv, TypeOK, Exiting
  <2>6. ExitInv' /\ WaitInv'
    BY <1>1, <1>4, <2>1 DEF ExitInv, WaitInv, TypeOK
  <2> QED
    BY Zenon, <2>2, <2>3, <2>4, <2>5, <2>6 DEF IInv
<1>5. CASE pc[p] # "sleeping"
  <2>1. UNCHANGED <<chan, pc>>
    BY Zenon, <1>5 DEF SchedReturn
  <2>2. TypeOK'
    BY Zenon, <1>1, <2>1 DEF TypeOK
  <2>3. StackInv'
    BY <1>1, <1>2, <1>3, <1>5, <2>1 DEF StackInv, OneStackOneCPU, TypeOK
  <2>4. LockInv'
    BY Zenon, <1>1, <1>2, <1>3, <2>1 DEF LockInv, TypeOK, Parked
  <2>5. ForkInv' /\ TreeInv' /\ ExitInv' /\ WaitInv'
    BY <1>1, <2>1 DEF ForkInv, TreeInv, ExitInv, WaitInv
  <2> QED
    BY Zenon, <2>2, <2>3, <2>4, <2>5 DEF IInv
<1> QED
  BY Zenon, <1>4, <1>5 DEF IInv

\* The scheduler gets its CPU back and releases p->lock.
LEMMA SwtchOutKeeps ==
  ASSUME IInv, NEW c \in CPUs, SwtchOut(c)
  PROVE  IInv'
<1>i. TypeOK /\ StackInv /\ LockInv /\ ForkInv /\ TreeInv /\ ExitInv /\ WaitInv
  BY Zenon DEF IInv
<1> USE <1>i
<1> DEFINE p == cpu[c]
<1>1. /\ p # None /\ insched[p] /\ state[p] # "RUNNING"
      /\ cpu' = [cpu EXCEPT ![c] = None]
      /\ plock' = [plock EXCEPT ![p] = None]
      /\ UNCHANGED <<state, parent, chan, killed, wlock, insched, pc, idx,
                     visit, havekids, child>>
  BY Zenon DEF SwtchOut
<1>2. p \in Procs
  BY Zenon, <1>1 DEF TypeOK
<1>3. Stacks' = Stacks \ {p}
  <2>1. \A d \in CPUs : d # c => cpu[d] # p /\ cpu'[d] = cpu[d]
    BY Zenon, <1>1 DEF StackInv, OneStackOneCPU, TypeOK
  <2>2. cpu'[c] = None
    BY Zenon, <1>1 DEF TypeOK
  <2> QED
    BY Zenon, <2>1, <2>2, Slots DEF Stacks, OnCPU
<1>4. OneStackOneCPU'
  BY Zenon, <1>1 DEF StackInv, OneStackOneCPU, TypeOK
<1> HIDE DEF p
<1>5. TypeOK'
  BY Zenon, <1>1 DEF TypeOK
<1>6. StackInv'
  BY Zenon, <1>1, <1>2, <1>3, <1>4 DEF StackInv
<1>7. LockInv'
  BY Zenon, <1>1, <1>2, <1>3 DEF LockInv, TypeOK
<1>8. ForkInv' /\ TreeInv' /\ ExitInv' /\ WaitInv'
  BY <1>1 DEF ForkInv, TreeInv, ExitInv, WaitInv
<1> QED
  BY Zenon, <1>5, <1>6, <1>7, <1>8 DEF IInv

\* The scheduler switches to a process that no other CPU still runs on.
LEMMA ScheduleKeeps ==
  ASSUME IInv, NEW c \in CPUs, NEW p \in Procs, Schedule(c, p)
  PROVE  IInv'
<1>i. TypeOK /\ StackInv /\ LockInv /\ ForkInv /\ TreeInv /\ ExitInv /\ WaitInv
  BY Zenon DEF IInv
<1> USE <1>i
<1>1. /\ cpu[c] = None /\ state[p] = "RUNNABLE" /\ plock[p] = None
      /\ plock' = [plock EXCEPT ![p] = p]
      /\ state' = [state EXCEPT ![p] = "RUNNING"]
      /\ cpu' = [cpu EXCEPT ![c] = p]
      /\ UNCHANGED <<parent, chan, killed, wlock, insched, pc, idx, visit,
                     havekids, child>>
  BY Zenon DEF Schedule, Schedulable
<1>2. insched[p] /\ p \notin Stacks
  BY <1>1, Slots DEF StackInv, LockInv, TypeOK
<1>3. Stacks' = Stacks \cup {p}
  <2>1. \A d \in CPUs : d # c => cpu'[d] = cpu[d]
    BY Zenon, <1>1 DEF TypeOK
  <2>2. cpu'[c] = p
    BY Zenon, <1>1 DEF TypeOK
  <2> QED
    BY Zenon, <1>1, <2>1, <2>2, Slots DEF Stacks, OnCPU
<1>4. OneStackOneCPU'
  <2>1. \A d \in CPUs : cpu[d] # p
    BY Zenon, <1>2 DEF Stacks, OnCPU
  <2> QED
    BY Zenon, <1>1, <2>1 DEF StackInv, OneStackOneCPU, TypeOK
<1>5. TypeOK'
  BY Zenon, <1>1 DEF TypeOK, PStates
<1>6. StackInv'
  BY Zenon, <1>1, <1>2, <1>3, <1>4 DEF StackInv, TypeOK
<1>7. LockInv'
  BY Zenon, <1>1, <1>2, <1>3 DEF LockInv, TypeOK
<1>8. ForkInv'
  BY <1>1 DEF ForkInv, TypeOK
<1>9. TreeInv'
  BY Zenon, <1>1, Slots DEF TreeInv, TypeOK, Alive
<1>10. ExitInv' /\ WaitInv'
  BY <1>1 DEF ExitInv, WaitInv, TypeOK
<1> QED
  BY Zenon, <1>5, <1>6, <1>7, <1>8, <1>9, <1>10 DEF IInv

-----------------------------------------------------------------------------
(* The invariants.                                                         *)

\* Every step keeps the inductive invariant.
LEMMA ProcStep == IInv /\ [Next]_vars => IInv'
<1> SUFFICES ASSUME IInv, [Next]_vars PROVE IInv'
  BY Zenon
<1>1. ASSUME NEW p \in Procs, KernelStep(p)
      PROVE  IInv'
  BY Zenon, <1>1, ForkParentKeeps, ForkRunKeeps, ExitLockKeeps, ReparentKeeps,
     ReparentWakeKeeps, ExitWakeKeeps, ExitZombieKeeps, WaitLockKeeps,
     WaitScanKeeps, WaitReapKeeps, WaitCopyoutFailsKeeps, WaitCheckKeeps,
     SleepLockKeeps, SleepKeeps DEF KernelStep
<1>2. ASSUME NEW p \in Procs,
             SchedReturn(p) \/ Exit(p) \/ Wait(p) \/ Yield(p)
      PROVE  IInv'
  BY Zenon, <1>2, SchedReturnKeeps, ExitKeeps, WaitKeeps, YieldKeeps
<1>3. ASSUME NEW p \in Procs, NEW q \in Procs,
             Fork(p, q) \/ ForkFails(p, q) \/ Kill(p, q)
      PROVE  IInv'
  BY Zenon, <1>3, ForkKeeps, ForkFailsKeeps, KillKeeps
<1>4. ASSUME NEW c \in CPUs, SwtchOut(c) \/ \E p \in Procs : Schedule(c, p)
      PROVE  IInv'
  BY ZenonT(60), <1>4, SwtchOutKeeps, ScheduleKeeps
<1>5. CASE PanicLoop \/ UNCHANGED vars
  <2>1. UNCHANGED vars
    BY Zenon, <1>5 DEF PanicLoop
  <2>2. Stacks' = Stacks
    BY Zenon, <2>1 DEF vars, Stacks, OnCPU
  <2> QED
    BY <2>1, <2>2 DEF vars, IInv, TypeOK, StackInv, OneStackOneCPU, LockInv,
       ForkInv, TreeInv, ExitInv, WaitInv
<1> QED
  BY Zenon, <1>1, <1>2, <1>3, <1>4, <1>5 DEF Next

\* The inductive invariant holds in every state of the process table.
THEOREM ProcInvariant == Spec => []IInv
<1> QED
  BY ProcInit, ProcStep, PTL DEF Spec

\* Whoever fork() has started and wait() has not freed has a live parent that
\* can wait() for it, whatever the order in which processes fork, exit and
\* reparent their children; a freed slot is blank.
THEOREM ProcTree == Spec => []ProcessTree
<1>1. IInv => ProcessTree
  BY Zenon DEF IInv, ProcessTree, ParentIsAlive, TreeInv, Alive
<1> QED
  BY <1>1, ProcInvariant, PTL

\* A parent never sleeps through the exit of a child, its own or inherited:
\* wait_lock closes the window between wait()'s scan and its sleep().
THEOREM ProcNoMissedExit == Spec => []NoMissedExit
<1>1. IInv => NoMissedExit
  <2> SUFFICES ASSUME IInv, wlock = None, NEW p \in Procs, NEW q \in Procs,
                      parent[q] = p, state[q] = "ZOMBIE", state[p] = "SLEEPING"
               PROVE  FALSE
    BY Zenon DEF NoMissedExit
  <2>1. \E r \in Procs : pc[r] = "reparent_wake"
    BY Zenon, Slots DEF IInv, WaitInv
  <2> QED
    BY Zenon, <2>1, WaitLockAlone DEF Locked
<1> QED
  BY <1>1, ProcInvariant, PTL

\* No two CPUs ever run on one kernel stack, wait() frees none that a CPU is
\* still on, and swtch() happens with p->lock held and no other lock: none of
\* the lock panics of sched() can happen.
THEOREM ProcStacks == Spec => []StacksAndLocks
<1>1. IInv => StacksAndLocks
  <2> SUFFICES ASSUME IInv PROVE StacksAndLocks
    BY Zenon
  <2>1. OneStackOneCPU /\ FreedIsOffCPU
    BY Zenon DEF IInv, StackInv, FreedIsOffCPU, Stacks
  <2>2. SchedHoldsOnlyOwnLock
    <3> SUFFICES ASSUME NEW p \in Procs, p \in Stacks, insched[p]
                 PROVE  /\ plock[p] = p /\ wlock # p
                        /\ \A q \in Procs \ {p} : plock[q] # p
      BY Zenon DEF SchedHoldsOnlyOwnLock, Stacks
    <3>1. plock[p] = p /\ \A q \in Procs \ {p} : plock[q] # p
      BY Zenon, Slots DEF IInv, LockInv
    <3>2. wlock # p
      BY Zenon DEF IInv, LockInv, StackInv, Parked, Locked
    <3> QED
      BY Zenon, <3>1, <3>2
  <2> QED
    BY Zenon, <2>1, <2>2 DEF StacksAndLocks
<1> QED
  BY <1>1, ProcInvariant, PTL
=============================================================================
