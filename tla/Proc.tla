-------------------------------- MODULE Proc --------------------------------
(***************************************************************************)
(* Process life cycle of kernel/proc.c: fork, exit, wait, kill, sleep and  *)
(* wakeup on wait_lock, yield, sched and the per-CPU scheduler, with the   *)
(* spin-locks they take.                                                   *)
(*                                                                         *)
(* Grain of atomicity.  A section that holds only one p->lock, taken and   *)
(* released inside the section, is one step whose guard is that the lock   *)
(* is free.  wait_lock, and the p->lock that sched() hands from a process  *)
(* to the scheduler and back, are held across steps and are variables.     *)
(* User programs are arbitrary: any process makes any call at any time.    *)
(* A process is its slot in proc[]; kill(pid) reaches the slot that has    *)
(* that pid, and every UNUSED slot has pid 0 (freeproc()).                 *)
(***************************************************************************)
EXTENDS Naturals

CONSTANTS NPROC,      \* slots of proc[]
          CPUs        \* processors

ASSUME ProcAssumption == NPROC \in Nat \ {0}

None     == 0
Procs    == 1..NPROC
initproc == 1

\* The values of a loop variable that walks proc[].
Indices == 0..NPROC + 1

VARIABLES state,      \* p->state
          parent,     \* p->parent
          chan,       \* p->chan
          killed,     \* p->killed
          plock,      \* holder of p->lock
          wlock,      \* holder of wait_lock
          cpu,        \* c->proc, the process whose kernel stack c runs on
          insched,    \* the process is inside sched() (or before forkret())
          pc,         \* where the process is
          idx,        \* loop index of wait() and reparent()
          visit,      \* loop index of wakeup()
          havekids,   \* havekids in wait()
          child       \* np in fork()

vars == <<state, parent, chan, killed, plock, wlock, cpu, insched, pc, idx,
          visit, havekids, child>>

PStates == {"UNUSED", "USED", "SLEEPING", "RUNNABLE", "RUNNING", "ZOMBIE"}
PCs == {"user", "panicked", "fork_parent", "fork_run", "wait_lock",
        "wait_scan", "sleep", "sleep_locked", "sleeping",
        "relock", "exit_lock", "reparent", "reparent_wake", "exit_wake",
        "exit_zombie", "exited"}

\* userinit(): only init exists and it is RUNNABLE, at forkret().
Init ==
  /\ state = [p \in Procs |-> IF p = initproc THEN "RUNNABLE" ELSE "UNUSED"]
  /\ parent = [p \in Procs |-> None]
  /\ chan = [p \in Procs |-> None]
  /\ killed = [p \in Procs |-> FALSE]
  /\ plock = [p \in Procs |-> None]
  /\ wlock = None
  /\ cpu = [c \in CPUs |-> None]
  /\ insched = [p \in Procs |-> TRUE]
  /\ pc = [p \in Procs |-> "user"]
  /\ idx = [p \in Procs |-> 0]
  /\ visit = [p \in Procs |-> 0]
  /\ havekids = [p \in Procs |-> FALSE]
  /\ child = [p \in Procs |-> None]

OnCPU(p)   == \E c \in CPUs : cpu[c] = p
Running(p) == OnCPU(p) /\ ~insched[p]
At(p, l)   == Running(p) /\ pc[p] = l
Goto(p, l) == pc' = [pc EXCEPT ![p] = l]

\* Where the loops of reparent() and wait() over proc[] end.
LastSlotShort == NPROC - 1
LastSlot      == NPROC

\* freeproc(pp) clears pp->parent.
KeepParent(pp)  == parent
ClearParent(pp) == [parent EXCEPT ![pp] = None]

-----------------------------------------------------------------------------
(* fork()                                                                  *)

\* allocproc() and the copying of the parent, under np->lock.  The search
\* locks one slot at a time, so it may find any slot that is UNUSED.
Fork(p, np) ==
  /\ At(p, "user")
  /\ ~killed[p]
  /\ state[np] = "UNUSED"
  /\ plock[np] = None
  /\ state' = [state EXCEPT ![np] = "USED"]
  /\ pc' = [pc EXCEPT ![p] = "fork_parent", ![np] = "user"]
  /\ insched' = [insched EXCEPT ![np] = TRUE]
  /\ child' = [child EXCEPT ![p] = np]
  /\ UNCHANGED <<parent, chan, killed, plock, wlock, cpu, idx, visit,
                 havekids>>

\* kalloc() or uvmcopy() fails: freeproc(np), fork() returns -1.
ForkFails(p, np) ==
  /\ At(p, "user")
  /\ ~killed[p]
  /\ state[np] = "UNUSED"
  /\ plock[np] = None
  /\ killed' = [killed EXCEPT ![np] = FALSE]
  /\ UNCHANGED <<state, parent, chan, plock, wlock, cpu, insched, pc, idx,
                 visit, havekids, child>>

ForkParent(p) ==
  /\ At(p, "fork_parent")
  /\ wlock = None
  /\ parent' = [parent EXCEPT ![child[p]] = p]
  /\ Goto(p, "fork_run")
  /\ UNCHANGED <<state, chan, killed, plock, wlock, cpu, insched, idx, visit,
                 havekids, child>>

ForkRun(p) ==
  /\ At(p, "fork_run")
  /\ plock[child[p]] = None
  /\ state' = [state EXCEPT ![child[p]] = "RUNNABLE"]
  /\ child' = [child EXCEPT ![p] = None]
  /\ Goto(p, "user")
  /\ UNCHANGED <<parent, chan, killed, plock, wlock, cpu, insched, idx, visit,
                 havekids>>

-----------------------------------------------------------------------------
(* exit(), entered by the program, by a fault, or because it was killed.   *)

Exit(p) ==
  /\ At(p, "user")
  /\ Goto(p, IF p = initproc THEN "panicked" ELSE "exit_lock")
  /\ UNCHANGED <<state, parent, chan, killed, plock, wlock, cpu, insched, idx,
                 visit, havekids, child>>

\* panic("init exiting") ends in for(;;) on init's CPU; the others go on.
PanicLoop ==
  /\ At(initproc, "panicked")
  /\ UNCHANGED vars

ExitUnlocked(p) ==
  /\ At(p, "exit_lock")
  /\ idx' = [idx EXCEPT ![p] = 1]
  /\ Goto(p, "reparent")
  /\ UNCHANGED <<state, parent, chan, killed, plock, wlock, cpu, insched,
                 visit, havekids, child>>

ExitLock(p) ==
  /\ At(p, "exit_lock")
  /\ wlock = None
  /\ wlock' = p
  /\ idx' = [idx EXCEPT ![p] = 1]
  /\ Goto(p, "reparent")
  /\ UNCHANGED <<state, parent, chan, killed, plock, cpu, insched, visit,
                 havekids, child>>

\* One iteration of reparent(): give child idx to init, then wakeup(init).
Reparent(p) ==
  /\ At(p, "reparent")
  /\ IF idx[p] > LastSlot
     THEN /\ Goto(p, "exit_wake")
          /\ visit' = [visit EXCEPT ![p] = 1]
          /\ UNCHANGED <<parent, idx>>
     ELSE IF parent[idx[p]] = p
     THEN /\ parent' = [parent EXCEPT ![idx[p]] = initproc]
          /\ Goto(p, "reparent_wake")
          /\ visit' = [visit EXCEPT ![p] = 1]
          /\ UNCHANGED idx
     ELSE /\ idx' = [idx EXCEPT ![p] = @ + 1]
          /\ UNCHANGED <<parent, pc, visit>>
  /\ UNCHANGED <<state, chan, killed, plock, wlock, cpu, insched, havekids,
                 child>>

\* One iteration of wakeup(ch), called by p, on slot q.
Wakeup(p, q, ch) ==
  /\ p # q => plock[q] = None
  /\ state' = IF p # q /\ state[q] = "SLEEPING" /\ chan[q] = ch
              THEN [state EXCEPT ![q] = "RUNNABLE"] ELSE state
  /\ visit' = [visit EXCEPT ![p] = @ + 1]

ReparentWake(p) ==
  /\ At(p, "reparent_wake")
  /\ IF visit[p] <= NPROC
     THEN Wakeup(p, visit[p], initproc) /\ UNCHANGED <<pc, idx>>
     ELSE /\ idx' = [idx EXCEPT ![p] = @ + 1]
          /\ Goto(p, "reparent")
          /\ UNCHANGED <<state, visit>>
  /\ UNCHANGED <<parent, chan, killed, plock, wlock, cpu, insched, havekids,
                 child>>

ExitWake(p) ==
  /\ At(p, "exit_wake")
  /\ IF visit[p] <= NPROC
     THEN Wakeup(p, visit[p], parent[p]) /\ UNCHANGED pc
     ELSE Goto(p, "exit_zombie") /\ UNCHANGED <<state, visit>>
  /\ UNCHANGED <<parent, chan, killed, plock, wlock, cpu, insched, idx,
                 havekids, child>>

\* acquire(&p->lock), ZOMBIE, release(&wait_lock), into sched().
ExitZombie(p) ==
  /\ At(p, "exit_zombie")
  /\ plock[p] = None
  /\ plock' = [plock EXCEPT ![p] = p]
  /\ state' = [state EXCEPT ![p] = "ZOMBIE"]
  /\ wlock' = None
  /\ insched' = [insched EXCEPT ![p] = TRUE]
  /\ idx' = [idx EXCEPT ![p] = 0]
  /\ visit' = [visit EXCEPT ![p] = 0]
  /\ Goto(p, "exited")
  /\ UNCHANGED <<parent, chan, killed, cpu, havekids, child>>

-----------------------------------------------------------------------------
(* wait() and the sleep() it calls.                                        *)

Wait(p) ==
  /\ At(p, "user")
  /\ ~killed[p]
  /\ Goto(p, "wait_lock")
  /\ UNCHANGED <<state, parent, chan, killed, plock, wlock, cpu, insched, idx,
                 visit, havekids, child>>

\* acquire(&wait_lock), first thing in wait() and last thing in sleep().
WaitLock(p) ==
  /\ At(p, "wait_lock") \/ At(p, "relock")
  /\ wlock = None
  /\ wlock' = p
  /\ idx' = [idx EXCEPT ![p] = 1]
  /\ havekids' = [havekids EXCEPT ![p] = FALSE]
  /\ Goto(p, "wait_scan")
  /\ UNCHANGED <<state, parent, chan, killed, plock, cpu, insched, visit,
                 child>>

\* wait() takes pp->lock before it looks at pp->state.
ChildVisibleRacy(pp) == TRUE
ChildVisible(pp)     == plock[pp] = None

WaitScan(p) ==
  LET pp == idx[p] IN
  /\ At(p, "wait_scan")
  /\ pp <= LastSlot
  /\ parent[pp] = p => ChildVisible(pp) /\ state[pp] # "ZOMBIE"
  /\ havekids' = [havekids EXCEPT ![p] = @ \/ parent[pp] = p]
  /\ idx' = [idx EXCEPT ![p] = @ + 1]
  /\ UNCHANGED <<state, parent, chan, killed, plock, wlock, cpu, insched, pc,
                 visit, child>>

\* freeproc(pp), release both locks, return the child's pid.
WaitReap(p) ==
  LET pp == idx[p] IN
  /\ At(p, "wait_scan")
  /\ pp <= LastSlot
  /\ parent[pp] = p
  /\ ChildVisible(pp)
  /\ state[pp] = "ZOMBIE"
  /\ state' = [state EXCEPT ![pp] = "UNUSED"]
  /\ parent' = ClearParent(pp)
  /\ chan' = [chan EXCEPT ![pp] = None]
  /\ killed' = [killed EXCEPT ![pp] = FALSE]
  /\ wlock' = None
  /\ idx' = [idx EXCEPT ![p] = 0]
  /\ havekids' = [havekids EXCEPT ![p] = FALSE]
  /\ pc' = [pc EXCEPT ![p] = "user", ![pp] = "user"]
  /\ UNCHANGED <<plock, cpu, insched, visit, child>>

\* copyout() of the status fails.  init passes no address (init.c:42).
WaitCopyoutFails(p) ==
  LET pp == idx[p] IN
  /\ At(p, "wait_scan")
  /\ p # initproc
  /\ pp <= LastSlot
  /\ parent[pp] = p
  /\ ChildVisible(pp)
  /\ state[pp] = "ZOMBIE"
  /\ wlock' = None
  /\ idx' = [idx EXCEPT ![p] = 0]
  /\ havekids' = [havekids EXCEPT ![p] = FALSE]
  /\ Goto(p, "user")
  /\ UNCHANGED <<state, parent, chan, killed, plock, cpu, insched, visit,
                 child>>

\* After the scan: give up, or go to sleep.  killed(p) takes p->lock.
WaitCheckSpins(p) ==
  /\ At(p, "wait_scan")
  /\ idx[p] > LastSlot
  /\ plock[p] = None
  /\ IF ~havekids[p] \/ killed[p]
     THEN wlock' = None /\ Goto(p, "user")
          /\ idx' = [idx EXCEPT ![p] = 0]
     ELSE idx' = [idx EXCEPT ![p] = 1] /\ UNCHANGED <<wlock, pc>>
  /\ havekids' = [havekids EXCEPT ![p] = FALSE]
  /\ UNCHANGED <<state, parent, chan, killed, plock, cpu, insched, visit,
                 child>>

WaitCheck(p) ==
  /\ At(p, "wait_scan")
  /\ idx[p] > LastSlot
  /\ plock[p] = None
  /\ IF ~havekids[p] \/ killed[p]
     THEN wlock' = None /\ Goto(p, "user")
     ELSE Goto(p, "sleep") /\ UNCHANGED wlock
  /\ idx' = [idx EXCEPT ![p] = 0]
  /\ havekids' = [havekids EXCEPT ![p] = FALSE]
  /\ UNCHANGED <<state, parent, chan, killed, plock, cpu, insched, visit,
                 child>>

\* sleep(p, &wait_lock): acquire(&p->lock) while wait_lock is still held.
SleepLock(p) ==
  /\ At(p, "sleep")
  /\ plock[p] = None
  /\ plock' = [plock EXCEPT ![p] = p]
  /\ Goto(p, "sleep_locked")
  /\ UNCHANGED <<state, parent, chan, killed, wlock, cpu, insched, idx, visit,
                 havekids, child>>

\* release(lk), set chan and state, into sched().
SleepKeepsLock(p) ==
  /\ At(p, "sleep_locked")
  /\ chan' = [chan EXCEPT ![p] = p]
  /\ state' = [state EXCEPT ![p] = "SLEEPING"]
  /\ insched' = [insched EXCEPT ![p] = TRUE]
  /\ Goto(p, "sleeping")
  /\ UNCHANGED <<parent, killed, plock, wlock, cpu, idx, visit, havekids,
                 child>>

Sleep(p) ==
  /\ At(p, "sleep_locked")
  /\ wlock' = None
  /\ chan' = [chan EXCEPT ![p] = p]
  /\ state' = [state EXCEPT ![p] = "SLEEPING"]
  /\ insched' = [insched EXCEPT ![p] = TRUE]
  /\ Goto(p, "sleeping")
  /\ UNCHANGED <<parent, killed, plock, cpu, idx, visit, havekids, child>>

-----------------------------------------------------------------------------
(* kill(), reaching slot p: any process, or an UNUSED slot through pid 0.  *)

Kill(q, p) ==
  /\ At(q, "user")
  /\ ~killed[q]
  /\ plock[p] = None
  /\ killed' = [killed EXCEPT ![p] = TRUE]
  /\ state' = IF state[p] = "SLEEPING" THEN [state EXCEPT ![p] = "RUNNABLE"]
                                       ELSE state
  /\ UNCHANGED <<parent, chan, plock, wlock, cpu, insched, pc, idx, visit,
                 havekids, child>>

-----------------------------------------------------------------------------
(* yield(), sched() and scheduler().                                       *)

\* A timer interrupt, in user code or in the kernel with no lock held.
\* usertrap() makes a killed process exit before it would yield, and
\* acquire() turns interrupts off before it spins on a busy lock.
Yield(p) ==
  /\ Running(p)
  /\ pc[p] = "user" => ~killed[p]
  /\ pc[p] \in {"fork_parent", "wait_lock", "relock", "exit_lock"}
       => wlock = None
  /\ pc[p] \in {"user", "fork_parent", "fork_run", "wait_lock", "relock",
                "exit_lock"}
  /\ plock[p] = None
  /\ plock' = [plock EXCEPT ![p] = p]
  /\ state' = [state EXCEPT ![p] = "RUNNABLE"]
  /\ insched' = [insched EXCEPT ![p] = TRUE]
  /\ UNCHANGED <<parent, chan, killed, wlock, cpu, pc, idx, visit, havekids,
                 child>>

\* swtch() to the scheduler, which clears c->proc and releases p->lock.
SwtchOut(c) ==
  LET p == cpu[c] IN
  /\ p # None
  /\ insched[p]
  /\ state[p] # "RUNNING"
  /\ cpu' = [cpu EXCEPT ![c] = None]
  /\ plock' = [plock EXCEPT ![p] = None]
  /\ UNCHANGED <<state, parent, chan, killed, wlock, insched, pc, idx, visit,
                 havekids, child>>

\* scheduler() takes p->lock before it looks at p->state.
SchedulableRacy(p) == state[p] = "RUNNABLE"
Schedulable(p)     == state[p] = "RUNNABLE" /\ plock[p] = None

\* scheduler() swtches to p, which now owns its lock.
Schedule(c, p) ==
  /\ cpu[c] = None
  /\ Schedulable(p)
  /\ plock' = [plock EXCEPT ![p] = p]
  /\ state' = [state EXCEPT ![p] = "RUNNING"]
  /\ cpu' = [cpu EXCEPT ![c] = p]
  /\ UNCHANGED <<parent, chan, killed, wlock, insched, pc, idx, visit,
                 havekids, child>>

\* sched() returns in yield() or sleep(), or forkret() starts.
SchedReturn(p) ==
  /\ OnCPU(p)
  /\ insched[p]
  /\ state[p] = "RUNNING"
  /\ plock' = [plock EXCEPT ![p] = None]
  /\ insched' = [insched EXCEPT ![p] = FALSE]
  /\ IF pc[p] = "sleeping"
     THEN chan' = [chan EXCEPT ![p] = None] /\ Goto(p, "relock")
     ELSE UNCHANGED <<chan, pc>>
  /\ UNCHANGED <<state, parent, killed, wlock, cpu, idx, visit, havekids,
                 child>>

-----------------------------------------------------------------------------
\* Steps a process takes on its own once it is in the kernel.
KernelStep(p) ==
  \/ ForkParent(p) \/ ForkRun(p)
  \/ ExitLock(p) \/ Reparent(p) \/ ReparentWake(p) \/ ExitWake(p)
  \/ ExitZombie(p)
  \/ WaitLock(p) \/ WaitScan(p) \/ WaitReap(p) \/ WaitCopyoutFails(p)
  \/ WaitCheck(p) \/ SleepLock(p) \/ Sleep(p)

Next ==
  \/ \E p \in Procs :
       \/ KernelStep(p) \/ SchedReturn(p) \/ Exit(p) \/ Wait(p) \/ Yield(p)
       \/ \E q \in Procs : Fork(p, q) \/ ForkFails(p, q) \/ Kill(p, q)
  \/ PanicLoop
  \/ \E c \in CPUs : SwtchOut(c) \/ \E p \in Procs : Schedule(c, p)

Spec == Init /\ [][Next]_vars

\* A step that a process takes without its program deciding to: one inside
\* the kernel, the exit() that usertrap() makes a killed process call, and
\* the wait() that init's program calls in a loop (init.c:42).
Progress(p) ==
  \/ KernelStep(p)
  \/ killed[p] /\ Exit(p)
  \/ p = initproc /\ Wait(p)

\* Timer interrupts make processes yield, every RUNNABLE process is found by
\* some scheduler() again and again, and once running it gets on; a spin-lock
\* is not withheld from a waiter for ever.
Fairness ==
  /\ \A p \in Procs : /\ SF_vars(Progress(p))
                      /\ WF_vars(SchedReturn(p))
                      /\ SF_vars(\E c \in CPUs : Schedule(c, p))
  /\ SF_vars(\E p \in Procs : Yield(p))
  /\ \A c \in CPUs : WF_vars(SwtchOut(c))

FairSpec == Spec /\ Fairness

\* The part of it that a process inside a critical section relies on: it
\* keeps its CPU, and the other CPUs finish their switches.
LockFairness ==
  /\ \A p \in Procs : SF_vars(KernelStep(p)) /\ WF_vars(SchedReturn(p))
  /\ \A c \in CPUs : WF_vars(SwtchOut(c))

LockSpec == Spec /\ LockFairness

-----------------------------------------------------------------------------
(* Properties.                                                             *)

\* Every variable keeps its type, and an UNUSED slot is blank, so that the
\* next process in it inherits neither a parent nor a sleep channel.
TypeOK ==
  /\ state \in [Procs -> PStates]
  /\ parent \in [Procs -> Procs \cup {None}]
  /\ chan \in [Procs -> Procs \cup {None}]
  /\ killed \in [Procs -> BOOLEAN]
  /\ plock \in [Procs -> Procs \cup {None}]
  /\ wlock \in Procs \cup {None}
  /\ cpu \in [CPUs -> Procs \cup {None}]
  /\ insched \in [Procs -> BOOLEAN]
  /\ pc \in [Procs -> PCs]
  /\ idx \in [Procs -> Indices]
  /\ visit \in [Procs -> Indices]
  /\ havekids \in [Procs -> BOOLEAN]
  /\ child \in [Procs -> Procs \cup {None}]
  /\ \A p \in Procs : state[p] = "UNUSED" => parent[p] = None /\ chan[p] = None

\* No parent sleeps in wait() while a child of its is a zombie, once the
\* exiting process has released wait_lock: exit()'s wakeup cannot fall
\* between wait()'s scan and its sleep(), and reparent() wakes init for the
\* zombies it inherits.
NoMissedExit ==
  wlock = None =>
    \A p, q \in Procs : ~ /\ parent[q] = p /\ state[q] = "ZOMBIE"
                          /\ state[p] = "SLEEPING" /\ pc[p] = "sleeping"

\* Outside exit()'s critical section every process that has started, except
\* init, has a parent that has started and has not exited: somebody can
\* still wait() for it.
ParentIsAlive ==
  wlock = None =>
    \A p \in Procs \ {initproc} :
      state[p] \notin {"UNUSED", "USED"} =>
        /\ parent[p] # None
        /\ state[parent[p]] \notin {"UNUSED", "USED", "ZOMBIE"}

\* No two CPUs run on one kernel stack: a process is not scheduled before
\* the CPU it ran on has switched away from it.
OneStackOneCPU ==
  \A c, d \in CPUs : c # d /\ cpu[c] # None => cpu[c] # cpu[d]

\* wait() frees no process whose kernel stack a CPU is still using ("make
\* sure the child isn't still in exit() or swtch()", proc.c:405).
FreedIsOffCPU ==
  \A p \in Procs : state[p] \in {"UNUSED", "USED"} => ~OnCPU(p)

\* sched() is entered, and left, holding p->lock and no other lock: its
\* panics "sched p->lock" and "sched locks" cannot happen.
SchedHoldsOnlyOwnLock ==
  \A p \in Procs : OnCPU(p) /\ insched[p] =>
    /\ plock[p] = p
    /\ wlock # p
    /\ \A q \in Procs \ {p} : plock[q] # p

\* A process starts its life not killed: only a kill() that names its pid
\* kills it.
BornNotKilled ==
  [][\A p \in Procs : state[p] = "UNUSED" /\ state'[p] = "USED"
                         => ~killed'[p]]_vars

\* wait_lock and the locks taken inside it are always released again.
WaitLockReleased == wlock # None ~> wlock = None

InitHasZombie ==
  \E p \in Procs : state[p] = "ZOMBIE" /\ parent[p] = initproc

\* As long as init has zombie children, its own or inherited, it goes on
\* reaping them, unless init itself is killed or exits.  (No single zombie
\* is promised its turn: wait() scans from the first slot each time, so a
\* stream of exits in lower slots can keep it from a higher one.)
InitKeepsReaping ==
  <>[](InitHasZombie /\ pc[initproc] # "panicked")
    => []<><<WaitReap(initproc)>>_vars

\* Every slot of proc[] is sound: variables keep their types, an UNUSED slot
\* is blank, and whoever is not UNUSED has a parent that can wait() for it.
ProcessTree == TypeOK /\ ParentIsAlive

\* A kernel stack belongs to one CPU at a time, also across swtch() and
\* freeproc(), and it is switched with no lock but its own.
StacksAndLocks == OneStackOneCPU /\ FreedIsOffCPU /\ SchedHoldsOnlyOwnLock
=============================================================================
