------------------------------- MODULE Traps -------------------------------
(***************************************************************************)
(* Spin-locks, interrupts and context switches (kernel/spinlock.c,         *)
(* kernel/trap.c, and sched(), yield(), sleep() and scheduler() of         *)
(* kernel/proc.c): who has interrupts off, and for how long.               *)
(*                                                                         *)
(* A thread is a process's kernel thread or a CPU's scheduler.  Its stack  *)
(* is a sequence of frames, the innermost first: a system call, a trap     *)
(* from user space or from the kernel, the scheduler's loop.  A frame is   *)
(* what it has left to do: operations on locks, and switches.  Interrupts  *)
(* come whenever the CPU has them on, also between the two steps of        *)
(* push_off() that read and clear the bit.  What runs with interrupts off  *)
(* and touches only this CPU is one step.                                  *)
(***************************************************************************)
EXTENDS Integers, Sequences, FiniteSets, SequencesExt

CONSTANTS CPUs, Threads,
          Machines,   \* [cpus, procs]: CPUs that are up, processes there are
          dev,        \* the lock of a device or of ticks
          None

Locks == Threads \cup {dev}    \* a process's name is also its p->lock
Stacks == Threads \cup CPUs

VARIABLES cpu,     \* sstatus.SIE, noff, intena, and the thread that runs
          locked,  \* the CPU that holds each lock
          state,   \* p->state
          stack,   \* frames of each thread; none in user space
          panic    \* whether some check of the code failed

tvars == <<cpu, locked, state, stack, panic>>

Op(op, x) == [op |-> op, x |-> x]
Frame(kind, ops) == [kind |-> kind, ops |-> ops, mid |-> "", old |-> FALSE,
                     intena |-> FALSE]

-----------------------------------------------------------------------------
(* What frames do.                                                         *)

Critical(l, ops) == <<Op("acquire", l)>> \o ops \o <<Op("release", l)>>

\* yield() of p.
Yield(p) == Critical(p, <<Op("yield", p)>>)

\* sleep(chan, dev), called with dev held.
SleepOn(p) == <<Op("acquire", dev), Op("acquire", p), Op("release", dev),
                Op("sleep", p), Op("release", p), Op("acquire", dev),
                Op("release", dev)>>

\* wakeup() of everyone but t itself.
Wakeup(t) == FoldSeq(LAMBDA q, ops : <<Op("wake", q)>> \o ops, <<>>,
                     SetToSeq(Threads \ {t}))

\* devintr(), and yield() if it was the timer and a process was running.
Handler(t, timer) ==
  Critical(dev, Wakeup(t)) \o (IF timer /\ t \in Threads THEN Yield(t)
                               ELSE <<>>)

\* A round of scheduler(), after intr_on().
Round ==
  FoldSeq(LAMBDA q, ops : Critical(q, <<Op("pick", q)>>) \o ops, <<>>,
          SetToSeq(Threads))

\* All processes are new and start in forkret().
Init ==
  \E m \in Machines :
  /\ cpu = [c \in m.cpus |-> [sie |-> FALSE, noff |-> 0, intena |-> FALSE,
                              run |-> c]]
  /\ locked = [l \in Locks |-> None]
  /\ state = [p \in Threads |-> IF p \in m.procs THEN "RUNNABLE"
                                ELSE "UNUSED"]
  /\ stack = [t \in Stacks |-> IF t \in CPUs THEN <<Frame("sched", <<>>)>>
                ELSE <<Frame("forkret", <<Op("release", t)>>)>>]
  /\ panic = FALSE

Me(c)  == cpu[c].run
InKernel(c) == stack[Me(c)] # <<>>
Top(c) == stack[Me(c)][1]
At(c, op) == InKernel(c) /\ Top(c).ops # <<>> /\ Top(c).ops[1].op = op
Arg(c) == Top(c).ops[1].x

\* The innermost frame is done with its first operation.
Done(c) == stack' = [stack EXCEPT ![Me(c)][1].ops = Tail(@),
                                  ![Me(c)][1].mid = ""]

-----------------------------------------------------------------------------
(* spinlock.c                                                              *)

\* acquire() calls push_off(), which reads the interrupt bit ...
IntrGet(c) ==
  /\ At(c, "acquire") /\ Top(c).mid = "" /\ cpu[c].sie
  /\ stack' = [stack EXCEPT ![Me(c)][1].mid = "push",
                            ![Me(c)][1].old = cpu[c].sie]
  /\ UNCHANGED <<cpu, locked, state, panic>>

\* ... and then clears it.  Only the outermost saves what it was.
PushOffInner(c, old) ==
  [cpu EXCEPT ![c].sie = FALSE, ![c].noff = @ + 1, ![c].intena = old]
PushOff(c, old) ==
  [cpu EXCEPT ![c].sie = FALSE, ![c].noff = @ + 1,
              ![c].intena = IF cpu[c].noff = 0 THEN old ELSE @]

IntrOff(c) ==
  /\ At(c, "acquire") /\ Top(c).mid = "push"
  /\ cpu' = PushOff(c, Top(c).old)
  /\ stack' = [stack EXCEPT ![Me(c)][1].mid = "spin",
                            ![Me(c)][1].old = FALSE]
  /\ UNCHANGED <<locked, state, panic>>

\* The rest of acquire(), or all of it if interrupts are off already.
Acquire(c) ==
  /\ At(c, "acquire")
  /\ \/ Top(c).mid = "spin" /\ UNCHANGED cpu
     \/ Top(c).mid = "" /\ ~cpu[c].sie /\ cpu' = PushOff(c, FALSE)
  /\ locked[Arg(c)] \in {None, c}
  /\ panic' = (panic \/ locked[Arg(c)] = c)
  /\ locked' = [locked EXCEPT ![Arg(c)] = c]
  /\ Done(c)
  /\ UNCHANGED state

\* pop_off(): interrupts come back with the outermost.
PopOffAlways(c) == [cpu EXCEPT ![c].noff = @ - 1, ![c].sie = cpu[c].intena]
PopOff(c) ==
  [cpu EXCEPT ![c].noff = @ - 1,
              ![c].sie = (cpu[c].noff = 1 /\ cpu[c].intena)]

Release(c) ==
  /\ At(c, "release")
  /\ panic' = (panic \/ locked[Arg(c)] # c \/ cpu[c].sie \/ cpu[c].noff < 1)
  /\ locked' = [locked EXCEPT ![Arg(c)] = None]
  /\ cpu' = PopOff(c)
  /\ Done(c)
  /\ UNCHANGED state

-----------------------------------------------------------------------------
(* proc.c                                                                  *)

\* sched(): to the scheduler of this CPU.
Sched(c) ==
  LET p == Me(c) IN
  /\ At(c, "yield") \/ At(c, "sleep")
  /\ state' = [state EXCEPT ![p] =
                 IF At(c, "yield") THEN "RUNNABLE" ELSE "SLEEPING"]
  /\ panic' = (panic \/ locked[p] # c \/ cpu[c].noff # 1 \/ cpu[c].sie)
  /\ stack' = [stack EXCEPT ![p][1].ops = Tail(@),
                            ![p][1].intena = cpu[c].intena]
  /\ cpu' = [cpu EXCEPT ![c].run = c]
  /\ UNCHANGED locked

\* swtch() to a process: back in sched(), intena is the thread's own again.
SavedNowhere(c, p) == cpu[c].intena
Saved(c, p) == IF stack[p][1].kind = "forkret" THEN cpu[c].intena
               ELSE stack[p][1].intena

Pick(c) ==
  LET p == Arg(c) IN
  /\ At(c, "pick")
  /\ IF state[p] = "RUNNABLE"
     THEN /\ state' = [state EXCEPT ![p] = "RUNNING"]
          /\ cpu' = [cpu EXCEPT ![c].run = p, ![c].intena = Saved(c, p)]
          /\ stack' = [stack EXCEPT ![c][1].ops = Tail(@),
                                    ![p][1].intena = FALSE]
     ELSE Done(c) /\ UNCHANGED <<state, cpu>>
  /\ UNCHANGED <<locked, panic>>

\* wakeup() for one process, under its lock; interrupts are off.
Wake(c) ==
  /\ At(c, "wake")
  /\ locked[Arg(c)] \in {None, c}
  /\ panic' = (panic \/ locked[Arg(c)] = c)
  /\ state' = [state EXCEPT ![Arg(c)] = IF @ = "SLEEPING" THEN "RUNNABLE"
                                        ELSE @]
  /\ Done(c)
  /\ UNCHANGED <<cpu, locked>>

\* The scheduler's next round: intr_on(), then every process.
RescanMasked(c) ==
  /\ InKernel(c) /\ Top(c).kind = "sched" /\ Top(c).ops = <<>>
  /\ stack' = [stack EXCEPT ![c][1].ops = Round]
  /\ UNCHANGED <<cpu, locked, state, panic>>
Rescan(c) ==
  /\ InKernel(c) /\ Top(c).kind = "sched" /\ Top(c).ops = <<>>
  /\ stack' = [stack EXCEPT ![c][1].ops = Round]
  /\ cpu' = [cpu EXCEPT ![c].sie = TRUE]
  /\ UNCHANGED <<locked, state, panic>>

-----------------------------------------------------------------------------
(* trap.c                                                                  *)

\* usertrap() for a system call, which turns interrupts on, then syscall().
Syscall(c) ==
  /\ ~InKernel(c)
  /\ \E ops \in {Critical(dev, <<>>), SleepOn(Me(c))} :
       stack' = [stack EXCEPT ![Me(c)] = <<Frame("syscall", ops)>>]
  /\ UNCHANGED <<cpu, locked, state, panic>>

\* A device or the timer interrupts user space (usertrap()) or the kernel
\* (kerneltrap()); the hardware turns interrupts off.
Interrupt(c) ==
  /\ cpu[c].sie
  /\ \E timer \in BOOLEAN :
       stack' = [stack EXCEPT ![Me(c)] =
                   <<Frame(IF InKernel(c) THEN "kerneltrap" ELSE "usertrap",
                           Handler(Me(c), timer))>> \o @]
  /\ cpu' = [cpu EXCEPT ![c].sie = FALSE]
  /\ UNCHANGED <<locked, state, panic>>

\* usertrapret(), or the end of kerneltrap(), which restores sstatus: what
\* was interrupted had interrupts on.
TrapReturn(c) ==
  /\ InKernel(c) /\ Top(c).ops = <<>> /\ Top(c).kind # "sched"
  /\ stack' = [stack EXCEPT ![Me(c)] = Tail(@)]
  /\ cpu' = [cpu EXCEPT ![c].sie = TRUE]
  /\ UNCHANGED <<locked, state, panic>>

-----------------------------------------------------------------------------
Step(c) ==
  \/ IntrGet(c) \/ IntrOff(c) \/ Acquire(c) \/ Release(c)
  \/ Sched(c) \/ Pick(c) \/ Wake(c) \/ Rescan(c)
  \/ TrapReturn(c)

Next == \E c \in DOMAIN cpu : Step(c) \/ Syscall(c) \/ Interrupt(c)

Spec == Init /\ [][Next]_tvars

\* A CPU goes on with what it does in the kernel.  One that spins gets the
\* lock if it is free again and again.
Fairness == \A c \in CPUs : SF_tvars(c \in DOMAIN cpu /\ Step(c))

FairSpec == Spec /\ Fairness

-----------------------------------------------------------------------------
(* Properties.                                                             *)

\* Every variable keeps its type; traps do not pile up on a stack.
TypeOK ==
  /\ \A c \in DOMAIN cpu :
       /\ cpu[c].noff \in 0..Cardinality(Locks)
       /\ cpu[c].run \in Threads \cup {c}
       /\ {cpu[c].sie, cpu[c].intena} \subseteq BOOLEAN
  /\ locked \in [Locks -> CPUs \cup {None}]
  /\ state \in [Threads -> {"UNUSED", "RUNNABLE", "RUNNING", "SLEEPING"}]
  /\ \A t \in Stacks : Len(stack[t]) <= 2

\* No check of acquire(), release(), pop_off() or sched() fails: in
\* particular no interrupt handler waits for a lock its own CPU holds.
NoLockPanic == ~panic

\* push_off() and pop_off() leave interrupts as they were, and sched() keeps
\* that for the thread whatever ran in between and wherever it comes back: a
\* system call without a lock can be interrupted, a trap handler cannot.
InterruptsAsBefore ==
  \A c \in DOMAIN cpu :
    InKernel(c) /\ Me(c) # c /\ cpu[c].noff = 0 =>
      /\ Top(c).kind = "syscall" => cpu[c].sie
      /\ Top(c).kind \in {"usertrap", "kerneltrap"} => ~cpu[c].sie

\* Every CPU has interrupts on again and again, also when all processes
\* sleep and the last one ran with interrupts off.
Interruptible ==
  \A c \in CPUs : []<>(c \in DOMAIN cpu => cpu[c].sie)

\* Locks and interrupts nest: types, no failed check, and interrupts on or
\* off as each thread left them.
InterruptsNest == TypeOK /\ NoLockPanic /\ InterruptsAsBefore
=============================================================================
