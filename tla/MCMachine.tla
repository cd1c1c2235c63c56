----------------------------- MODULE MCMachine -----------------------------
(***************************************************************************)
(* CPUs and memory instantiated for TLC: page tables and the calls that    *)
(* build them (pages of two bytes, tables with two entries per node),      *)
(* spin-locks with interrupts and context switches, and the user-level     *)
(* allocator.  They share no state, and a behaviour is one of the three.   *)
(***************************************************************************)
EXTENDS Vm

CONSTANTS CPUs, Threads, Machines, dev, None, HDR, MINCORE, TOP, MaxBytes

VARIABLES cpu, locked, state, stack, lockPanic,
          h, used, arena,
          subject   \* which of the three this behaviour is

T == INSTANCE Traps WITH panic <- lockPanic
U == INSTANCE Umalloc

traps == <<cpu, locked, state, stack, lockPanic>>
heap  == <<h, used, arena>>

Seg(va, end, filesz, perm) ==
  [va |-> va, end |-> end, filesz |-> filesz, perm |-> perm]

\* A text and a data segment; segments out of order; an empty segment.
MCPrograms == {<<Seg(0, 2, 2, "text"), Seg(2, 3, 1, "data")>>,
               <<Seg(2, 4, 1, "data"), Seg(0, 1, 1, "text")>>,
               <<Seg(0, 0, 0, "data")>>}

Machine(cpus, procs) == [cpus |-> cpus, procs |-> procs]

\* Two processes on one CPU; one process that moves between two CPUs.
MCMachines ==
  {Machine({c}, Threads) : c \in {CHOOSE c \in CPUs : TRUE}}
    \cup {Machine(CPUs, {p}) : p \in {CHOOSE p \in Threads : TRUE}}

MachineInit ==
  /\ Init /\ T!Init /\ U!Init
  /\ subject \in {"vm", "traps", "heap"}
  /\ subject # "traps" => DOMAIN cpu = CPUs

MachineNext ==
  /\ \/ subject = "vm" /\ Next /\ UNCHANGED <<traps, heap>>
     \/ subject = "traps" /\ T!Next /\ UNCHANGED <<vars, heap>>
     \/ subject = "heap" /\ U!Next /\ UNCHANGED <<vars, traps>>
  /\ UNCHANGED subject

MachineSpec ==
  /\ MachineInit /\ [][MachineNext]_<<vars, traps, heap, subject>>
  /\ subject = "traps" => T!Fairness

-----------------------------------------------------------------------------
(* The costly property of Vm where Vm has steps, and the properties of     *)
(* Traps and Umalloc.                                                      *)

\* copyout(), copyin() and copyinstr() do what a loop over bytes would do.
CopiesBytewise == subject = "vm" => CopyIsBytewise

\* Locks, traps and context switches leave interrupts as they were, and no
\* check of acquire(), release(), pop_off() or sched() fails.
InterruptsNest == T!InterruptsNest

\* Every CPU takes interrupts again and again.
Interruptible == subject = "traps" => T!Interruptible

\* Free and allocated blocks partition what malloc() got from sbrk(), and the
\* free list is circular, in address order and coalesced.
HeapIsSound == U!HeapIsSound

=============================================================================
