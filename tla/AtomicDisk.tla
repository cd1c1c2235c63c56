----------------------------- MODULE AtomicDisk -----------------------------
(***************************************************************************)
(* What the logging layer promises to the file system (kernel/log.c, the  *)
(* comment at its head): the updates of the system calls that run between *)
(* two commits reach the disk together or not at all, and a commit never   *)
(* contains half of a system call.  There is no log, no cache and no       *)
(* header here: only the contents that would survive a crash and the       *)
(* contents that system calls currently see.                               *)
(***************************************************************************)

CONSTANTS Procs,      \* processes that make file-system calls
          Blocks,     \* home disk blocks
          Vals        \* contents a block can have

VARIABLES durable,    \* contents of each block after a crash and a recovery
          current,    \* contents of each block as system calls see it
          active      \* processes between begin_op() and end_op()

vars == <<durable, current, active>>

TypeOK ==
  /\ durable \in [Blocks -> Vals]
  /\ current \in [Blocks -> Vals]
  /\ active \subseteq Procs

Init ==
  /\ durable \in [Blocks -> Vals]
  /\ current = durable
  /\ active = {}

Begin(p) ==
  /\ p \notin active
  /\ active' = active \cup {p}
  /\ UNCHANGED <<durable, current>>

Write(p, b, v) ==
  /\ p \in active
  /\ current' = [current EXCEPT ![b] = v]
  /\ UNCHANGED <<durable, active>>

End(p) ==
  /\ p \in active
  /\ active' = active \ {p}
  /\ UNCHANGED <<durable, current>>

\* Everything written so far becomes durable at once, and only when no
\* system call is half way through its updates.
Commit ==
  /\ active = {}
  /\ durable' = current
  /\ UNCHANGED <<current, active>>

Crash ==
  /\ current' = durable
  /\ active' = {}
  /\ UNCHANGED durable

Next ==
  \/ \E p \in Procs : Begin(p) \/ End(p)
  \/ \E p \in Procs, b \in Blocks, v \in Vals : Write(p, b, v)
  \/ Commit
  \/ Crash

Spec == Init /\ [][Next]_vars
=============================================================================
