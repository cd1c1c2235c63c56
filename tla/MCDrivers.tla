----------------------------- MODULE MCDrivers -----------------------------
(***************************************************************************)
(* The disk driver and the console driver instantiated for TLC, side by    *)
(* side: they share no state, and in a behaviour only one has work to do.  *)
(***************************************************************************)
EXTENDS Virtio, Console

\* Nothing; typing and reading; writing, with some echo.
Quiet == [type |-> 0, read |-> 0, write |-> 0]
MCLoads ==
  {Quiet, [type |-> 4, read |-> 2, write |-> 0],
   [type |-> 2, read |-> 0, write |-> 3]}

DriversInit == Init /\ ConsoleInit /\ (calls = 0 <=> load # Quiet)

DriversNext ==
  \/ Next /\ UNCHANGED cvars
  \/ ConsoleNext /\ UNCHANGED vars

DriversSpec ==
  /\ DriversInit /\ [][DriversNext]_<<vars, cvars>>
  /\ Fairness /\ ConsoleFairness

=============================================================================
