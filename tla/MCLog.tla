------------------------------- MODULE MCLog -------------------------------
(* The logging layer instantiated for TLC.                                 *)
EXTENDS LogInv

\* The log never stops: sleepers in begin_op() wake, every commit() ends, and
\* recover_from_log() ends once crashes do.
LogProgress == SleepersWake /\ CommitsEnd /\ RecoveryEnds
=============================================================================
