------------------------------- MODULE MCProc -------------------------------
(* The process table instantiated for TLC.                                 *)
EXTENDS Proc
=============================================================================
