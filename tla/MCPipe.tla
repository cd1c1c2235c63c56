------------------------------- MODULE MCPipe -------------------------------
(* The pipe instantiated for TLC.                                          *)
EXTENDS Pipe, TLC

CONSTANTS w1, w2, r1, r2

\* Either end is shared by two processes.
MCHolders == {{w1, w2, r1}, {w1, r1, r2}}

\* One writer overfills the ring in a call, the others come in between.
MCMaxCount == w1 :> 3 @@ w2 :> 1 @@ r1 :> 2 @@ r2 :> 1
=============================================================================
