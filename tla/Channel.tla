------------------------------ MODULE Channel ------------------------------
(***************************************************************************)
(* What a pipe promises: a first-in first-out queue of bytes with a fixed  *)
(* capacity, and two ends that close once and for all.                     *)
(***************************************************************************)
EXTENDS Naturals, Sequences

CONSTANTS Bytes, Capacity

VARIABLES queue, readopen, writeopen

vars == <<queue, readopen, writeopen>>

Init ==
  /\ queue = <<>>
  /\ readopen = TRUE
  /\ writeopen = TRUE

Send(ch) ==
  /\ readopen /\ writeopen
  /\ Len(queue) < Capacity
  /\ queue' = Append(queue, ch)
  /\ UNCHANGED <<readopen, writeopen>>

Receive ==
  /\ readopen
  /\ queue # <<>>
  /\ queue' = Tail(queue)
  /\ UNCHANGED <<readopen, writeopen>>

CloseRead  == readopen /\ readopen' = FALSE /\ UNCHANGED <<queue, writeopen>>
CloseWrite == writeopen /\ writeopen' = FALSE /\ UNCHANGED <<queue, readopen>>

Next == (\E ch \in Bytes : Send(ch)) \/ Receive \/ CloseRead \/ CloseWrite

Spec == Init /\ [][Next]_vars
=============================================================================
