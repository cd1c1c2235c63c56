---------------------------- MODULE BlockDevice ----------------------------
(***************************************************************************)
(* What the disk driver promises its caller, the buffer cache: a call of   *)
(* virtio_disk_rw(b, write) transfers its own block exactly once, between  *)
(* the call and the return, and touches nothing else.                      *)
(***************************************************************************)
CONSTANTS Bufs, Vals, Junk

VARIABLES data,      \* contents of each buffer
          platter,   \* contents of the disk block of each buffer
          call       \* the state of the call on each buffer

dvars == <<data, platter, call>>

Init ==
  /\ data = [b \in Bufs |-> Junk]
  /\ platter \in [Bufs -> Vals]
  /\ call = [b \in Bufs |-> "none"]

\* The caller has the buffer locked.  It reads into a buffer that is not
\* valid; it has filled the one it writes.
Start(b, v, write) ==
  /\ call[b] = "none"
  /\ data' = [data EXCEPT ![b] = IF write THEN v ELSE Junk]
  /\ call' = [call EXCEPT ![b] = IF write THEN "write" ELSE "read"]
  /\ UNCHANGED platter

Transfer(b) ==
  /\ \/ /\ call[b] = "write"
        /\ platter' = [platter EXCEPT ![b] = data[b]]
        /\ UNCHANGED data
     \/ /\ call[b] = "read"
        /\ data' = [data EXCEPT ![b] = platter[b]]
        /\ UNCHANGED platter
  /\ call' = [call EXCEPT ![b] = "done"]

Return(b) ==
  /\ call[b] = "done"
  /\ call' = [call EXCEPT ![b] = "none"]
  /\ UNCHANGED <<data, platter>>

Next == \E b \in Bufs :
  \/ \E v \in Vals, write \in BOOLEAN : Start(b, v, write)
  \/ Transfer(b) \/ Return(b)

Spec == Init /\ [][Next]_dvars
=============================================================================
