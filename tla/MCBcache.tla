------------------------------ MODULE MCBcache ------------------------------
(* The buffer cache instantiated for TLC.                                  *)
EXTENDS Bcache, TLC

CONSTANTS p1, p2, p3, b1, b2, b3

\* All three meet on b1; two of them also need the buffers for other blocks.
MCUses == p1 :> {b1, b2} @@ p2 :> {b1, b3} @@ p3 :> {b1}
=============================================================================
