--------------------------- MODULE MCGraphTracking ---------------------------
(* Small instances of GraphTracking for TLC. *)
EXTENDS GraphTracking

CONSTANTS k1, k2,   \* keys
          r1, r2    \* streams

(* r1 asks for both services; r2 has the same caller name and asks for     *)
(* one of them twice.                                                      *)
SharedKeys == [st \in Streams |-> IF st = r1 THEN <<k1, k2>> ELSE <<k2, k2>>]
=============================================================================
