---------------------------- MODULE MCLoadReport ----------------------------
(* Small instances of LoadReport for TLC. *)
EXTENDS LoadReport

CONSTANTS k1, k2,   \* keys
          e1, e2,   \* endpoints
          r1, r2,   \* streams
          w1, w2    \* weights

OwnEndpoints == [k \in Keys |-> IF k = k1 THEN e1 ELSE e2]

(* A server that comes back with another weight. *)
Restarted == [st \in Streams |-> {[key |-> k1, weight |-> IF st = r1 THEN w1 ELSE w2]}]
(* No fault, every fault, and the combinations properties depend on. *)
FaultMix == {{}, {"overlap", "refused"}, {"late", "refused"}, {"deleted", "lost"}, Faults}
=============================================================================
