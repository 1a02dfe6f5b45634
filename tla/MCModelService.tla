--------------------------- MODULE MCModelService ---------------------------
(* Small instances of ModelService for TLC. *)
EXTENDS ModelService

CONSTANTS o1, o2, o3,   \* observers
          x, y          \* addresses

(* o3 comes back after o1, from the same address. *)
TwoAddrs == [o \in Observers |-> IF o = o2 THEN y ELSE x]
=============================================================================
