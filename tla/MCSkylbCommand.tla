--------------------------- MODULE MCSkylbCommand ---------------------------
(* A small instance of SkylbCommand for TLC. *)
EXTENDS SkylbCommand, TLC

CONSTANTS o1, o2,  \* operators
          s1, s2,  \* services
          p, q     \* port names

(* 2 is h:080, which the listing shows as h:80, the key 1. *)
OddPort == [k \in Keys |-> IF k = 2 THEN 1 ELSE k]

OperatorSymmetry == Permutations(Operators)
=============================================================================
