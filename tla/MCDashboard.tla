---------------------------- MODULE MCDashboard ----------------------------
(* A small instance of Dashboard for TLC. *)
EXTENDS Dashboard, TLC

CONSTANTS ann, bob,  \* names
          b1, b2,    \* browsers
          w1, w2,    \* workers
          e          \* an endpoint

(* An administrator, by a request of the largest version, and one who is   *)
(* disabled.                                                               *)
SomeGrants ==
    {[roles |-> {"RoleAdmin"}, disabled |-> FALSE, version |-> MaxInt32],
     [roles |-> {"RoleAdmin"}, disabled |-> TRUE, version |-> 0]}

WorkersAlike == Permutations(Workers) \cup Permutations(Browsers)
=============================================================================
