---------------------------- MODULE MCCallGraph ----------------------------
(* Small instances of CallGraph for TLC. *)
EXTENDS CallGraph

CONSTANTS a, b, c   \* services

(* a calls b and c, b and c call each other. *)
TwoCallees == {<<b, a>>, <<c, a>>, <<c, b>>, <<b, c>>}
(* ... and b calls itself. *)
SelfCall == {<<b, a>>, <<c, a>>, <<b, b>>, <<b, c>>, <<c, b>>}
=============================================================================
