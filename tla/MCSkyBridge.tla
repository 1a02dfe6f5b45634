---------------------------- MODULE MCSkyBridge ----------------------------
(* A small instance of SkyBridge for TLC. *)
EXTENDS SkyBridge

CONSTANTS k1, k2   \* keys
=============================================================================
