------------------------------ MODULE MCK8sHub ------------------------------
(* A small instance of K8sHub for TLC. *)
EXTENDS K8sHub

CONSTANTS a,   \* a service
          i1,  \* an instance
          r1,  \* a stream
          p,   \* a port
          x    \* an address

AllToP == [i \in Instances |-> p]
AllFromX == [st \in Streams |-> x]
AskForA == [st \in Streams |-> <<[svc |-> a, port |-> p]>>]
=============================================================================
