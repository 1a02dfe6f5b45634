--------------------------- MODULE MCEndpointsHub ---------------------------
(* Small instances of EndpointsHub for TLC. *)
EXTENDS EndpointsHub

CONSTANTS a,        \* a service
          i1, i2,   \* instances
          r1, r2,   \* streams
          p, q,     \* ports
          x, y      \* addresses

SpecA == [svc |-> a, port |-> p]

OnePort == [i \in Instances |-> p]

OwnAddrs == [st \in Streams |-> IF st = r1 THEN x ELSE y]
SameAddr == [st \in Streams |-> x]

(* One service, every stream asks for it. *)
OneSpec == [st \in Streams |-> <<SpecA>>]
(* Both ask for one spec, and r2 before that for another port name of the  *)
(* same service.                                                           *)
SpecQ == [svc |-> a, port |-> q]
TwoPorts == [st \in Streams |-> IF st = r1 THEN <<SpecA>> ELSE <<SpecQ, SpecA>>]
PortOfEach == [i \in Instances |-> IF i = i1 THEN p ELSE q]
=============================================================================
