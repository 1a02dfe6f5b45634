----------------------------- MODULE Directory -----------------------------
(***************************************************************************)
(* What the hub promises its clients, without a word on how: each of them  *)
(* learns lists of instances that were read from the registry, of services *)
(* it has asked for, with growing ids.  A list may take its time, be lost, *)
(* or reach a client after a newer one.                                    *)
(***************************************************************************)
EXTENDS Integers

CONSTANTS
    Services,
    Specs,      \* a service and a port name
    Instances,
    PortOf,     \* the port name an instance registers under
    Clients,
    Asked       \* per client, the specs it has asked for

VARIABLES
    registry,   \* per service, its instances and how often they changed
    underway,   \* lists read and not forgotten yet
    known       \* per client and spec, the last update the client got

vars == <<registry, underway, known>>

NothingKnown == [id |-> 0]
Wanted == UNION {Asked[c] : c \in Clients}
ServicesOf(c) == {spec.svc : spec \in Asked[c]}

(* The instances of a service that are listed under the port of a spec. *)
List(spec, content) ==
    [spec |-> spec, insts |-> {i \in content.insts : PortOf[i] = spec.port},
     ver |-> content.ver]

Init ==
    /\ registry = [s \in Services |-> [insts |-> {}, ver |-> 0]]
    /\ underway = {}
    /\ known = [c \in Clients |-> [spec \in Specs |-> NothingKnown]]

Change(s) ==
    /\ \E insts \in SUBSET Instances :
            registry' = [registry EXCEPT ![s] = [insts |-> insts, ver |-> @.ver + 1]]
    /\ UNCHANGED <<underway, known>>

(* A service is read, for the specs anybody has asked for. *)
Read(s) ==
    /\ underway' \in SUBSET (underway \cup
            {List(spec, registry[s]) : spec \in {sp \in Wanted : sp.svc = s}})
    /\ UNCHANGED <<registry, known>>

Forget ==
    /\ underway' \in SUBSET underway
    /\ UNCHANGED <<registry, known>>

(* A list is delivered.  Its spec may be another client's, of the same     *)
(* service with another port name.                                         *)
Deliver(c, l) ==
    /\ l.spec.svc \in ServicesOf(c)
    /\ known' = [known EXCEPT ![c][l.spec] =
                    [id |-> known'[c][l.spec].id, spec |-> l.spec, insts |-> l.insts,
                     ver |-> l.ver]]
    /\ known'[c][l.spec].id > known[c][l.spec].id
    /\ underway' \in SUBSET underway
    /\ UNCHANGED registry

Next ==
    \/ \E s \in Services : Change(s) \/ Read(s)
    \/ Forget
    \/ \E c \in Clients, l \in underway : Deliver(c, l)

Spec == Init /\ [][Next]_vars
=============================================================================
