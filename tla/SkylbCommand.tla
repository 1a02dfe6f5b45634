---------------------------- MODULE SkylbCommand ----------------------------
(***************************************************************************)
(* skylb-command, the shell operators use to edit the registry in etcd by  *)
(* hand (cmd/skylb-command/cmd/main.go).                                   *)
(*                                                                         *)
(* Several operators run it at once, each with a listing of his own that   *)
(* nothing refreshes, while servers register and their keys expire.  Every *)
(* command is one request to etcd, except the removal of an instance: the  *)
(* key is read, the operator is asked, the key is deleted.                 *)
(*                                                                         *)
(* A key stands for its place among the keys of a directory, in the order  *)
(* of nodeSlice.  An index into a listing is modelled by what it selects.  *)
(***************************************************************************)
EXTENDS Integers, FiniteSets

CONSTANTS
    Operators,      \* running shells
    Services,       \* directories namespace/name
    Keys,           \* host_port as typed by an operator or set by a server
    Parsed,         \* the key an instance's address spells after its port
                    \* went through strconv.Atoi and int32: h:080 is h:80
    Ports,          \* port names
    DefaultPort,    \* defaultPortName
    Garbled,        \* a value json.Unmarshal refuses
    NoService,      \* currentService = nil
    NoKey,          \* no removal to confirm
    ReadsMayFail,   \* whether a Get may return an error
    MaxIndex        \* bound: changes in etcd

ASSUME KeyAssumption ==
    /\ Keys \subseteq Nat
    /\ Parsed \in [Keys -> Keys]
    /\ \A k \in Keys : Parsed[Parsed[k]] = Parsed[k]
ASSUME NameAssumption ==
    /\ DefaultPort \in Ports
    /\ Garbled \notin Ports
    /\ NoService \notin Services
    /\ NoKey \notin Keys
ASSUME BoundAssumption == ReadsMayFail \in BOOLEAN /\ MaxIndex \in Nat

Values == Ports \cup {Garbled}

VARIABLES
    index,          \* etcd's index, counts changes
    dirs,           \* the service directories in etcd
    value,          \* per service and key that is set, its port name
    ttl,            \* the keys set with a TTL
    modified,       \* per service and key, the index of its last change
    pc,             \* per operator: at the prompt, asked to confirm, ...
    services,       \* per operator, the services of his last "ls"
    currentService, \* per operator, the service he has selected
    endpoints,      \* per operator and service, its instances at his last "ls"
    portName,       \* per operator
    target,         \* per operator, the key to delete
    checked,        \* the index when the key to delete was read (history)
    listed          \* per operator and service, index and port name of the
                    \* "ls" its endpoints are from (history)

etcdVars == <<index, dirs, value, ttl, modified>>
listVars == <<services, endpoints, listed>>
askVars == <<target, checked>>
vars == <<index, dirs, value, ttl, modified, pc, services, currentService,
          endpoints, portName, target, checked, listed>>

Entries == Services \X Keys
IsSet(s, k) == <<s, k>> \in DOMAIN value
Current(op) == currentService[op]
NotListed == [at |-> 0, port |-> DefaultPort]

Init ==
    /\ index = 0
    /\ dirs = {}
    /\ value = [e \in {} |-> DefaultPort]
    /\ ttl = {}
    /\ modified = [e \in Entries |-> 0]
    /\ pc = [op \in Operators |-> "prompt"]
    /\ services = [op \in Operators |-> {}]
    /\ currentService = [op \in Operators |-> NoService]
    /\ endpoints = [op \in Operators |-> [s \in Services |-> {}]]
    /\ portName = [op \in Operators |-> DefaultPort]
    /\ target = [op \in Operators |-> NoKey]
    /\ checked = [op \in Operators |-> 0]
    /\ listed = [op \in Operators |-> [s \in Services |-> NotListed]]

-----------------------------------------------------------------------------
(* etcd. *)

Touch(s, k) ==
    /\ index < MaxIndex
    /\ index' = index + 1
    /\ modified' = [modified EXCEPT ![<<s, k>>] = index + 1]

(* Set; a key lies in a directory, which stays when the key is gone. *)
Put(s, k, v, t) ==
    /\ Touch(s, k)
    /\ dirs' = dirs \cup {s}
    /\ value' = [e \in DOMAIN value \cup {<<s, k>>} |-> IF e = <<s, k>> THEN v ELSE value[e]]
    /\ ttl' = (ttl \ {<<s, k>>}) \cup (IF t THEN {<<s, k>>} ELSE {})

Drop(s, k) ==
    /\ Touch(s, k)
    /\ value' = [e \in DOMAIN value \ {<<s, k>>} |-> value[e]]
    /\ ttl' = ttl \ {<<s, k>>}
    /\ UNCHANGED dirs

shellVars == <<pc, currentService, portName, services, endpoints, listed,
               target, checked>>

(* A server registers (hub.InsertEndpoint): whatever was there, the key is *)
(* its own now, and has a TTL.                                             *)
Register(s, k, p) ==
    /\ Parsed[k] = k
    /\ Put(s, k, p, TRUE)
    /\ UNCHANGED shellVars

Expire(s, k) ==
    /\ <<s, k>> \in ttl
    /\ Drop(s, k)
    /\ UNCHANGED shellVars

(* etcdloader fills a registry for development with keys without values. *)
LoadKey(s, k) ==
    /\ ~IsSet(s, k)
    /\ Put(s, k, Garbled, FALSE)
    /\ UNCHANGED shellVars

-----------------------------------------------------------------------------
(* The commands. *)

AtPrompt(op) == pc[op] = "prompt"
Managing(op) == AtPrompt(op) /\ Current(op) # NoService

(* The shell is started; nothing is kept from an earlier one. *)
Start(op) ==
    /\ pc[op] \in {"crashed", "exited"}
    /\ pc' = [pc EXCEPT ![op] = "prompt"]
    /\ services' = [services EXCEPT ![op] = {}]
    /\ currentService' = [currentService EXCEPT ![op] = NoService]
    /\ endpoints' = [endpoints EXCEPT ![op] = [s \in Services |-> {}]]
    /\ listed' = [listed EXCEPT ![op] = [s \in Services |-> NotListed]]
    /\ portName' = [portName EXCEPT ![op] = DefaultPort]
    /\ target' = [target EXCEPT ![op] = NoKey]
    /\ UNCHANGED <<etcdVars, checked>>

Exit(op) ==
    /\ AtPrompt(op)
    /\ pc' = [pc EXCEPT ![op] = "exited"]
    /\ UNCHANGED <<etcdVars, listVars, currentService, portName, askVars>>

Crash(op) ==
    /\ pc' = [pc EXCEPT ![op] = "crashed"]
    /\ UNCHANGED <<etcdVars, listVars, currentService, portName, askVars>>

(* "ls" without a current service: new service objects, without instances. *)
ListServices(op) ==
    /\ AtPrompt(op)
    /\ Current(op) = NoService
    /\ dirs # {}
    /\ services' = [services EXCEPT ![op] = dirs]
    /\ endpoints' = [endpoints EXCEPT ![op] = [s \in Services |-> {}]]
    /\ listed' = [listed EXCEPT ![op] = [s \in Services |-> NotListed]]
    /\ UNCHANGED <<etcdVars, pc, currentService, portName, askVars>>

(* The error is printed and the missing response is used all the same.     *)
(* The prefix is missing when no service was ever registered.              *)
ListServicesFails(op) ==
    /\ AtPrompt(op)
    /\ Current(op) = NoService
    /\ dirs = {} \/ ReadsMayFail
    /\ Crash(op)

(* The listing is given up at the first value that is not JSON. *)
Readable(s, k) ==
    IsSet(s, k) /\ \A j \in Keys : j <= k /\ IsSet(s, j) => value[<<s, j>>] # Garbled

Shown(op, s) ==
    {Parsed[k] : k \in {j \in Keys : Readable(s, j) /\ value[<<s, j>>] = portName[op]}}

ListedKept(op) ==  \* mutant: the slice is not made anew
    endpoints[op][Current(op)] \cup Shown(op, Current(op))
Listed(op) == Shown(op, Current(op))

(* "ls" with a current service.  When the read fails nothing changes. *)
ListInstances(op) ==
    /\ Managing(op)
    /\ endpoints' = [endpoints EXCEPT ![op][Current(op)] = Listed(op)]
    /\ listed' = [listed EXCEPT ![op][Current(op)] = [at |-> index, port |-> portName[op]]]
    /\ UNCHANGED <<etcdVars, pc, services, currentService, portName, askVars>>

SelectableNow(op) == dirs  \* mutant: services are looked up anew
Selectable(op) == services[op]

(* "select <number>", with or without a current service. *)
SelectService(op, s) ==
    /\ AtPrompt(op)
    /\ s \in Selectable(op)
    /\ currentService' = [currentService EXCEPT ![op] = s]
    /\ UNCHANGED <<etcdVars, pc, listVars, portName, askVars>>

(* "select" *)
Unselect(op) ==
    /\ Managing(op)
    /\ currentService' = [currentService EXCEPT ![op] = NoService]
    /\ UNCHANGED <<etcdVars, pc, listVars, portName, askVars>>

SetPortname(op, p) ==
    /\ AtPrompt(op)
    /\ portName' = [portName EXCEPT ![op] = p]
    /\ UNCHANGED <<etcdVars, pc, listVars, currentService, askVars>>

(* "new": with PrevNoExist, hence without effect on an existing service. *)
AddService(op, s) ==
    /\ AtPrompt(op)
    /\ Current(op) = NoService
    /\ s \notin dirs
    /\ index < MaxIndex
    /\ index' = index + 1
    /\ dirs' = dirs \cup {s}
    /\ UNCHANGED <<value, ttl, modified, shellVars>>

MayAddAnyway(s, k) == TRUE  \* mutant: no PrevNoExist
MayAdd(s, k) == ~IsSet(s, k)

(* "add": the key is the address as typed. *)
AddInstance(op, k) ==
    /\ Managing(op)
    /\ MayAdd(Current(op), k)
    /\ Put(Current(op), k, portName[op], FALSE)
    /\ UNCHANGED shellVars

(* "add" of something without a colon: the error is printed, then the      *)
(* second part of the address is used.                                     *)
AddMalformed(op) ==
    /\ Managing(op)
    /\ Crash(op)

-----------------------------------------------------------------------------
(* "rm" *)

IsStaticUnchecked(s, k) == IsSet(s, k)  \* mutant: the TTL is not looked at
(* "Make sure the endpoint is static (without TTL)." *)
IsStatic(s, k) == IsSet(s, k) /\ <<s, k>> \notin ttl

(* The key is spelled after the address in the listing. *)
DeleteInstance(op, k) ==
    /\ Managing(op)
    /\ k \in endpoints[op][Current(op)]
    /\ IsStatic(Current(op), k)
    /\ pc' = [pc EXCEPT ![op] = "confirm"]
    /\ target' = [target EXCEPT ![op] = k]
    /\ checked' = [checked EXCEPT ![op] = index]
    /\ UNCHANGED <<etcdVars, listVars, currentService, portName>>

(* The error is printed and the missing response is used all the same. *)
DeleteMissing(op, k) ==
    /\ Managing(op)
    /\ k \in endpoints[op][Current(op)]
    /\ ~IsSet(Current(op), k) \/ ReadsMayFail
    /\ Crash(op)

Answered(op) ==
    /\ pc[op] = "confirm"
    /\ pc' = [pc EXCEPT ![op] = "prompt"]
    /\ target' = [target EXCEPT ![op] = NoKey]
    /\ UNCHANGED <<listVars, currentService, portName, checked>>

(* The answer is yes; whatever the key holds by now is deleted. *)
DeleteConfirmed(op) ==
    /\ Answered(op)
    /\ IsSet(Current(op), target[op])
    /\ Drop(Current(op), target[op])

(* The answer is no, the prompt is left, or the deletion fails. *)
DeleteNothing(op) == Answered(op) /\ UNCHANGED etcdVars

-----------------------------------------------------------------------------
Environment ==
    \E s \in Services, k \in Keys :
        \/ \E p \in Ports : Register(s, k, p)
        \/ Expire(s, k)
        \/ LoadKey(s, k)

Command(op) ==
    \/ Start(op) \/ Exit(op)
    \/ ListServices(op) \/ ListServicesFails(op) \/ ListInstances(op)
    \/ Unselect(op)
    \/ \E s \in Services : SelectService(op, s) \/ AddService(op, s)
    \/ \E p \in Ports : SetPortname(op, p)
    \/ AddMalformed(op)
    \/ \E k \in Keys : AddInstance(op, k) \/ DeleteInstance(op, k) \/ DeleteMissing(op, k)
    \/ DeleteConfirmed(op) \/ DeleteNothing(op)

Next == Environment \/ \E op \in Operators : Command(op)

Spec == Init /\ [][Next]_vars

-----------------------------------------------------------------------------
(* Properties. *)

(* The values of every variable.  A selected service is one of the last    *)
(* listing; only a shell that waits for an answer has a key to delete.     *)
TypeOK ==
    /\ index \in Nat
    /\ dirs \subseteq Services
    /\ DOMAIN value \subseteq Entries
    /\ \A e \in DOMAIN value : value[e] \in Values /\ e[1] \in dirs
    /\ ttl \subseteq DOMAIN value
    /\ modified \in [Entries -> 0..index]
    /\ pc \in [Operators -> {"prompt", "confirm", "crashed", "exited"}]
    /\ services \in [Operators -> SUBSET dirs]
    /\ currentService \in [Operators -> Services \cup {NoService}]
    /\ endpoints \in [Operators -> [Services -> SUBSET Keys]]
    /\ portName \in [Operators -> Ports]
    /\ target \in [Operators -> Keys \cup {NoKey}]
    /\ checked \in [Operators -> 0..index]
    /\ listed \in [Operators -> [Services -> [at : 0..index, port : Ports]]]
    /\ \A op \in Operators :
        /\ Current(op) \in services[op] \cup {NoService}
        /\ pc[op] = "confirm" =>
            Current(op) # NoService /\ target[op] \in endpoints[op][Current(op)]

(* Another key that the listing shows under this address: its port is      *)
(* written differently, and "rm" cannot tell the two apart.                *)
Namesake(s, k, at) ==
    \E j \in Keys \ {k} : Parsed[j] = k /\ (IsSet(s, j) \/ modified[<<s, j>>] > at)

(* The listing an operator picks an instance from may be old, and made     *)
(* under another port name than he has now.  Still, the key he is about to *)
(* delete is one that listing showed, under the port name it was made for, *)
(* unless the key has changed since or has a namesake.                     *)
RemovesTheListed ==
    \A op \in Operators :
        LET s == Current(op)
            k == target[op]
            l == listed[op][s]
        IN  pc[op] = "confirm" =>
                \/ IsSet(s, k) /\ value[<<s, k>>] = l.port
                \/ modified[<<s, k>>] > l.at
                \/ Namesake(s, k, l.at)

(* The operator answers the question about this key. *)
Answers(op, e) == pc[op] = "confirm" /\ pc'[op] = "prompt" /\ e = <<Current(op), target[op]>>

(* A static key keeps its value until a server registers under its address *)
(* or an operator who was asked about this very key removes it; no "add"   *)
(* of another operator gets in between.                                    *)
StaticKept ==
    [][\A e \in DOMAIN value \ ttl :
        \/ e \in DOMAIN value' \ ttl' /\ value'[e] = value[e]
        \/ e \in ttl'
        \/ e \notin DOMAIN value' /\ \E op \in Operators : Answers(op, e)]_vars

(* A server's key is no less its own: no "add" makes it static, and it     *)
(* goes by its TTL.  An operator takes it away in one case only, when the  *)
(* server has set it between the look at its TTL and the answer; deleting  *)
(* does not look again.                                                    *)
LiveKept ==
    [][\A e \in ttl :
        \/ e \in ttl'
        \/ /\ e \notin DOMAIN value'
           /\ \A op \in Operators : Answers(op, e) => modified[e] > checked[op]]_vars
=============================================================================
