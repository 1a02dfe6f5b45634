------------------------- MODULE SkylbCommandProofs -------------------------
(***************************************************************************)
(* Theorems about SkylbCommand, for all operators, services, keys and      *)
(* ports, and any number of changes.                                       *)
(***************************************************************************)
EXTENDS SkylbCommand, TLAPS

-----------------------------------------------------------------------------
(* What a step does to etcd. *)

(* A key that is set, with a TTL or without. *)
Sets(s, k, v) == Put(s, k, v, TRUE) \/ Put(s, k, v, FALSE)

LEMMA PutEffect ==
  ASSUME NEW s, NEW k, NEW v, NEW d, d = <<s, k>>, Sets(s, k, v)
  PROVE  /\ DOMAIN value' = DOMAIN value \cup {d}
         /\ value'[d] = v
         /\ \A e \in DOMAIN value : e # d => value'[e] = value[e]
         /\ \A e : e # d => (e \in ttl' <=> e \in ttl)
         /\ dirs' = dirs \cup {s}
         /\ index' = index + 1
         /\ modified' = [modified EXCEPT ![d] = index + 1]
  BY DEF Sets, Put, Touch

LEMMA DropEffect ==
  ASSUME NEW s, NEW k, NEW d, d = <<s, k>>, Drop(s, k)
  PROVE  /\ DOMAIN value' = DOMAIN value \ {d}
         /\ \A e \in DOMAIN value' : value'[e] = value[e]
         /\ ttl' = ttl \ {d}
         /\ dirs' = dirs
         /\ index' = index + 1
         /\ modified' = [modified EXCEPT ![d] = index + 1]
  BY DEF Drop, Touch

LEMMA Newer ==
  ASSUME NEW S, NEW n \in Nat, NEW f \in [S -> 0..n], NEW e \in S
  PROVE  /\ [f EXCEPT ![e] = n + 1] \in [S -> 0..(n + 1)]
         /\ [f EXCEPT ![e] = n + 1][e] = n + 1
         /\ \A d \in S : d # e => [f EXCEPT ![e] = n + 1][d] = f[d]
  OBVIOUS

(* The part of TypeOK that speaks of etcd. *)
EtcdOK ==
    /\ index \in Nat
    /\ dirs \subseteq Services
    /\ DOMAIN value \subseteq Entries
    /\ \A e \in DOMAIN value : value[e] \in Values /\ e[1] \in dirs
    /\ ttl \subseteq DOMAIN value
    /\ modified \in [Entries -> 0..index]

(* Time in etcd goes on. *)
Grows == dirs \subseteq dirs' /\ index' \in Nat /\ index <= index'

LEMMA PutType ==
  ASSUME EtcdOK, NEW s \in Services, NEW k \in Keys, NEW v \in Values, Sets(s, k, v)
  PROVE  EtcdOK' /\ Grows
<1>1. PICK d \in Entries : d = <<s, k>>
  BY DEF Entries
<1>2. /\ DOMAIN value' = DOMAIN value \cup {d}
      /\ value'[d] = v
      /\ \A e \in DOMAIN value : e # d => value'[e] = value[e]
      /\ \A e : e # d => (e \in ttl' <=> e \in ttl)
      /\ dirs' = dirs \cup {s}
      /\ index' = index + 1
      /\ modified' = [modified EXCEPT ![d] = index + 1]
  BY <1>1, PutEffect
<1>3. /\ index \in Nat /\ dirs \subseteq Services /\ DOMAIN value \subseteq Entries
      /\ ttl \subseteq DOMAIN value /\ modified \in [Entries -> 0..index]
  BY DEF EtcdOK
<1>4. modified' \in [Entries -> 0..index']
  BY <1>2, <1>3, Newer
<1>5. ASSUME NEW e \in DOMAIN value' PROVE value'[e] \in Values /\ e[1] \in dirs'
  <2>1. CASE e = d
    BY <1>1, <1>2, <2>1
  <2>2. CASE e # d
    BY <1>2, <2>2 DEF EtcdOK
  <2> QED  BY <2>1, <2>2
<1>6. ttl' \subseteq DOMAIN value'
  BY <1>2, <1>3
<1> QED  BY <1>2, <1>3, <1>4, <1>5, <1>6 DEF EtcdOK, Grows

LEMMA DropType ==
  ASSUME EtcdOK, NEW s \in Services, NEW k \in Keys, Drop(s, k)
  PROVE  EtcdOK' /\ Grows
<1>1. PICK d \in Entries : d = <<s, k>>
  BY DEF Entries
<1>2. /\ DOMAIN value' = DOMAIN value \ {d}
      /\ \A e \in DOMAIN value' : value'[e] = value[e]
      /\ ttl' = ttl \ {d}
      /\ dirs' = dirs
      /\ index' = index + 1
      /\ modified' = [modified EXCEPT ![d] = index + 1]
  BY <1>1, DropEffect
<1>3. index \in Nat /\ modified \in [Entries -> 0..index]
  BY DEF EtcdOK
<1>4. modified' \in [Entries -> 0..index']
  BY <1>2, <1>3, Newer
<1> QED  BY <1>2, <1>3, <1>4 DEF EtcdOK, Grows

(* An entry a step leaves as it is, with the index of its last change.     *)
Untouched(e) ==
    /\ modified'[e] = modified[e]
    /\ e \in DOMAIN value' <=> e \in DOMAIN value
    /\ e \in DOMAIN value => value'[e] = value[e]
    /\ e \in ttl' <=> e \in ttl

(* Every other entry gets a new index. *)
TouchedIsNewer == \A e \in Entries : Untouched(e) \/ modified'[e] > index

LEMMA PutTouches ==
  ASSUME EtcdOK, NEW s \in Services, NEW k \in Keys, NEW v \in Values, Sets(s, k, v)
  PROVE  TouchedIsNewer
<1>1. PICK d \in Entries : d = <<s, k>>
  BY DEF Entries
<1>2. modified \in [Entries -> 0..index] /\ index \in Nat
  BY DEF EtcdOK
<1>3. /\ DOMAIN value' = DOMAIN value \cup {d}
      /\ value'[d] = v
      /\ \A e \in DOMAIN value : e # d => value'[e] = value[e]
      /\ \A e : e # d => (e \in ttl' <=> e \in ttl)
      /\ dirs' = dirs \cup {s}
      /\ index' = index + 1
      /\ modified' = [modified EXCEPT ![d] = index + 1]
  BY <1>1, PutEffect
<1>4. modified'[d] > index
  BY <1>2, <1>3, Newer
<1>5. ASSUME NEW e \in Entries, e # d PROVE Untouched(e)
  <2>1. modified'[e] = modified[e]
    BY <1>2, <1>3, <1>5, Newer
  <2>2. /\ e \in DOMAIN value' <=> e \in DOMAIN value
        /\ e \in DOMAIN value => value'[e] = value[e]
        /\ e \in ttl' <=> e \in ttl
    BY <1>3, <1>5
  <2> QED  BY <2>1, <2>2 DEF Untouched
<1> QED  BY <1>4, <1>5 DEF TouchedIsNewer

LEMMA DropTouches ==
  ASSUME EtcdOK, NEW s \in Services, NEW k \in Keys, Drop(s, k)
  PROVE  TouchedIsNewer
<1>1. PICK d \in Entries : d = <<s, k>>
  BY DEF Entries
<1>2. modified \in [Entries -> 0..index] /\ index \in Nat
  BY DEF EtcdOK
<1>3. /\ DOMAIN value' = DOMAIN value \ {d}
      /\ \A e \in DOMAIN value' : value'[e] = value[e]
      /\ ttl' = ttl \ {d}
      /\ dirs' = dirs
      /\ index' = index + 1
      /\ modified' = [modified EXCEPT ![d] = index + 1]
  BY <1>1, DropEffect
<1>4. modified'[d] > index
  BY <1>2, <1>3, Newer
<1>5. ASSUME NEW e \in Entries, e # d PROVE Untouched(e)
  <2>1. modified'[e] = modified[e]
    BY <1>2, <1>3, <1>5, Newer
  <2>2. /\ e \in DOMAIN value' <=> e \in DOMAIN value
        /\ e \in DOMAIN value => value'[e] = value[e]
        /\ e \in ttl' <=> e \in ttl
    BY <1>3, <1>5
  <2> QED  BY <2>1, <2>2 DEF Untouched
<1> QED  BY <1>4, <1>5 DEF TouchedIsNewer

LEMMA StillTouches ==
  ASSUME UNCHANGED <<value, ttl, modified>>
  PROVE  TouchedIsNewer
  BY DEF TouchedIsNewer, Untouched

LEMMA StillType ==
  ASSUME EtcdOK, UNCHANGED etcdVars
  PROVE  EtcdOK' /\ Grows
  BY DEF EtcdOK, Grows, etcdVars

LEMMA PortValue == Ports \subseteq Values /\ Garbled \in Values
  BY DEF Values

-----------------------------------------------------------------------------
(* Types. *)

(* The rest of TypeOK, and what the listings must be of. *)
Listings(n) == [at : 0..n, port : Ports]
ShellOK ==
    /\ pc \in [Operators -> {"prompt", "confirm", "crashed", "exited"}]
    /\ services \in [Operators -> SUBSET dirs]
    /\ currentService \in [Operators -> Services \cup {NoService}]
    /\ endpoints \in [Operators -> [Services -> SUBSET Keys]]
    /\ portName \in [Operators -> Ports]
    /\ target \in [Operators -> Keys \cup {NoKey}]
    /\ checked \in [Operators -> 0..index]
    /\ listed \in [Operators -> [Services -> Listings(index)]]
Chosen(op) ==
    /\ Current(op) \in services[op] \cup {NoService}
    /\ pc[op] = "confirm" =>
        Current(op) # NoService /\ target[op] \in endpoints[op][Current(op)]

LEMMA TypeParts ==
  /\ TypeOK <=> EtcdOK /\ ShellOK /\ \A op \in Operators : Chosen(op)
  /\ TypeOK' <=> EtcdOK' /\ ShellOK' /\ \A op \in Operators : Chosen(op)'
  BY DEF TypeOK, EtcdOK, ShellOK, Chosen, Listings

LEMMA ListingsGrow ==
  ASSUME NEW m \in Nat, NEW n \in Nat, m <= n
  PROVE  0..m \subseteq 0..n /\ Listings(m) \subseteq Listings(n)
  BY DEF Listings

(* While etcd goes on, what a shell holds stays of its type. *)
LEMMA ShellStays ==
  ASSUME EtcdOK, ShellOK, Grows
  PROVE  /\ services \in [Operators -> SUBSET dirs']
         /\ checked \in [Operators -> 0..index']
         /\ listed \in [Operators -> [Services -> Listings(index')]]
<1>1. index \in Nat /\ index' \in Nat /\ index <= index'
  BY DEF EtcdOK, Grows
<1>2. 0..index \subseteq 0..index' /\ Listings(index) \subseteq Listings(index')
  BY <1>1, ListingsGrow
<1> QED  BY <1>2 DEF ShellOK, Grows

LEMMA ShellFrame ==
  ASSUME TypeOK, EtcdOK', Grows, UNCHANGED shellVars
  PROVE  TypeOK'
<1> USE DEF shellVars
<1>1. EtcdOK /\ ShellOK /\ \A op \in Operators : Chosen(op)
  BY TypeParts
<1>2. ShellOK'
  <2>1. /\ services' \in [Operators -> SUBSET dirs']
        /\ checked' \in [Operators -> 0..index']
        /\ listed' \in [Operators -> [Services -> Listings(index')]]
    BY <1>1, ShellStays
  <2> QED  BY <1>1, <2>1 DEF ShellOK
<1>3. \A op \in Operators : Chosen(op)'
  BY <1>1 DEF Chosen, Current
<1> QED  BY <1>2, <1>3, TypeParts

LEMMA AnsweredType ==
  ASSUME TypeOK, EtcdOK', Grows, NEW op \in Operators, Answered(op)
  PROVE  TypeOK'
<1> USE DEF listVars
<1>1. EtcdOK /\ ShellOK /\ \A o \in Operators : Chosen(o)
  BY TypeParts
<1>2. /\ pc' = [pc EXCEPT ![op] = "prompt"]
      /\ target' = [target EXCEPT ![op] = NoKey]
      /\ UNCHANGED <<services, endpoints, listed, currentService, portName, checked>>
  BY DEF Answered
<1>3. ShellOK'
  <2>1. /\ services' \in [Operators -> SUBSET dirs']
        /\ checked' \in [Operators -> 0..index']
        /\ listed' \in [Operators -> [Services -> Listings(index')]]
    BY <1>1, <1>2, ShellStays
  <2>2. /\ pc' \in [Operators -> {"prompt", "confirm", "crashed", "exited"}]
        /\ target' \in [Operators -> Keys \cup {NoKey}]
    BY <1>1, <1>2 DEF ShellOK
  <2> QED  BY <1>1, <1>2, <2>1, <2>2 DEF ShellOK
<1>4. ASSUME NEW o \in Operators PROVE Chosen(o)'
  <2>1. pc \in [Operators -> {"prompt", "confirm", "crashed", "exited"}]
    BY <1>1 DEF ShellOK
  <2>2. CASE o = op
    BY <1>1, <1>2, <2>1, <2>2 DEF Chosen, Current
  <2>3. CASE o # op
    BY <1>1, <1>2, <2>1, <2>3 DEF Chosen, Current, ShellOK
  <2> QED  BY <2>2, <2>3
<1> QED  BY <1>3, <1>4, TypeParts
LEMMA TypeInit == Init => TypeOK
<1> SUFFICES ASSUME Init PROVE TypeOK
  OBVIOUS
<1>1. EtcdOK
  BY DEF Init, EtcdOK, Entries
<1>2. NotListed \in Listings(index) /\ DefaultPort \in Ports
  BY NameAssumption DEF NotListed, Listings, Init
<1>3. ShellOK
  BY <1>2 DEF Init, ShellOK
<1>4. \A op \in Operators : Chosen(op)
  BY DEF Init, Chosen, Current
<1> QED  BY <1>1, <1>3, <1>4, TypeParts

(* An "add", or a new directory, or a key of the outside world. *)
Others ==
    \/ Environment
    \/ \E op \in Operators :
        (\E s \in Services : AddService(op, s)) \/ (\E k \in Keys : AddInstance(op, k))

LEMMA OthersStep ==
  ASSUME TypeOK, Others
  PROVE  EtcdOK' /\ Grows /\ TouchedIsNewer /\ UNCHANGED shellVars
<1> USE DEF shellVars
<1>0. EtcdOK /\ ShellOK /\ \A op \in Operators : Chosen(op)
  BY TypeParts
<1>1. ASSUME NEW s \in Services, NEW k \in Keys, NEW p \in Ports, Register(s, k, p)
      PROVE  EtcdOK' /\ Grows /\ TouchedIsNewer /\ UNCHANGED shellVars
  <2>1. Sets(s, k, p) /\ p \in Values /\ UNCHANGED shellVars
    BY <1>1, PortValue DEF Register, Sets
  <2> QED  BY <1>0, <2>1, PutType, PutTouches
<1>2. ASSUME NEW s \in Services, NEW k \in Keys, Expire(s, k)
      PROVE  EtcdOK' /\ Grows /\ TouchedIsNewer /\ UNCHANGED shellVars
  <2>1. Drop(s, k) /\ UNCHANGED shellVars
    BY <1>2 DEF Expire
  <2> QED  BY <1>0, <2>1, DropType, DropTouches
<1>3. ASSUME NEW s \in Services, NEW k \in Keys, LoadKey(s, k)
      PROVE  EtcdOK' /\ Grows /\ TouchedIsNewer /\ UNCHANGED shellVars
  <2>1. Sets(s, k, Garbled) /\ Garbled \in Values /\ UNCHANGED shellVars
    BY <1>3, PortValue DEF LoadKey, Sets
  <2> QED  BY <1>0, <2>1, PutType, PutTouches
<1>4. ASSUME NEW op \in Operators, NEW s \in Services, AddService(op, s)
      PROVE  EtcdOK' /\ Grows /\ TouchedIsNewer /\ UNCHANGED shellVars
  <2>1. /\ UNCHANGED <<value, ttl, modified, shellVars>>
        /\ index' = index + 1 /\ dirs' = dirs \cup {s}
    BY <1>4 DEF AddService
  <2>2. EtcdOK' /\ Grows
    BY <1>0, <2>1 DEF EtcdOK, Grows
  <2> QED  BY <2>1, <2>2, StillTouches
<1>5. ASSUME NEW op \in Operators, NEW k \in Keys, AddInstance(op, k)
      PROVE  EtcdOK' /\ Grows /\ TouchedIsNewer /\ UNCHANGED shellVars
  <2>1. Current(op) \in Services /\ portName[op] \in Values
    BY <1>0, <1>5, PortValue DEF AddInstance, Managing, ShellOK, Current
  <2>2. Sets(Current(op), k, portName[op]) /\ UNCHANGED shellVars
    BY <1>5 DEF AddInstance, Sets
  <2> QED  BY <1>0, <2>1, <2>2, PutType, PutTouches
<1> QED  BY <1>1, <1>2, <1>3, <1>4, <1>5 DEF Others, Environment

LEMMA ConfirmedStep ==
  ASSUME TypeOK, NEW op \in Operators, DeleteConfirmed(op)
  PROVE  EtcdOK' /\ Grows /\ TouchedIsNewer /\ Answered(op)
<1>1. EtcdOK /\ ShellOK /\ Chosen(op)
  BY TypeParts
<1>2. Answered(op) /\ Drop(Current(op), target[op])
  BY DEF DeleteConfirmed
<1>3. pc[op] = "confirm"
  BY <1>2 DEF Answered
<1>4. Current(op) \in Services /\ target[op] \in Keys
  BY <1>1, <1>3 DEF Chosen, ShellOK, Current
<1> QED  BY <1>1, <1>2, <1>4, DropType, DropTouches

(* The commands that only look at etcd. *)
Looks(op) ==
    \/ Start(op) \/ Exit(op)
    \/ ListServices(op) \/ ListServicesFails(op) \/ ListInstances(op)
    \/ Unselect(op)
    \/ \E s \in Services : SelectService(op, s)
    \/ \E p \in Ports : SetPortname(op, p)
    \/ AddMalformed(op)
    \/ \E k \in Keys : DeleteInstance(op, k) \/ DeleteMissing(op, k)
    \/ DeleteNothing(op)

LEMMA LooksAlone ==
  ASSUME NEW op \in Operators, Looks(op)
  PROVE  UNCHANGED etcdVars
  BY DEF Looks, Start, Exit, ListServices, ListServicesFails, ListInstances, Unselect,
         SelectService, SetPortname, AddMalformed, DeleteInstance, DeleteMissing,
         DeleteNothing, Crash, etcdVars

LEMMA NextCases ==
  ASSUME [Next]_vars
  PROVE  \/ Others
         \/ \E op \in Operators : DeleteConfirmed(op)
         \/ \E op \in Operators : Looks(op)
         \/ UNCHANGED vars
  BY DEF Next, Command, Others, Looks

LEMMA EtcdStep ==
  ASSUME TypeOK, [Next]_vars
  PROVE  EtcdOK' /\ Grows /\ TouchedIsNewer
<1>0. EtcdOK
  BY TypeParts
<1>1. CASE Others
  BY <1>1, OthersStep
<1>2. ASSUME NEW op \in Operators, DeleteConfirmed(op) PROVE EtcdOK' /\ Grows /\ TouchedIsNewer
  BY <1>2, ConfirmedStep
<1>3. CASE UNCHANGED etcdVars
  BY <1>0, <1>3, StillType, StillTouches DEF etcdVars
<1>4. ASSUME NEW op \in Operators, Looks(op) PROVE UNCHANGED etcdVars
  BY <1>4, LooksAlone
<1>5. CASE UNCHANGED vars
  BY <1>3, <1>5 DEF vars, etcdVars
<1> QED  BY <1>1, <1>2, <1>3, <1>4, <1>5, NextCases

-----------------------------------------------------------------------------
(* Types of the shells. *)

LEMMA ShownType ==
  ASSUME NEW op \in Operators, NEW s
  PROVE  Shown(op, s) \subseteq Keys
  BY KeyAssumption DEF Shown

(* The commands, one by one.  Etcd stays as it is, and with it the types   *)
(* that depend on it.                                                      *)
LEMMA LooksType ==
  ASSUME TypeOK, NEW op \in Operators, Looks(op)
  PROVE  TypeOK'
<1> USE DEF listVars, askVars
<1>0. /\ EtcdOK /\ ShellOK /\ \A o \in Operators : Chosen(o)
      /\ UNCHANGED etcdVars /\ EtcdOK'
  BY TypeParts, LooksAlone, StillType
<1>1. index \in Nat /\ index' = index /\ dirs' = dirs /\ dirs \subseteq Services
  BY <1>0 DEF EtcdOK, etcdVars
<1>2. NotListed \in Listings(index) /\ DefaultPort \in Ports
  BY <1>1, NameAssumption DEF NotListed, Listings
<1>3. SUFFICES ShellOK' /\ \A o \in Operators : Chosen(o)'
  BY <1>0, TypeParts
<1> USE <1>0, <1>1
<1>4. CASE Start(op)
  <2>1. ShellOK'
    BY <1>2, <1>4 DEF Start, ShellOK
  <2>2. \A o \in Operators : Chosen(o)'
    BY <1>4 DEF Start, Chosen, Current, ShellOK
  <2> QED  BY <2>1, <2>2
<1>5. ASSUME NEW where \in {"exited", "crashed"}, pc' = [pc EXCEPT ![op] = where],
             UNCHANGED <<services, endpoints, listed, currentService, portName, target, checked>>
      PROVE  ShellOK' /\ \A o \in Operators : Chosen(o)'
  <2>1. ShellOK'
    BY <1>5 DEF ShellOK
  <2>2. \A o \in Operators : Chosen(o)'
    BY <1>5 DEF Chosen, Current, ShellOK
  <2> QED  BY <2>1, <2>2
<1>6. CASE Exit(op)
  BY <1>5, <1>6 DEF Exit
<1>7. CASE Crash(op)
  BY <1>5, <1>7 DEF Crash
<1>8. CASE ListServices(op)
  <2>1. ShellOK'
    BY <1>2, <1>8 DEF ListServices, ShellOK
  <2>2. \A o \in Operators : Chosen(o)'
    BY <1>8 DEF ListServices, AtPrompt, Chosen, Current, ShellOK
  <2> QED  BY <2>1, <2>2
<1>9. CASE ListInstances(op)
  <2> DEFINE l == [at |-> index, port |-> portName[op]]
  <2>1. Current(op) \in Services /\ pc[op] = "prompt"
    BY <1>9 DEF ListInstances, Managing, AtPrompt, Current, ShellOK
  <2>2. Listed(op) \in SUBSET Keys
    BY ShownType DEF Listed
  <2>3. l \in Listings(index)
    BY DEF Listings, ShellOK
  <2>4. /\ endpoints' = [endpoints EXCEPT ![op][Current(op)] = Listed(op)]
        /\ listed' = [listed EXCEPT ![op][Current(op)] = l]
        /\ UNCHANGED <<pc, services, currentService, portName, target, checked>>
    BY <1>9 DEF ListInstances
  <2> HIDE DEF l
  <2>5. endpoints' \in [Operators -> [Services -> SUBSET Keys]]
    BY <2>1, <2>2, <2>4 DEF ShellOK
  <2>6. listed' \in [Operators -> [Services -> Listings(index')]]
    BY <2>1, <2>3, <2>4 DEF ShellOK
  <2>7. ShellOK'
    BY <2>4, <2>5, <2>6 DEF ShellOK
  <2>8. \A o \in Operators : Chosen(o)'
    BY <2>1, <2>4 DEF Chosen, Current, ShellOK
  <2> QED  BY <2>7, <2>8
<1>10. ASSUME NEW c \in services[op] \cup {NoService}, pc[op] = "prompt",
              currentService' = [currentService EXCEPT ![op] = c],
              UNCHANGED <<pc, services, endpoints, listed, portName, target, checked>>
       PROVE  ShellOK' /\ \A o \in Operators : Chosen(o)'
  <2>1. ShellOK'
    BY <1>10 DEF ShellOK
  <2>2. \A o \in Operators : Chosen(o)'
    BY <1>10 DEF Chosen, Current, ShellOK
  <2> QED  BY <2>1, <2>2
<1>11. CASE Unselect(op)
  BY <1>10, <1>11 DEF Unselect, Managing, AtPrompt
<1>12. ASSUME NEW s \in Services, SelectService(op, s)
       PROVE  ShellOK' /\ \A o \in Operators : Chosen(o)'
  BY <1>10, <1>12 DEF SelectService, Selectable, AtPrompt
<1>13. ASSUME NEW p \in Ports, SetPortname(op, p)
       PROVE  ShellOK' /\ \A o \in Operators : Chosen(o)'
  <2>1. ShellOK'
    BY <1>13 DEF SetPortname, ShellOK
  <2>2. \A o \in Operators : Chosen(o)'
    BY <1>13 DEF SetPortname, Chosen, Current
  <2> QED  BY <2>1, <2>2
<1>14. ASSUME NEW k \in Keys, DeleteInstance(op, k)
       PROVE  ShellOK' /\ \A o \in Operators : Chosen(o)'
  <2>1. ShellOK'
    BY <1>14 DEF DeleteInstance, ShellOK
  <2>2. \A o \in Operators : Chosen(o)'
    BY <1>14 DEF DeleteInstance, Managing, Chosen, Current, ShellOK
  <2> QED  BY <2>1, <2>2
<1>15. CASE DeleteNothing(op)
  <2>1. Answered(op) /\ Grows
    BY <1>15, StillType DEF DeleteNothing
  <2> QED  BY <2>1, AnsweredType, TypeParts
<1> QED  BY <1>4, <1>6, <1>7, <1>8, <1>9, <1>11, <1>12, <1>13, <1>14, <1>15
         DEF Looks, ListServicesFails, AddMalformed, DeleteMissing

LEMMA TypeStep == TypeOK /\ [Next]_vars => TypeOK'
<1> SUFFICES ASSUME TypeOK, [Next]_vars PROVE TypeOK'
  OBVIOUS
<1>1. EtcdOK' /\ Grows
  BY EtcdStep
<1>2. CASE Others
  BY <1>1, <1>2, OthersStep, ShellFrame
<1>3. ASSUME NEW op \in Operators, DeleteConfirmed(op) PROVE TypeOK'
  BY <1>1, <1>3, AnsweredType DEF DeleteConfirmed
<1>4. ASSUME NEW op \in Operators, Looks(op) PROVE TypeOK'
  BY <1>4, LooksType
<1>5. CASE UNCHANGED vars
  BY <1>1, <1>5, ShellFrame DEF vars, shellVars
<1> QED  BY <1>2, <1>3, <1>4, <1>5, NextCases

(* The shells and etcd keep to their types: a selected service is one of   *)
(* the operator's last listing, and only a shell that waits for an answer  *)
(* has a key to delete.                                                    *)
THEOREM TypeCorrect == Spec => []TypeOK
<1>1. TypeOK /\ [Next]_vars => TypeOK'
  BY TypeStep
<1> QED  BY <1>1, TypeInit, PTL DEF Spec

-----------------------------------------------------------------------------
(* Removals. *)

(* Who waits for an answer has just been asked, or nothing has changed for *)
(* him.                                                                    *)
Waits(op) ==
    /\ pc[op] = "confirm"
    /\ currentService'[op] = currentService[op] /\ target'[op] = target[op]
    /\ checked'[op] = checked[op]

LEMMA AskedOrWaits ==
  ASSUME TypeOK, [Next]_vars, NEW op \in Operators, pc'[op] = "confirm"
  PROVE  Waits(op) \/ \E k \in Keys : DeleteInstance(op, k)
<1> USE DEF listVars, askVars, shellVars
<1>0. /\ pc \in [Operators -> {"prompt", "confirm", "crashed", "exited"}]
      /\ currentService \in [Operators -> Services \cup {NoService}]
      /\ target \in [Operators -> Keys \cup {NoKey}]
      /\ checked \in [Operators -> 0..index]
  BY DEF TypeOK
<1>1. CASE Others \/ UNCHANGED vars
  <2>1. UNCHANGED shellVars
    BY <1>1, OthersStep DEF vars
  <2> QED  BY <2>1 DEF Waits
<1>2. ASSUME NEW o \in Operators, Answered(o) PROVE Waits(op)
  BY <1>0, <1>2 DEF Answered, Waits
<1>3. ASSUME NEW o \in Operators, Looks(o)
      PROVE  Waits(op) \/ \E k \in Keys : DeleteInstance(op, k)
  <2>1. CASE Start(o) \/ Exit(o) \/ Crash(o)
    BY <1>0, <2>1 DEF Start, Exit, Crash, Waits
  <2>2. CASE ListServices(o) \/ ListInstances(o)
    BY <2>2 DEF ListServices, ListInstances, Waits
  <2>3. ASSUME o # op, NEW c, currentService' = [currentService EXCEPT ![o] = c],
               UNCHANGED <<pc, target, checked>>
        PROVE  Waits(op)
    BY <1>0, <2>3 DEF Waits
  <2>4. CASE Unselect(o)
    BY <2>3, <2>4 DEF Unselect, Managing, AtPrompt
  <2>5. ASSUME NEW s \in Services, SelectService(o, s) PROVE Waits(op)
    BY <2>3, <2>5 DEF SelectService, AtPrompt
  <2>6. ASSUME NEW p \in Ports, SetPortname(o, p) PROVE Waits(op)
    BY <2>6 DEF SetPortname, Waits
  <2>7. ASSUME NEW k \in Keys, DeleteInstance(o, k), o # op PROVE Waits(op)
    BY <1>0, <2>7 DEF DeleteInstance, Waits
  <2>8. CASE DeleteNothing(o)
    BY <1>2, <2>8 DEF DeleteNothing
  <2> QED  BY <1>3, <2>1, <2>2, <2>4, <2>5, <2>6, <2>7, <2>8
           DEF Looks, ListServicesFails, AddMalformed, DeleteMissing
<1> QED  BY <1>1, <1>2, <1>3, NextCases DEF DeleteConfirmed

(* The key to delete had no TTL when it was looked at, and has one now     *)
(* only if it was set since.                                               *)
CheckedOK ==
    \A op \in Operators :
        LET e == <<Current(op), target[op]>>
        IN  pc[op] = "confirm" => e \notin ttl \/ modified[e] > checked[op]

LEMMA ConfirmStep == TypeOK /\ CheckedOK /\ [Next]_vars => CheckedOK'
<1> SUFFICES ASSUME TypeOK, CheckedOK, [Next]_vars, NEW op \in Operators,
                    pc'[op] = "confirm"
             PROVE  LET e == <<Current(op)', target'[op]>>
                    IN  e \notin ttl' \/ modified'[e] > checked'[op]
  BY DEF CheckedOK
<1>1. TypeOK' /\ TouchedIsNewer
  BY TypeStep, EtcdStep
<1>2. PICK d : d = <<Current(op)', target'[op]>>
  OBVIOUS
<1>3. /\ d \in Entries /\ index \in Nat /\ checked[op] \in 0..index
      /\ modified \in [Entries -> 0..index]
  <2>1. Chosen(op)' /\ ShellOK'
    BY <1>1, TypeParts
  <2> QED  BY <1>2, <2>1 DEF TypeOK, Entries, Current, Chosen, ShellOK
<1>4. SUFFICES d \notin ttl' \/ modified'[d] > checked'[op]
  BY <1>2
<1>5. CASE Waits(op)
  <2>1. d \notin ttl \/ modified[d] > checked[op]
    BY <1>2, <1>5 DEF CheckedOK, Waits, Current
  <2>2. checked'[op] = checked[op]
    BY <1>5 DEF Waits
  <2>3. CASE Untouched(d)
    BY <2>1, <2>2, <2>3 DEF Untouched
  <2>4. CASE modified'[d] > index
    <3>1. modified'[d] \in Nat
      BY <1>1, <1>3 DEF TypeOK
    <3> QED  BY <1>3, <2>2, <2>4, <3>1
  <2> QED  BY <1>1, <1>3, <2>3, <2>4 DEF TouchedIsNewer
<1>6. ASSUME NEW k \in Keys, DeleteInstance(op, k)
      PROVE  d \notin ttl'
  BY <1>2, <1>6 DEF DeleteInstance, IsStatic, Current, TypeOK, etcdVars, listVars
<1> QED  BY <1>5, <1>6, AskedOrWaits

LEMMA AlwaysChecked == Spec => []CheckedOK
<1>1. Init => CheckedOK
  BY DEF Init, CheckedOK
<1> QED  BY <1>1, TypeCorrect, ConfirmStep, PTL DEF Spec

(* Why a listing shows an instance k: the key holds what was looked for,   *)
(* or has changed since, or another key is shown under its name.           *)
Backed(s, k, l) ==
    \/ IsSet(s, k) /\ value[<<s, k>>] = l.port
    \/ modified[<<s, k>>] > l.at
    \/ Namesake(s, k, l.at)

(* Every listing an operator has is one of its service, if an old one. *)
ListingOK ==
    \A op \in Operators, s \in Services :
        \A k \in endpoints[op][s] : Backed(s, k, listed[op][s])

(* What happens in etcd does not change that. *)
LEMMA StaysNewer ==
  ASSUME EtcdOK, EtcdOK', TouchedIsNewer, NEW n \in 0..index, NEW d \in Entries
  PROVE  /\ modified[d] > n => modified'[d] > n
         /\ d \in DOMAIN value => d \in DOMAIN value' \/ modified'[d] > n
         /\ \A v : d \in DOMAIN value /\ value[d] = v
                 => (d \in DOMAIN value' /\ value'[d] = v) \/ modified'[d] > n
<1>1. modified[d] \in Nat /\ modified'[d] \in Nat /\ index \in Nat
  BY DEF EtcdOK
<1>2. CASE Untouched(d)
  BY <1>2 DEF Untouched
<1>3. CASE modified'[d] > index
  <2>1. modified[d] <= index
    BY DEF EtcdOK
  <2>2. modified'[d] > n
    BY <1>1, <1>3
  <2> QED  BY <2>2
<1> QED  BY <1>2, <1>3 DEF TouchedIsNewer

LEMMA NamesakeStays ==
  ASSUME EtcdOK, EtcdOK', TouchedIsNewer, NEW s \in Services, NEW k \in Keys,
         NEW n \in 0..index, Namesake(s, k, n)
  PROVE  \E j \in Keys \ {k} :
            Parsed[j] = k /\ (<<s, j>> \in DOMAIN value' \/ modified'[<<s, j>>] > n)
<1>1. PICK j \in Keys \ {k} : Parsed[j] = k /\ (<<s, j>> \in DOMAIN value \/ modified[<<s, j>>] > n)
  BY DEF Namesake, IsSet
<1>2. PICK d \in Entries : d = <<s, j>>
  BY DEF Entries
<1>3. d \in DOMAIN value' \/ modified'[d] > n
  BY <1>1, <1>2, StaysNewer
<1> QED  BY <1>1, <1>2, <1>3

LEMMA BackedStays ==
  ASSUME EtcdOK, EtcdOK', TouchedIsNewer, NEW s \in Services, NEW k \in Keys,
         NEW l \in Listings(index), Backed(s, k, l)
  PROVE  \/ <<s, k>> \in DOMAIN value' /\ value'[<<s, k>>] = l.port
         \/ modified'[<<s, k>>] > l.at
         \/ \E j \in Keys \ {k} :
                Parsed[j] = k /\ (<<s, j>> \in DOMAIN value' \/ modified'[<<s, j>>] > l.at)
<1>1. l.at \in 0..index
  BY DEF Listings
<1>2. PICK d \in Entries : d = <<s, k>>
  BY DEF Entries
<1>3. CASE d \in DOMAIN value /\ value[d] = l.port
  BY <1>1, <1>2, <1>3, StaysNewer
<1>4. CASE modified[d] > l.at
  BY <1>1, <1>2, <1>4, StaysNewer
<1>5. CASE Namesake(s, k, l.at)
  BY <1>1, <1>5, NamesakeStays
<1> QED  BY <1>2, <1>3, <1>4, <1>5 DEF Backed, IsSet

(* A new listing is backed by what it was read from. *)
LEMMA ShownIsBacked ==
  ASSUME NEW op \in Operators, NEW s \in Services, NEW n, NEW k \in Shown(op, s)
  PROVE  Backed(s, k, [at |-> n, port |-> portName[op]])
<1>1. PICK j \in Keys : IsSet(s, j) /\ value[<<s, j>>] = portName[op] /\ k = Parsed[j]
  BY DEF Shown, Readable
<1>2. CASE j = k
  BY <1>1, <1>2 DEF Backed
<1>3. CASE j # k
  BY <1>1, <1>3 DEF Backed, Namesake
<1> QED  BY <1>2, <1>3

(* A step gives a shell a new listing of one service, or takes them all,   *)
(* or leaves them.                                                         *)
LEMMA ListingStep ==
  ASSUME TypeOK, [Next]_vars, NEW op \in Operators, NEW s \in Services
  PROVE  \/ endpoints'[op][s] = {}
         \/ endpoints'[op][s] = endpoints[op][s] /\ listed'[op][s] = listed[op][s]
         \/ /\ endpoints'[op][s] = Shown(op, s)
            /\ listed'[op][s] = [at |-> index, port |-> portName[op]]
            /\ UNCHANGED etcdVars
<1> USE DEF listVars, askVars, shellVars
<1>0. /\ endpoints \in [Operators -> [Services -> SUBSET Keys]]
      /\ listed \in [Operators -> [Services -> Listings(index)]]
      /\ currentService \in [Operators -> Services \cup {NoService}]
  BY DEF TypeOK, Listings
<1>1. CASE Others \/ UNCHANGED vars
  BY <1>1, OthersStep DEF vars
<1>2. ASSUME NEW o \in Operators, DeleteConfirmed(o) PROVE UNCHANGED listVars
  BY <1>2 DEF DeleteConfirmed, Answered
<1>3. ASSUME NEW o \in Operators, Start(o) \/ ListServices(o)
      PROVE  \/ endpoints'[op][s] = {}
             \/ endpoints'[op][s] = endpoints[op][s] /\ listed'[op][s] = listed[op][s]
  BY <1>0, <1>3 DEF Start, ListServices
<1>4. ASSUME NEW o \in Operators, ListInstances(o)
      PROVE  \/ endpoints'[op][s] = endpoints[op][s] /\ listed'[op][s] = listed[op][s]
             \/ /\ endpoints'[op][s] = Shown(op, s)
                /\ listed'[op][s] = [at |-> index, port |-> portName[op]]
                /\ UNCHANGED etcdVars
  <2>1. Current(o) \in Services
    BY <1>0, <1>4 DEF ListInstances, Managing, Current
  <2>2. PICK l : l = [at |-> index, port |-> portName[o]]
    OBVIOUS
  <2>3. /\ endpoints' = [endpoints EXCEPT ![o][Current(o)] = Listed(o)]
        /\ listed' = [listed EXCEPT ![o][Current(o)] = l]
        /\ UNCHANGED etcdVars
    BY <1>4, <2>2 DEF ListInstances
  <2>4. CASE o = op /\ Current(o) = s
    <3>1. endpoints'[op][s] = Listed(op) /\ listed'[op][s] = l
      BY <1>0, <2>3, <2>4
    <3> QED  BY <2>2, <2>3, <2>4, <3>1 DEF Listed
  <2>5. CASE ~(o = op /\ Current(o) = s)
    BY <1>0, <2>1, <2>3, <2>5
  <2> QED  BY <2>4, <2>5
<1>5. ASSUME NEW o \in Operators, Looks(o), ~Start(o), ~ListServices(o), ~ListInstances(o)
      PROVE  UNCHANGED listVars
  BY <1>5 DEF Looks, Exit, ListServicesFails, Unselect, SelectService, SetPortname,
              AddMalformed, DeleteInstance, DeleteMissing, DeleteNothing, Answered, Crash
<1> QED  BY <1>1, <1>2, <1>3, <1>4, <1>5, NextCases

LEMMA ListingStays == TypeOK /\ ListingOK /\ [Next]_vars => ListingOK'
<1> SUFFICES ASSUME TypeOK, ListingOK, [Next]_vars, NEW op \in Operators, NEW s \in Services,
                    NEW k \in endpoints'[op][s]
             PROVE  Backed(s, k, listed[op][s])'
  BY DEF ListingOK
<1>1. TypeOK' /\ EtcdOK /\ EtcdOK' /\ TouchedIsNewer
  BY TypeStep, EtcdStep, TypeParts
<1>2. CASE endpoints'[op][s] = endpoints[op][s] /\ listed'[op][s] = listed[op][s]
  <2>1. k \in Keys /\ listed[op][s] \in Listings(index) /\ Backed(s, k, listed[op][s])
    BY <1>2 DEF ListingOK, TypeOK, Listings
  <2>2. PICK l \in Listings(index) : l = listed[op][s]
    BY <2>1
  <2>3. \/ <<s, k>> \in DOMAIN value' /\ value'[<<s, k>>] = l.port
        \/ modified'[<<s, k>>] > l.at
        \/ \E j \in Keys \ {k} :
               Parsed[j] = k /\ (<<s, j>> \in DOMAIN value' \/ modified'[<<s, j>>] > l.at)
    BY <1>1, <2>1, <2>2, BackedStays
  <2> QED  BY <1>2, <2>2, <2>3 DEF Backed, IsSet, Namesake
<1>3. CASE /\ endpoints'[op][s] = Shown(op, s)
           /\ listed'[op][s] = [at |-> index, port |-> portName[op]]
           /\ UNCHANGED etcdVars
  <2>1. Backed(s, k, [at |-> index, port |-> portName[op]])
    BY <1>3, ShownIsBacked
  <2>2. value' = value /\ modified' = modified
    BY <1>3 DEF etcdVars
  <2>3. Backed(s, k, listed'[op][s])
    BY <1>3, <2>1
  <2> QED  BY <2>2, <2>3 DEF Backed, IsSet, Namesake
<1> QED  BY <1>2, <1>3, ListingStep

(* "rm" takes an index into a listing nothing refreshes, made under a port *)
(* name that may have been changed since (deleteInstance, listInstances):  *)
(* the key to be deleted is still one that listing showed, unless it has   *)
(* changed or another one is listed under its name.                        *)
THEOREM RemovedWasListed == Spec => []RemovesTheListed
<1>1. Init => ListingOK
  BY DEF Init, ListingOK
<1>2. TypeOK /\ ListingOK => RemovesTheListed
  <2> SUFFICES ASSUME TypeOK, ListingOK, NEW op \in Operators, pc[op] = "confirm"
               PROVE  Backed(Current(op), target[op], listed[op][Current(op)])
    BY DEF RemovesTheListed, Backed
  <2> QED  BY DEF TypeOK, ListingOK, Current
<1> QED  BY <1>1, <1>2, TypeCorrect, ListingStays, PTL DEF Spec

-----------------------------------------------------------------------------
(* Static keys. *)

LEMMA StaticStep ==
  ASSUME TypeOK, [Next]_vars, NEW e \in DOMAIN value \ ttl
  PROVE  \/ e \in DOMAIN value' \ ttl' /\ value'[e] = value[e]
         \/ e \in ttl'
         \/ e \notin DOMAIN value' /\ \E op \in Operators : Answers(op, e)
<1>1. ASSUME NEW s, NEW k, NEW v, Sets(s, k, v), ~IsSet(s, k)
      PROVE  e \in DOMAIN value' \ ttl' /\ value'[e] = value[e]
  <2>1. PICK d : d = <<s, k>>
    OBVIOUS
  <2>2. d # e
    BY <1>1, <2>1 DEF IsSet
  <2>3. Sets(s, k, v)
    BY <1>1
  <2>4. /\ DOMAIN value' = DOMAIN value \cup {d}
        /\ \A x \in DOMAIN value : x # d => value'[x] = value[x]
        /\ \A x : x # d => (x \in ttl' <=> x \in ttl)
    BY <2>1, <2>3, PutEffect
  <2> QED  BY <2>2, <2>4
<1>2. ASSUME NEW s \in Services, NEW k \in Keys, NEW p \in Ports, Register(s, k, p)
      PROVE  e \in ttl' \/ (e \in DOMAIN value' \ ttl' /\ value'[e] = value[e])
  <2>1. PICK d : d = <<s, k>>
    OBVIOUS
  <2>2. Sets(s, k, p) /\ d \in ttl'
    BY <1>2, <2>1 DEF Register, Put, Sets
  <2>3. /\ DOMAIN value' = DOMAIN value \cup {d}
        /\ \A x \in DOMAIN value : x # d => value'[x] = value[x]
        /\ \A x : x # d => (x \in ttl' <=> x \in ttl)
    BY <2>1, <2>2, PutEffect
  <2> QED  BY <2>2, <2>3
<1>3. ASSUME NEW s, NEW k, Drop(s, k), e # <<s, k>>
      PROVE  e \in DOMAIN value' \ ttl' /\ value'[e] = value[e]
  <2>1. PICK d : d = <<s, k>>
    OBVIOUS
  <2>2. /\ DOMAIN value' = DOMAIN value \ {d}
        /\ \A x \in DOMAIN value' : value'[x] = value[x]
        /\ ttl' = ttl \ {d}
    BY <1>3, <2>1, DropEffect
  <2> QED  BY <1>3, <2>1, <2>2
<1>4. ASSUME NEW s \in Services, NEW k \in Keys, Expire(s, k)
      PROVE  e \in DOMAIN value' \ ttl' /\ value'[e] = value[e]
  BY <1>3, <1>4 DEF Expire
<1>5. ASSUME NEW s \in Services, NEW k \in Keys, LoadKey(s, k)
      PROVE  e \in DOMAIN value' \ ttl' /\ value'[e] = value[e]
  BY <1>1, <1>5 DEF LoadKey, Sets
<1>6. ASSUME NEW op \in Operators, NEW k \in Keys, AddInstance(op, k)
      PROVE  e \in DOMAIN value' \ ttl' /\ value'[e] = value[e]
  BY <1>1, <1>6 DEF AddInstance, MayAdd, Sets
<1>7. ASSUME UNCHANGED <<value, ttl>>
      PROVE  e \in DOMAIN value' \ ttl' /\ value'[e] = value[e]
  BY <1>7
<1>8. ASSUME NEW op \in Operators, DeleteConfirmed(op), e = <<Current(op), target[op]>>
      PROVE  e \notin DOMAIN value' /\ Answers(op, e)
  <2>1. Drop(Current(op), target[op]) /\ Answered(op)
    BY <1>8 DEF DeleteConfirmed
  <2>2. DOMAIN value' = DOMAIN value \ {e}
    BY <1>8, <2>1, DropEffect
  <2> QED  BY <1>8, <2>1, <2>2 DEF Answered, Answers, TypeOK
<1>9. CASE Others
  <2>1. ASSUME NEW op \in Operators, NEW s \in Services, AddService(op, s)
        PROVE  UNCHANGED <<value, ttl>>
    BY <2>1 DEF AddService
  <2> QED  BY <1>2, <1>4, <1>5, <1>6, <1>7, <1>9, <2>1 DEF Others, Environment
<1>10. ASSUME NEW op \in Operators, DeleteConfirmed(op), e # <<Current(op), target[op]>>
       PROVE  e \in DOMAIN value' \ ttl' /\ value'[e] = value[e]
  BY <1>3, <1>10 DEF DeleteConfirmed
<1>11. ASSUME NEW op \in Operators, Looks(op) PROVE UNCHANGED <<value, ttl>>
  BY <1>11, LooksAlone DEF etcdVars
<1>12. CASE UNCHANGED vars
  BY <1>7, <1>12 DEF vars
<1> QED  BY <1>7, <1>8, <1>9, <1>10, <1>11, <1>12, NextCases

(* A key without TTL is no server's heartbeat: it keeps its value until a  *)
(* server registers under its address or an operator confirms that it is   *)
(* to go; addInstance sets with PrevNoExist.                               *)
THEOREM StaticKeysStay == Spec => StaticKept
<1>1. TypeOK /\ [Next]_vars => [\A e \in DOMAIN value \ ttl :
        \/ e \in DOMAIN value' \ ttl' /\ value'[e] = value[e]
        \/ e \in ttl'
        \/ e \notin DOMAIN value' /\ \E op \in Operators : Answers(op, e)]_vars
  BY StaticStep
<1> QED  BY <1>1, TypeCorrect, PTL DEF Spec, StaticKept

-----------------------------------------------------------------------------
(* Keys of servers. *)

LEMMA LiveStep ==
  ASSUME TypeOK, CheckedOK, [Next]_vars, NEW e \in ttl
  PROVE  \/ e \in ttl'
         \/ /\ e \notin DOMAIN value'
            /\ \A op \in Operators : Answers(op, e) => modified[e] > checked[op]
<1>0. e \in DOMAIN value
  BY DEF TypeOK
<1>1. ASSUME NEW op \in Operators, Answers(op, e) PROVE modified[e] > checked[op]
  BY <1>1 DEF CheckedOK, Answers
<1>2. ASSUME NEW s, NEW k, NEW v, Sets(s, k, v), ~IsSet(s, k) PROVE e \in ttl'
  <2>1. PICK d : d = <<s, k>>
    OBVIOUS
  <2>2. d # e
    BY <1>0, <1>2, <2>1 DEF IsSet
  <2>3. Sets(s, k, v)
    BY <1>2
  <2>4. \A x : x # d => (x \in ttl' <=> x \in ttl)
    BY <2>1, <2>3, PutEffect
  <2> QED  BY <2>2, <2>4
<1>3. ASSUME NEW s \in Services, NEW k \in Keys, NEW q \in Ports, Register(s, k, q)
      PROVE  e \in ttl'
  <2>1. PICK d : d = <<s, k>>
    OBVIOUS
  <2>2. Sets(s, k, q) /\ d \in ttl'
    BY <1>3, <2>1 DEF Register, Put, Sets
  <2>3. \A x : x # d => (x \in ttl' <=> x \in ttl)
    BY <2>1, <2>2, PutEffect
  <2> QED  BY <2>2, <2>3
<1>4. ASSUME NEW s, NEW k, Drop(s, k) PROVE e \in ttl' \/ e \notin DOMAIN value'
  <2>1. PICK d : d = <<s, k>>
    OBVIOUS
  <2>2. DOMAIN value' = DOMAIN value \ {d} /\ ttl' = ttl \ {d}
    BY <1>4, <2>1, DropEffect
  <2> QED  BY <2>2
<1>5. ASSUME NEW s \in Services, NEW k \in Keys, Expire(s, k)
      PROVE  e \in ttl' \/ e \notin DOMAIN value'
  BY <1>4, <1>5 DEF Expire
<1>6. ASSUME NEW s \in Services, NEW k \in Keys, LoadKey(s, k) PROVE e \in ttl'
  BY <1>2, <1>6 DEF LoadKey, Sets
<1>7. ASSUME NEW op \in Operators, NEW k \in Keys, AddInstance(op, k) PROVE e \in ttl'
  BY <1>2, <1>7 DEF AddInstance, MayAdd, Sets
<1>8. ASSUME NEW op \in Operators, NEW s \in Services, AddService(op, s) PROVE e \in ttl'
  BY <1>8 DEF AddService
<1>9. CASE Others
  BY <1>1, <1>3, <1>5, <1>6, <1>7, <1>8, <1>9 DEF Others, Environment
<1>10. ASSUME NEW op \in Operators, DeleteConfirmed(op)
       PROVE  e \in ttl' \/ e \notin DOMAIN value'
  BY <1>4, <1>10 DEF DeleteConfirmed
<1>11. ASSUME NEW op \in Operators, Looks(op) PROVE e \in ttl'
  BY <1>11, LooksAlone DEF etcdVars
<1>12. CASE UNCHANGED vars
  BY <1>12 DEF vars
<1> QED  BY <1>1, <1>9, <1>10, <1>11, <1>12, NextCases

(* A key with a TTL stays its server's: addInstance does not make it       *)
(* static, and deleteInstance takes it away only if the server has set it  *)
(* after its TTL was looked at, while the operator was asked.              *)
THEOREM LiveKeysStay == Spec => LiveKept
<1>1. TypeOK /\ CheckedOK /\ [Next]_vars => [\A e \in ttl :
        \/ e \in ttl'
        \/ /\ e \notin DOMAIN value'
           /\ \A op \in Operators : Answers(op, e) => modified[e] > checked[op]]_vars
  BY LiveStep
<1> QED  BY <1>1, TypeCorrect, AlwaysChecked, PTL DEF Spec, LiveKept
=============================================================================
