-------------------------- MODULE ModelServiceProofs --------------------------
(***************************************************************************)
(* Theorems about ModelService, for all observers, addresses, channel      *)
(* capacities and numbers of updates.                                      *)
(***************************************************************************)
EXTENDS ModelService, FiniteSetTheorems, TLAPS

(* No more stopChs are made than observers are added. *)
Counted == made <= Cardinality(added)

(* A rectifier waits for the stopCh it was started with, a later one or    *)
(* none, and runs only if its stopCh was made.                             *)
RectifierOK ==
    \A g \in Gens :
        /\ rectifier[g].ch = Nil \/ (g <= rectifier[g].ch /\ rectifier[g].ch <= made)
        /\ rectifier[g].pc # "none" => g <= made

(* No Notify sends to an observer that is closed. *)
ClosedIsUnlocked == \A o \in closed : sending[o] = Nil

(* Nothing is offered before the first SetEndpoints. *)
UnsetIsEmpty == endpoints.ver = 0 => endpoints.empty

Inv == TypeOK /\ Counted /\ UnsetIsEmpty
RectifierInv == RectifierOK /\ ObservedIsRectified

-----------------------------------------------------------------------------
(* Types. *)

LEMMA GensType ==
  /\ Cardinality(Observers) \in Nat
  /\ Gens \subseteq Nat \ {0}
  /\ Versions \subseteq Nat \ {0}
  BY ObserverAssumption, NumberAssumption, FS_CardinalityType DEF Gens, Versions

(* There is a number left for a stopCh as long as an observer is.          *)
LEMMA RoomForOne ==
  ASSUME TypeOK, Counted, NEW o \in Observers, o \notin added
  PROVE  /\ made + 1 \in Gens
         /\ Cardinality(added \cup {o}) = Cardinality(added) + 1
<1>1. added \in SUBSET Observers /\ IsFiniteSet(added)
  BY ObserverAssumption, FS_Subset DEF TypeOK
<1>2. Cardinality(added \cup {o}) = Cardinality(added) + 1
  BY <1>1, FS_AddElement
<1>3. Cardinality(added \cup {o}) <= Cardinality(Observers)
  BY <1>1, ObserverAssumption, FS_Subset
<1>4. Cardinality(added) \in Nat
  BY <1>1, FS_CardinalityType
<1>5. made \in Nat
  BY GensType DEF TypeOK
<1> QED  BY <1>2, <1>3, <1>4, <1>5, GensType DEF Counted, Gens

LEMMA TypeInit == Init => Inv
<1> SUFFICES ASSUME Init PROVE Inv
  OBVIOUS
<1>1. Cardinality(added) = 0
  BY FS_EmptySet DEF Init
<1>2. endpoints \in [ver : 0..MaxVersion, empty : BOOLEAN] /\ endpoints.empty
  BY NumberAssumption DEF Init
<1>3. /\ notifyCh \in [Observers -> Seq(Versions)]
      /\ \A o \in Observers : Len(notifyCh[o]) <= ChanCap
  BY NumberAssumption DEF Init
<1>4. /\ sending \in [Observers -> {Nil} \cup Versions]
      /\ made = 0 /\ stopCh = Nil
      /\ rectifier \in [Gens -> Rectifier]
  BY DEF Init, Rectifier
<1>5. TypeOK
  BY <1>2, <1>3, <1>4 DEF Init, TypeOK
<1> QED  BY <1>1, <1>2, <1>4, <1>5 DEF Inv, Counted, UnsetIsEmpty

LEMMA AddType ==
  ASSUME Inv, NEW o \in Observers, AddObserver(o)
  PROVE  Inv'
<1> USE DEF Inv
<1>1. made + 1 \in Gens /\ Cardinality(added') = Cardinality(added) + 1
  BY RoomForOne DEF AddObserver
<1>2. Cardinality(added) \in Nat
  BY ObserverAssumption, FS_Subset, FS_CardinalityType DEF TypeOK
<1>3. made \in Nat /\ made' \in {0} \cup Gens /\ made' <= Cardinality(added')
  BY <1>1, <1>2, GensType DEF AddObserver, StartRectifier, TypeOK, Counted, rectifierVars
<1>4. stopCh' \in {Nil, made'}
  BY DEF AddObserver, StartRectifier, TypeOK, rectifierVars
<1>5. rectifier' \in [Gens -> Rectifier]
  <2>1. rectifier \in [Gens -> Rectifier] /\ rectifier[made + 1] \in Rectifier
    BY <1>1 DEF TypeOK
  <2>2. [rectifier[made + 1] EXCEPT !.pc = "select"] \in Rectifier
    BY <2>1 DEF Rectifier
  <2>3. \/ rectifier' = rectifier
        \/ rectifier' = [rectifier EXCEPT ![made + 1] = [rectifier[made + 1] EXCEPT !.pc = "select"]]
    BY DEF AddObserver, StartRectifier, rectifierVars
  <2> QED  BY <2>1, <2>2, <2>3
<1>6. pending' \subseteq Observers \X Versions
  <2>1. ~endpoints.empty => endpoints.ver \in Versions
    BY NumberAssumption DEF TypeOK, UnsetIsEmpty, Versions
  <2> QED  BY <2>1 DEF AddObserver, Greeting, TypeOK
<1>7. observers' \subseteq added' /\ added' \subseteq Observers /\ removing' \subseteq observers'
  BY DEF AddObserver, TypeOK
<1> QED
  BY <1>3, <1>4, <1>5, <1>6, <1>7 DEF AddObserver, TypeOK, Counted, UnsetIsEmpty

LEMMA SetType ==
  ASSUME Inv, NEW empty \in BOOLEAN, SetEndpoints(empty)
  PROVE  Inv'
<1> USE DEF Inv
<1>1. endpoints.ver \in Nat /\ endpoints.ver + 1 \in Versions /\ Versions \subseteq 0..MaxVersion
  BY NumberAssumption DEF SetEndpoints, TypeOK, Versions
<1>2. endpoints' \in [ver : 0..MaxVersion, empty : BOOLEAN] /\ endpoints'.ver # 0
  BY <1>1 DEF SetEndpoints
<1>3. pending' \subseteq Observers \X Versions
  BY <1>1 DEF SetEndpoints, TypeOK
<1> QED
  BY <1>2, <1>3 DEF SetEndpoints, TypeOK, Counted, UnsetIsEmpty, rectifierVars

LEMMA RemoveType ==
  ASSUME Inv, Remove \/ \E addr \in Addrs : StartRemove(addr)
  PROVE  Inv'
<1> USE DEF Inv
<1>1. ASSUME NEW addr \in Addrs, StartRemove(addr) PROVE Inv'
  BY <1>1 DEF StartRemove, Leaving, TypeOK, Counted, UnsetIsEmpty, observerVars, rectifierVars
<1>2. ASSUME NEW o \in Observers, Close(o) PROVE Inv'
  BY <1>2 DEF Close, TypeOK, Counted, UnsetIsEmpty, rectifierVars
<1>3. CASE FinishRemove
  BY <1>3 DEF FinishRemove, TypeOK, Counted, UnsetIsEmpty, observerVars
<1> QED  BY <1>1, <1>2, <1>3 DEF Remove

LEMMA NotifyType ==
  ASSUME Inv, NEW o \in Observers, Notify(o) \/ Receive(o)
  PROVE  Inv'
<1> USE DEF Inv
<1>1. ASSUME NEW v \in Versions, StartNotify(o, v) PROVE Inv'
  BY <1>1 DEF StartNotify, TypeOK, Counted, UnsetIsEmpty, serviceVars, rectifierVars
<1>2. ASSUME Unlock(o), sending[o] # Nil
      PROVE  /\ sending' \in [Observers -> {Nil} \cup Versions]
             /\ ended' \subseteq Observers \X Versions
             /\ sending[o] \in Versions
  BY <1>2 DEF Unlock, TypeOK
<1>3. CASE Send(o)
  <2>1. /\ notifyCh' \in [Observers -> Seq(Versions)]
        /\ \A q \in Observers : Len(notifyCh'[q]) <= ChanCap
    <3>1. sending[o] \in Versions /\ notifyCh[o] \in Seq(Versions) /\ Len(notifyCh[o]) < ChanCap
      BY <1>2, <1>3 DEF Send, TypeOK
    <3>2. /\ Append(notifyCh[o], sending[o]) \in Seq(Versions)
          /\ Len(Append(notifyCh[o], sending[o])) <= ChanCap
      BY <3>1, NumberAssumption
    <3>3. notifyCh' = [notifyCh EXCEPT ![o] = Append(notifyCh[o], sending[o])]
      BY <1>3 DEF Send
    <3> QED  BY <3>2, <3>3 DEF TypeOK
  <2> QED
    BY <1>2, <1>3, <2>1 DEF Send, TypeOK, Counted, UnsetIsEmpty, serviceVars, rectifierVars
<1>4. CASE GiveUp(o)
  BY <1>2, <1>4 DEF GiveUp, TypeOK, Counted, UnsetIsEmpty, serviceVars, rectifierVars
<1>5. CASE Receive(o)
  <2>1. notifyCh[o] \in Seq(Versions) /\ notifyCh[o] # <<>>
    BY <1>5 DEF Receive, TypeOK
  <2>2. Tail(notifyCh[o]) \in Seq(Versions) /\ Len(Tail(notifyCh[o])) < Len(notifyCh[o])
    BY <2>1
  <2>3. notifyCh' = [notifyCh EXCEPT ![o] = Tail(notifyCh[o])]
    BY <1>5 DEF Receive
  <2>4. /\ notifyCh' \in [Observers -> Seq(Versions)]
        /\ \A q \in Observers : Len(notifyCh'[q]) <= ChanCap
    BY <2>2, <2>3, <2>1, NumberAssumption DEF TypeOK
  <2> QED
    BY <1>5, <2>4 DEF Receive, TypeOK, Counted, UnsetIsEmpty, serviceVars, rectifierVars
<1> QED  BY <1>1, <1>3, <1>4, <1>5 DEF Notify

LEMMA RectifyType ==
  ASSUME Inv, NEW g \in Gens, Rectify(g) \/ Tick(g)
  PROVE  Inv'
<1> USE DEF Inv
<1>1. rectifier' \in [Gens -> Rectifier]
  <2>1. /\ rectifier \in [Gens -> Rectifier]
        /\ rectifier[g] \in Rectifier
        /\ stopCh \in {Nil} \cup Gens
    BY DEF TypeOK, Nil
  <2>2. CASE Select(g)
    <3>1. [pc |-> "wait", ch |-> stopCh] \in Rectifier
      BY <2>1 DEF Rectifier
    <3>2. rectifier' = [rectifier EXCEPT ![g] = [pc |-> "wait", ch |-> stopCh]]
      BY <2>2 DEF Select
    <3> QED  BY <2>1, <3>1, <3>2
  <2>3. CASE Stop(g) \/ Listened(g) \/ Tick(g)
    <3>1. PICK p \in {"select", "listen", "done"} :
            rectifier' = [rectifier EXCEPT ![g] = [rectifier[g] EXCEPT !.pc = p]]
      BY <2>3 DEF Stop, Listened, Tick
    <3>2. [rectifier[g] EXCEPT !.pc = p] \in Rectifier
      BY <2>1 DEF Rectifier
    <3> QED  BY <2>1, <3>1, <3>2
  <2> QED  BY <2>2, <2>3 DEF Rectify
<1>2. UNCHANGED <<serviceVars, observerVars, made, stopCh>>
  BY DEF Rectify, Select, Stop, Listened, Tick
<1> QED  BY <1>1, <1>2 DEF TypeOK, Counted, UnsetIsEmpty, serviceVars, observerVars

LEMMA TypeNext == Inv /\ [Next]_vars => Inv'
<1> SUFFICES ASSUME Inv, [Next]_vars PROVE Inv'
  OBVIOUS
<1>1. CASE Next
  BY <1>1, AddType, SetType, RemoveType, NotifyType, RectifyType DEF Next
<1>2. CASE UNCHANGED vars
  BY <1>2 DEF vars, serviceVars, observerVars, rectifierVars, Inv, TypeOK, Counted,
              UnsetIsEmpty
<1> QED  BY <1>1, <1>2

(* The variables of the service object, its observers and goroutines       *)
(* always have values of their types; the strengthening bounds the number  *)
(* of rectifiers by that of the observers.                                 *)
THEOREM TypeCorrect == Spec => []TypeOK
<1>1. Inv => TypeOK
  BY DEF Inv
<1> QED  BY <1>1, TypeInit, TypeNext, PTL DEF Spec

LEMMA InvAlways == Spec => []Inv
  BY TypeInit, TypeNext, PTL DEF Spec

-----------------------------------------------------------------------------
(* Notifications. *)

LEMMA UnlockedInit == Init => ClosedIsUnlocked
  BY DEF Init, ClosedIsUnlocked

LEMMA UnlockedNext == Inv /\ ClosedIsUnlocked /\ [Next]_vars => ClosedIsUnlocked'
<1> SUFFICES ASSUME Inv, ClosedIsUnlocked, [Next]_vars, NEW o \in closed'
             PROVE  sending'[o] = Nil
  BY DEF ClosedIsUnlocked
<1>1. o \in Observers /\ sending \in [Observers -> {Nil} \cup Versions]
  <2>1. closed' \subseteq Observers
    BY TypeNext DEF Inv, TypeOK
  <2> QED  BY <2>1 DEF Inv, TypeOK
<1>2. CASE closed' = closed /\ sending' = sending
  BY <1>2 DEF ClosedIsUnlocked
<1>3. ASSUME NEW q \in Observers, Close(q) PROVE sending'[o] = Nil
  BY <1>1, <1>3 DEF Close, CanClose, ClosedIsUnlocked
<1>4. ASSUME NEW q \in Observers, NEW v \in Versions, StartNotify(q, v) PROVE sending'[o] = Nil
  BY <1>1, <1>4 DEF StartNotify, ClosedIsUnlocked
<1>5. ASSUME NEW q \in Observers, Send(q) \/ GiveUp(q) PROVE sending'[o] = Nil
  BY <1>1, <1>5 DEF Send, GiveUp, Unlock, ClosedIsUnlocked
<1>6. ASSUME NEW q \in Observers, AddObserver(q) \/ Receive(q) PROVE sending'[o] = Nil
  BY <1>2, <1>6 DEF AddObserver, Receive
<1>7. ASSUME NEW g \in Gens, Rectify(g) \/ Tick(g) PROVE sending'[o] = Nil
  BY <1>2, <1>7 DEF Rectify, Select, Stop, Listened, Tick, observerVars
<1>8. ASSUME NEW empty \in BOOLEAN, SetEndpoints(empty) PROVE sending'[o] = Nil
  BY <1>2, <1>8 DEF SetEndpoints
<1>9. ASSUME NEW addr \in Addrs, StartRemove(addr) PROVE sending'[o] = Nil
  BY <1>2, <1>9 DEF StartRemove, observerVars
<1>10. CASE FinishRemove
  BY <1>2, <1>10 DEF FinishRemove, observerVars
<1>11. CASE UNCHANGED vars
  BY <1>2, <1>11 DEF vars, observerVars
<1> QED
  BY <1>3, <1>4, <1>5, <1>6, <1>7, <1>8, <1>9, <1>10, <1>11 DEF Next, Remove, Notify

(* Only Send makes a channel longer, and it sends for an observer whose    *)
(* lock is held, so for none that is closed.                               *)
LEMMA SilentNext ==
  Inv /\ ClosedIsUnlocked /\ [Next]_vars
    => [\A o \in closed : Len(notifyCh'[o]) <= Len(notifyCh[o])]_vars
<1> SUFFICES ASSUME Inv, ClosedIsUnlocked, [Next]_vars, NEW o \in closed
             PROVE  Len(notifyCh'[o]) <= Len(notifyCh[o])
  OBVIOUS
<1>1. o \in Observers /\ notifyCh \in [Observers -> Seq(Versions)] /\ Len(notifyCh[o]) \in Nat
  BY DEF Inv, TypeOK
<1>2. CASE notifyCh' = notifyCh
  BY <1>1, <1>2
<1>3. ASSUME NEW q \in Observers, Send(q) PROVE notifyCh'[o] = notifyCh[o]
  BY <1>1, <1>3 DEF Send, ClosedIsUnlocked
<1>4. ASSUME NEW q \in Observers, Receive(q) PROVE Len(notifyCh'[o]) <= Len(notifyCh[o])
  <2>1. notifyCh[q] \in Seq(Versions) /\ notifyCh[q] # <<>>
    BY <1>4 DEF Receive, Inv, TypeOK
  <2>2. Len(Tail(notifyCh[q])) <= Len(notifyCh[q])
    BY <2>1
  <2>3. notifyCh' = [notifyCh EXCEPT ![q] = Tail(notifyCh[q])]
    BY <1>4 DEF Receive
  <2> QED  BY <1>1, <2>2, <2>3
<1>5. ASSUME NEW q \in Observers, Notify(q) \/ AddObserver(q)
      PROVE  Len(notifyCh'[o]) <= Len(notifyCh[o])
  <2>1. CASE Send(q)
    BY <1>1, <1>3, <2>1
  <2>2. CASE GiveUp(q) \/ AddObserver(q) \/ \E v \in Versions : StartNotify(q, v)
    BY <1>2, <2>2 DEF GiveUp, AddObserver, StartNotify
  <2> QED  BY <1>5, <2>1, <2>2 DEF Notify
<1>6. ASSUME NEW g \in Gens, Rectify(g) \/ Tick(g) PROVE Len(notifyCh'[o]) <= Len(notifyCh[o])
  BY <1>2, <1>6 DEF Rectify, Select, Stop, Listened, Tick, observerVars
<1>7. CASE Remove \/ \E addr \in Addrs : StartRemove(addr)
  BY <1>2, <1>7 DEF Remove, FinishRemove, Close, StartRemove, observerVars
<1>8. CASE \E empty \in BOOLEAN : SetEndpoints(empty)
  BY <1>2, <1>8 DEF SetEndpoints
<1>9. CASE UNCHANGED vars
  BY <1>2, <1>9 DEF vars, observerVars
<1> QED  BY <1>4, <1>5, <1>6, <1>7, <1>8, <1>9 DEF Next

(* A closed observer's channel never gets anything more, whatever          *)
(* goroutines were about to notify it when Close was called.               *)
THEOREM SilentOnceClosed == Spec => ClosedIsSilent
<1>1. Spec => []ClosedIsUnlocked
  BY InvAlways, UnlockedInit, UnlockedNext, PTL DEF Spec
<1> QED  BY <1>1, InvAlways, SilentNext, PTL DEF Spec, ClosedIsSilent

LEMMA OfferedInit == Init => NewestIsOffered
  BY DEF Init, NewestIsOffered

LEMMA OfferedNext == Inv /\ NewestIsOffered /\ [Next]_vars => NewestIsOffered'
<1> SUFFICES ASSUME Inv, NewestIsOffered, [Next]_vars PROVE NewestIsOffered'
  OBVIOUS
<1>1. /\ sending \in [Observers -> {Nil} \cup Versions]
      /\ observers \subseteq Observers
      /\ endpoints.ver = Nil => endpoints.empty
  BY DEF Inv, TypeOK, UnsetIsEmpty, Nil
<1>2. ASSUME NEW o \in Observers, AddObserver(o) PROVE NewestIsOffered'
  BY <1>2 DEF AddObserver, Greeting, NewestIsOffered
<1>3. ASSUME NEW empty \in BOOLEAN, SetEndpoints(empty) PROVE NewestIsOffered'
  BY <1>3 DEF SetEndpoints, NewestIsOffered
<1>4. CASE Remove \/ \E addr \in Addrs : StartRemove(addr)
  BY <1>4 DEF Remove, Close, FinishRemove, StartRemove, NewestIsOffered, observerVars
<1>5. ASSUME NEW o \in Observers, NEW v \in Versions, StartNotify(o, v) PROVE NewestIsOffered'
  BY <1>1, <1>5 DEF StartNotify, NewestIsOffered, serviceVars
<1>6. ASSUME NEW o \in Observers, Send(o) \/ GiveUp(o) PROVE NewestIsOffered'
  BY <1>1, <1>6 DEF Send, GiveUp, Unlock, NewestIsOffered, serviceVars
<1>7. CASE UNCHANGED <<serviceVars, closed, pending, sending, ended>>
  BY <1>7 DEF NewestIsOffered, serviceVars
<1>8. ASSUME NEW o \in Observers, Receive(o) PROVE NewestIsOffered'
  BY <1>7, <1>8 DEF Receive
<1>9. ASSUME NEW g \in Gens, Rectify(g) \/ Tick(g) PROVE NewestIsOffered'
  BY <1>7, <1>9 DEF Rectify, Select, Stop, Listened, Tick, observerVars
<1>10. CASE UNCHANGED vars
  BY <1>7, <1>10 DEF vars, observerVars
<1> QED
  BY <1>2, <1>3, <1>4, <1>5, <1>6, <1>8, <1>9, <1>10 DEF Next, Notify

(* Whatever the order of AddObserver, SetEndpoints and notifications, an   *)
(* observer is offered the list that is in force.                          *)
THEOREM NewestIsAlwaysOffered == Spec => []NewestIsOffered
  BY InvAlways, OfferedInit, OfferedNext, PTL DEF Spec

-----------------------------------------------------------------------------
(* Rectifiers. *)

LEMMA RectifierInit == Init => RectifierInv
  BY DEF Init, RectifierInv, RectifierOK, ObservedIsRectified

LEMMA RectifierNext == Inv /\ RectifierInv /\ [Next]_vars => RectifierInv'
<1> SUFFICES ASSUME Inv, RectifierInv, [Next]_vars PROVE RectifierInv'
  OBVIOUS
<1>1. /\ Gens \subseteq Nat \ {0}
      /\ made \in Nat
      /\ stopCh \in {Nil, made}
      /\ rectifier \in [Gens -> Rectifier]
  BY GensType DEF Inv, TypeOK
<1>2. ASSUME NEW o \in Observers, AddObserver(o) PROVE RectifierInv'
  <2>1. made + 1 \in Gens
    BY <1>2, RoomForOne DEF Inv, AddObserver
  <2>2. CASE observers = {}
    <3>1. /\ made' = made + 1
          /\ stopCh' = made + 1
          /\ rectifier' = [rectifier EXCEPT ![made + 1].pc = "select"]
      BY <1>2, <2>2 DEF AddObserver, StartRectifier
    <3>2. rectifier'[made + 1].pc = "select"
      BY <1>1, <2>1, <3>1 DEF Rectifier
    <3>3. \A g \in Gens : rectifier'[g].ch = rectifier[g].ch
                          /\ (g # made + 1 => rectifier'[g].pc = rectifier[g].pc)
      BY <1>1, <2>1, <3>1 DEF Rectifier
    <3>4. \A g \in Gens : rectifier[g].ch \in {Nil} \cup Gens
      BY <1>1 DEF Rectifier
    <3>5. RectifierOK'
      <4> SUFFICES ASSUME NEW g \in Gens
                   PROVE  /\ rectifier'[g].ch = Nil
                             \/ (g <= rectifier'[g].ch /\ rectifier'[g].ch <= made')
                          /\ rectifier'[g].pc # "none" => g <= made'
        BY DEF RectifierOK
      <4> QED  BY <1>1, <2>1, <3>1, <3>3, <3>4 DEF RectifierInv, RectifierOK, Nil
    <3> QED  BY <1>1, <3>1, <3>2, <3>5 DEF RectifierInv, ObservedIsRectified, Nil
  <2>3. CASE observers # {}
    BY <1>2, <2>3 DEF AddObserver, StartRectifier, RectifierInv, RectifierOK,
                      ObservedIsRectified, rectifierVars
  <2> QED  BY <2>2, <2>3
<1>3. CASE FinishRemove
  BY <1>3 DEF FinishRemove, RectifierInv, RectifierOK, ObservedIsRectified, Nil
<1>4. ASSUME NEW g \in Gens, Rectify(g) \/ Tick(g) PROVE RectifierInv'
  <2>1. UNCHANGED <<made, stopCh, observers>>
    BY <1>4 DEF Rectify, Select, Stop, Listened, Tick, serviceVars
  <2>2. /\ rectifier[g].pc # "none" /\ rectifier'[g].pc # "none"
        /\ rectifier'[g].ch \in {rectifier[g].ch, stopCh}
        /\ \A h \in Gens \ {g} : rectifier'[h] = rectifier[h]
    BY <1>1, <1>4 DEF Rectify, Select, Stop, Listened, Tick, Rectifier
  <2>3. RectifierOK'
    <3>1. g <= made /\ g \in Nat
      BY <1>1, <2>2 DEF RectifierInv, RectifierOK
    <3>2. rectifier'[g].ch = Nil \/ (g <= rectifier'[g].ch /\ rectifier'[g].ch <= made)
      BY <1>1, <2>2, <3>1 DEF RectifierInv, RectifierOK
    <3> QED  BY <2>1, <2>2, <3>1, <3>2 DEF RectifierInv, RectifierOK
  <2>4. CASE observers = {}
    BY <2>1, <2>3, <2>4 DEF RectifierInv, ObservedIsRectified
  <2>5. CASE observers # {}
    <3>1. stopCh = made /\ stopCh # Nil
      BY <1>1, <2>5 DEF RectifierInv, ObservedIsRectified
    <3>2. CASE g = stopCh
      <4>1. rectifier[g].ch \in {Nil, stopCh}
        <5>1. rectifier[g].ch \in {Nil} \cup Gens
          BY <1>1 DEF Rectifier
        <5>2. rectifier[g].ch # Nil => g <= rectifier[g].ch /\ rectifier[g].ch <= g
          BY <3>1, <3>2 DEF RectifierInv, RectifierOK
        <5>3. g \in Nat /\ (rectifier[g].ch # Nil => rectifier[g].ch \in Nat)
          BY <1>1, <5>1
        <5>4. rectifier[g].ch # Nil => rectifier[g].ch = g
          BY <5>2, <5>3
        <5> QED  BY <3>2, <5>4
      <4>2. rectifier'[g].pc # "done"
        BY <1>1, <1>4, <4>1 DEF Rectify, Select, Stop, Listened, Tick, Rectifier
      <4> QED  BY <2>1, <2>2, <2>3, <3>1, <3>2, <4>2 DEF RectifierInv, ObservedIsRectified
    <3>3. CASE g # stopCh
      <4>1. stopCh \in Gens
        BY <1>1, <3>1 DEF Inv, TypeOK, Nil
      <4>2. rectifier'[stopCh] = rectifier[stopCh]
        BY <2>2, <3>3, <4>1
      <4> QED  BY <2>1, <2>3, <4>2 DEF RectifierInv, ObservedIsRectified
    <3> QED  BY <3>2, <3>3
  <2> QED  BY <2>4, <2>5
<1>5. CASE UNCHANGED <<observers, rectifierVars>>
  BY <1>5 DEF RectifierInv, RectifierOK, ObservedIsRectified, rectifierVars
<1>6. CASE \E empty \in BOOLEAN : SetEndpoints(empty)
  BY <1>5, <1>6 DEF SetEndpoints
<1>7. CASE \E addr \in Addrs : StartRemove(addr)
  BY <1>5, <1>7 DEF StartRemove
<1>8. ASSUME NEW o \in Observers, Close(o) \/ Notify(o) \/ Receive(o) PROVE RectifierInv'
  BY <1>5, <1>8 DEF Close, Notify, StartNotify, Send, GiveUp, Receive, serviceVars
<1>9. CASE UNCHANGED vars
  BY <1>5, <1>9 DEF vars, serviceVars
<1> QED  BY <1>2, <1>3, <1>4, <1>6, <1>7, <1>8, <1>9 DEF Next, Remove

(* While there are observers, the rectifier of the present stopCh runs.    *)
(* The argument: it was started when that channel was made, and what it    *)
(* waits for was read afterwards, so it is none or a channel not yet       *)
(* closed.                                                                 *)
THEOREM ObservedIsAlwaysRectified == Spec => []ObservedIsRectified
<1>1. RectifierInv => ObservedIsRectified
  BY DEF RectifierInv
<1> QED  BY <1>1, InvAlways, RectifierInit, RectifierNext, PTL DEF Spec
=============================================================================
