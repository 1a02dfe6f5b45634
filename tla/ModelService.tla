----------------------------- MODULE ModelService -----------------------------
(***************************************************************************)
(* The observer objects of hub/model: a service object with its lock, the  *)
(* observers of one service, each with a lock of its own, a rectifier      *)
(* goroutine and one goroutine per notification.                           *)
(***************************************************************************)
EXTENDS Naturals, Sequences, FiniteSets

CONSTANTS
    Observers,    \* client observers, each of them added once
    Addrs,        \* client addresses
    AddrOf,       \* the address of an observer
    OtherPort,    \* observers whose spec names another port than the service's
    ChanCap,      \* capacity of each notifyCh
    MaxVersion    \* bound: calls of SetEndpoints

ASSUME ObserverAssumption ==
    /\ AddrOf \in [Observers -> Addrs]
    /\ OtherPort \subseteq Observers
    /\ IsFiniteSet(Observers)
ASSUME NumberAssumption == ChanCap \in Nat /\ MaxVersion \in Nat

Nil == 0                          \* no stopCh, and no Notify that sends
Gens == 1..Cardinality(Observers) \* stopChs, and rectifiers, ever made
Versions == 1..MaxVersion         \* calls of SetEndpoints

VARIABLES
    endpoints,  \* so.endpoints: which call set it, and whether it has no instance
    observers,  \* so.observers
    added,      \* observers ever added
    locked,     \* RemoveObservers holds so.lock ...
    removing,   \* ... and has these observers still to close
    closed,     \* observers whose `closed` is set
    pending,    \* goroutines at co.Notify: observer and version
    sending,    \* per observer, the version the holder of co.lock sends, or Nil
    ended,      \* goroutines co.Notify has returned to (history)
    notifyCh,   \* per observer, the versions in its channel
    made,       \* number of stopChs made
    stopCh,     \* so.stopCh: its number, or Nil
    rectifier   \* per stopCh, the goroutine that was started with it

serviceVars == <<endpoints, observers, added, locked, removing>>
observerVars == <<closed, pending, sending, ended, notifyCh>>
rectifierVars == <<made, stopCh, rectifier>>
vars == <<serviceVars, observerVars, rectifierVars>>

(* A rectifier reads so.stopCh each time its select starts; `ch` is what it *)
(* waits for.                                                              *)
Rectifier == [pc : {"none", "select", "wait", "listen", "done"}, ch : {Nil} \cup Gens]

Init ==
    /\ endpoints = [ver |-> 0, empty |-> TRUE]
    /\ observers = {} /\ added = {}
    /\ locked = FALSE /\ removing = {}
    /\ closed = {} /\ pending = {} /\ ended = {}
    /\ sending = [o \in Observers |-> Nil]
    /\ notifyCh = [o \in Observers |-> <<>>]
    /\ made = 0
    /\ stopCh = Nil
    /\ rectifier = [g \in Gens |-> [pc |-> "none", ch |-> Nil]]

-----------------------------------------------------------------------------
(* The service object.  A call that needs so.lock runs from beginning to   *)
(* end, but RemoveObservers, which waits for the locks of observers.       *)

(* The first observer starts a rectifier. *)
StartOnce ==  \* mutant: only the very first one ever does
    IF made = 0
    THEN made' = 1 /\ stopCh' = 1 /\ rectifier' = [rectifier EXCEPT ![1].pc = "select"]
    ELSE UNCHANGED rectifierVars
StartRectifier ==
    IF observers = {}
    THEN /\ made' = made + 1
         /\ stopCh' = made + 1
         /\ rectifier' = [rectifier EXCEPT ![made + 1].pc = "select"]
    ELSE UNCHANGED rectifierVars

(* go co.Notify(so.endpoints), unless there is no instance. *)
NoGreeting(o) == {}  \* mutant: a new observer waits for the next change
Greeting(o) == IF endpoints.empty THEN {} ELSE {<<o, endpoints.ver>>}

AddObserver(o) ==
    /\ ~locked
    /\ o \notin added
    /\ StartRectifier
    /\ observers' = observers \cup {o}
    /\ added' = added \cup {o}
    /\ pending' = pending \cup Greeting(o)
    /\ UNCHANGED <<endpoints, locked, removing, closed, sending, ended, notifyCh>>

(* Every observer is notified, of an empty list too. *)
SetEndpoints(empty) ==
    /\ ~locked
    /\ endpoints.ver < MaxVersion
    /\ endpoints' = [ver |-> endpoints.ver + 1, empty |-> empty]
    /\ pending' = pending \cup {<<o, endpoints.ver + 1>> : o \in observers}
    /\ UNCHANGED <<observers, added, locked, removing, closed, sending, ended,
                   notifyCh, rectifierVars>>

(* RemoveObservers passes over observers of another spec, whatever their   *)
(* address.                                                                *)
EverLeaving(addr) == {o \in added : AddrOf[o] = addr}  \* mutant: removed ones too
Leaving(addr) == {o \in observers \ OtherPort : AddrOf[o] = addr}

(* Without observers it returns. *)
StartRemove(addr) ==
    /\ ~locked
    /\ observers # {}
    /\ locked' = TRUE
    /\ removing' = Leaving(addr)
    /\ UNCHANGED <<endpoints, observers, added, observerVars, rectifierVars>>

(* Close waits for the Notify that holds co.lock. *)
CanAlwaysClose(o) == TRUE  \* mutant: Close takes no lock
CanClose(o) == sending[o] = Nil

Close(o) ==
    /\ o \in removing
    /\ CanClose(o)
    /\ closed' = closed \cup {o}
    /\ removing' = removing \ {o}
    /\ UNCHANGED <<endpoints, observers, added, locked, pending, sending, ended,
                   notifyCh, rectifierVars>>

FinishRemove ==
    LET remaining == observers \ closed
    IN  /\ locked
        /\ removing = {}
        /\ locked' = FALSE
        /\ observers' = remaining
        /\ stopCh' = IF remaining = {} THEN Nil ELSE stopCh
        /\ UNCHANGED <<endpoints, added, removing, observerVars, made, rectifier>>

-----------------------------------------------------------------------------
(* Notify, in a goroutine of its own each time. *)

(* It takes co.lock and returns when the observer is closed. *)
StartNotify(o, v) ==
    /\ <<o, v>> \in pending
    /\ sending[o] = Nil
    /\ pending' = pending \ {<<o, v>>}
    /\ IF o \in closed
       THEN sending' = sending /\ ended' = ended \cup {<<o, v>>}
       ELSE sending' = [sending EXCEPT ![o] = v] /\ ended' = ended
    /\ UNCHANGED <<serviceVars, closed, notifyCh, rectifierVars>>

Unlock(o) ==
    /\ sending' = [sending EXCEPT ![o] = Nil]
    /\ ended' = ended \cup {<<o, sending[o]>>}

(* The channel has room ... *)
Send(o) ==
    /\ sending[o] # Nil
    /\ Len(notifyCh[o]) < ChanCap
    /\ notifyCh' = [notifyCh EXCEPT ![o] = Append(@, sending[o])]
    /\ Unlock(o)
    /\ UNCHANGED <<serviceVars, closed, pending, rectifierVars>>

WaitForRoom(o) ==  \* mutant: no timer
    /\ sending[o] # Nil
    /\ Len(notifyCh[o]) < ChanCap
    /\ Unlock(o)
    /\ UNCHANGED <<serviceVars, closed, pending, notifyCh, rectifierVars>>
(* ... or --observer-notify-timeout passes first, and the list is dropped. *)
GiveUp(o) ==
    /\ sending[o] # Nil
    /\ Unlock(o)
    /\ UNCHANGED <<serviceVars, closed, pending, notifyCh, rectifierVars>>

(* The client's goroutine, which may stop reading. *)
Receive(o) ==
    /\ notifyCh[o] # <<>>
    /\ notifyCh' = [notifyCh EXCEPT ![o] = Tail(@)]
    /\ UNCHANGED <<serviceVars, closed, pending, sending, ended, rectifierVars>>

-----------------------------------------------------------------------------
(* startAutoRectify, the g-th goroutine. *)

(* The select begins: so.stopCh is read, without the lock. *)
Select(g) ==
    /\ rectifier[g].pc = "select"
    /\ rectifier' = [rectifier EXCEPT ![g] = [pc |-> "wait", ch |-> stopCh]]
    /\ UNCHANGED <<serviceVars, observerVars, made, stopCh>>

(* Every stopCh but the present one is closed; a nil channel never fires. *)
Stop(g) ==
    /\ rectifier[g].pc = "wait"
    /\ rectifier[g].ch \notin {Nil, stopCh}
    /\ rectifier' = [rectifier EXCEPT ![g].pc = "done"]
    /\ UNCHANGED <<serviceVars, observerVars, made, stopCh>>

(* A tick: the listener runs. *)
Tick(g) ==
    /\ rectifier[g].pc = "wait"
    /\ rectifier' = [rectifier EXCEPT ![g].pc = "listen"]
    /\ UNCHANGED <<serviceVars, observerVars, made, stopCh>>

Listened(g) ==
    /\ rectifier[g].pc = "listen"
    /\ rectifier' = [rectifier EXCEPT ![g].pc = "select"]
    /\ UNCHANGED <<serviceVars, observerVars, made, stopCh>>

-----------------------------------------------------------------------------
Remove == FinishRemove \/ \E o \in Observers : Close(o)
Notify(o) == Send(o) \/ GiveUp(o) \/ \E v \in Versions : StartNotify(o, v)
Rectify(g) == Select(g) \/ Stop(g) \/ Listened(g)

Next ==
    \/ \E o \in Observers : AddObserver(o)
    \/ \E empty \in BOOLEAN : SetEndpoints(empty)
    \/ \E addr \in Addrs : StartRemove(addr)
    \/ Remove
    \/ \E o \in Observers : Notify(o) \/ Receive(o)
    \/ \E g \in Gens : Rectify(g) \/ Tick(g)

(* Goroutines that can run do, locks are handed on, and the notification   *)
(* timer fires.  Nobody has to call the service object or read a channel.  *)
Fairness ==
    /\ WF_vars(Remove)
    /\ \A o \in Observers : WF_vars(Notify(o))
    /\ \A g \in Gens : WF_vars(Rectify(g))

Spec == Init /\ [][Next]_vars
FairSpec == Spec /\ Fairness

-----------------------------------------------------------------------------
(* The values of every variable; RemoveObservers closes observers of the   *)
(* service only, and keeps the lock until it has closed them.              *)
TypeOK ==
    /\ endpoints \in [ver : 0..MaxVersion, empty : BOOLEAN]
    /\ observers \subseteq added /\ added \subseteq Observers
    /\ locked \in BOOLEAN
    /\ removing \subseteq observers
    /\ removing # {} => locked
    /\ closed \subseteq Observers
    /\ pending \subseteq Observers \X Versions
    /\ ended \subseteq Observers \X Versions
    /\ sending \in [Observers -> {Nil} \cup Versions]
    /\ notifyCh \in [Observers -> Seq(Versions)]
    /\ \A o \in Observers : Len(notifyCh[o]) <= ChanCap
    /\ made \in {0} \cup Gens
    /\ stopCh \in {Nil, made}
    /\ rectifier \in [Gens -> Rectifier]

(* An observer that was closed gets nothing any more, not even from a      *)
(* Notify that was under way when RemoveObservers came.                    *)
ClosedIsSilent ==
    [][\A o \in closed : Len(notifyCh'[o]) <= Len(notifyCh[o])]_vars

(* AddObserver and SetEndpoints leave no gap between them: an observer has *)
(* been offered the present list, or a goroutine is about to, whatever the *)
(* order of the calls.                                                     *)
NewestIsOffered ==
    \A o \in observers \ closed :
        endpoints.empty
        \/ <<o, endpoints.ver>> \in pending \cup ended
        \/ sending[o] = endpoints.ver

(* "Start the auto rectify goroutine": while there are observers one of    *)
(* them runs, the one of the present stopCh, though an earlier one may     *)
(* read that channel too.                                                  *)
ObservedIsRectified ==
    observers # {} => stopCh # Nil /\ rectifier[stopCh].pc \notin {"none", "done"}

(* A client that does not read can keep neither RemoveObservers, and       *)
(* so.lock with it, nor a goroutine that is to notify it: every call       *)
(* returns, although Notify waits with co.lock held and Close waits for    *)
(* that lock.                                                              *)
CallsReturn ==
    /\ locked ~> ~locked
    /\ \A o \in Observers, v \in Versions : <<o, v>> \in pending ~> <<o, v>> \in ended
=============================================================================
