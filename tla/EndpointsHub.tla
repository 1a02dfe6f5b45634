---------------------------- MODULE EndpointsHub ----------------------------
(***************************************************************************)
(* The endpoints hub of SkyLB (hub/hub.go, hub/observer.go,                *)
(* hub/endpoints.go) together with the gRPC handler that feeds clients     *)
(* from it (rpc/server.go, Resolve).                                       *)
(*                                                                         *)
(* The goroutines are                                                      *)
(*   - the main watcher of the etcd directory of endpoints,                *)
(*   - one rectifier per service, started when the service is first asked  *)
(*     for and never stopped,                                              *)
(*   - the short-lived notifiers applyEndpoints spawns, one per observer,  *)
(*   - one Resolve handler per client stream.                              *)
(* A step is what one goroutine does between two points where another one  *)
(* can interfere: a lock taken, an etcd request, a channel operation, an   *)
(* atomic counter.  The registry in etcd changes at any time.              *)
(***************************************************************************)
EXTENDS Integers, Sequences, FiniteSets

CONSTANTS
    Services,               \* namespace/name pairs, the keys of eh.services
    Ports,                  \* port names
    Instances,              \* host:port pairs servers register
    PortOf,                 \* the port name an instance registers under
    Streams,                \* Resolve calls; each one runs once
    Addrs,                  \* peer addresses of gRPC connections
    AddrOf,                 \* the connection a stream belongs to
    Request,                \* the service specs a stream asks for
    Watcher,                \* the main watcher goroutine
    NoService,              \* a nil *serviceObject
    NoStream,               \* nobody holds the hub's write lock
    ChanCapMultiplication,  \* room in notifyCh per requested spec
    Slots,                  \* bound: notifiers of one observer alive at once
    MaxVersion,             \* bound: changes of one service in etcd
    MaxTicks,               \* bound: ticks of one service's rectifier
    FetchMayFail,           \* whether etcd reads may return an error
    EventsMayBeLost         \* whether etcd may clear its event index

(* spec.String() tells specs apart by namespace, name and port name. *)
Specs == [svc : Services, port : Ports]

ASSUME PortAssumption == PortOf \in [Instances -> Ports]
ASSUME AddrAssumption == AddrOf \in [Streams -> Addrs]
ASSUME RequestAssumption == Request \in [Streams -> Seq(Specs)]
ASSUME WatcherAssumption == Watcher \notin Services
ASSUME NoStreamAssumption == NoStream \notin Streams
ASSUME BoundAssumption ==
    /\ ChanCapMultiplication \in Nat \ {0}
    /\ MaxVersion \in Nat
    /\ MaxTicks \in Nat
    /\ FetchMayFail \in BOOLEAN
    /\ EventsMayBeLost \in BOOLEAN

(* What one read of a service directory returns: the instances that are    *)
(* alive and the version of the directory, etcd's modification index.      *)
Contents == [insts : SUBSET Instances, ver : Nat]

(* An EndpointsUpdate, with the version its list was read at.  The version *)
(* is not sent: it is there for the properties.                            *)
Updates == [id : Nat, spec : Specs, insts : SUBSET Instances, ver : Nat]
NoUpdate == [id |-> 0]

(* One observer per stream and requested spec. *)
Observers == UNION {{st} \X (1..Len(Request[st])) : st \in Streams}

ServiceObjects ==
    [spec : Specs, endpoints : SUBSET Instances, observers : SUBSET Observers]

ASSUME NoServiceAssumption == NoService \notin ServiceObjects

Updaters == Services \cup {Watcher}

VARIABLES
    registry,      \* per service, its directory in etcd
    events,        \* watch events the main watcher has not read yet
    updater,       \* per watcher and rectifier, the update it is working on
    ticks,         \* per service, how often its rectifier has ticked
    services,      \* eh.services
    hubLock,       \* the stream whose AddObserver holds eh's write lock
    nextUpdateId,  \* the global id counter
    notifier,      \* per observer and slot, a goroutine of applyEndpoints
    notifyCh,      \* per stream, the channel from the hub to the handler
    stopped,       \* the observers whose stopCh is closed
    pc,            \* per stream, where its handler is
    at,            \* per stream, the spec its loops are at
    fetched,       \* per stream, what AddObserver has read from etcd
    cur,           \* per stream, the update in its handler's hands
    maxIds,        \* per stream and spec, the largest id let through
    sent           \* per stream and spec, the last update the client got

hubVars == <<services, hubLock, stopped>>
updaterVars == <<updater, ticks>>
etcdVars == <<registry, events>>
streamVars == <<pc, at, fetched, cur, maxIds, sent>>
notifyVars == <<nextUpdateId, notifier, notifyCh>>
vars == <<registry, events, updater, ticks, services, hubLock, nextUpdateId,
          notifier, notifyCh, stopped, pc, at, fetched, cur, maxIds, sent>>

Idle == [pc |-> "idle", up |-> NoUpdate]
NoContents == [insts |-> {}, ver |-> 0]

SpecOf(o) == Request[o[1]][o[2]]
SpecAt(st) == Request[st][at[st]]
Cap(st) == ChanCapMultiplication * Len(Request[st])
Full(st) == Len(notifyCh[st]) >= Cap(st)

SelectAll(spec, insts) == insts  \* mutant: port names are not compared
(* skypbEndpointsToMap and skypbEndpointsToSlice: the instances listed     *)
(* under the port name the spec asks for.                                  *)
Select(spec, insts) == {i \in insts : PortOf[i] = spec.port}

-----------------------------------------------------------------------------
Init ==
    /\ registry = [s \in Services |-> NoContents]
    /\ events = <<>>
    /\ updater = [u \in Updaters |-> [pc |-> "idle", svc |-> u, reg |-> NoContents]]
    /\ ticks = [s \in Services |-> 0]
    /\ services = [s \in Services |-> NoService]
    /\ hubLock = NoStream
    /\ nextUpdateId = 0
    /\ notifier = [o \in Observers |-> [k \in Slots |-> Idle]]
    /\ notifyCh = [st \in Streams |-> <<>>]
    /\ stopped = {}
    /\ pc = [st \in Streams |-> "idle"]
    /\ at = [st \in Streams |-> 1]
    /\ fetched = [st \in Streams |-> NoContents]
    /\ cur = [st \in Streams |-> NoUpdate]
    /\ maxIds = [st \in Streams |-> [sp \in Specs |-> 0]]
    /\ sent = [st \in Streams |-> [sp \in Specs |-> NoUpdate]]

-----------------------------------------------------------------------------
(* etcd.  Servers set their key (again, when they restart), keys expire or *)
(* are deleted.  Every change raises one watch event for the directory.    *)

Change(s, insts) ==
    /\ registry[s].ver < MaxVersion
    /\ registry' = [registry EXCEPT ![s] = [insts |-> insts, ver |-> @.ver + 1]]
    /\ events' = Append(events, s)
    /\ UNCHANGED <<updaterVars, hubVars, notifyVars, streamVars>>

SetKey(s, i) == Change(s, registry[s].insts \cup {i})

DropKey(s, i) ==
    /\ i \in registry[s].insts
    /\ Change(s, registry[s].insts \ {i})

(* ErrorCodeEventIndexCleared or ErrorCodeWatcherCleared: the new watcher  *)
(* starts from the current index.                                          *)
LoseEvents ==
    /\ EventsMayBeLost
    /\ updater[Watcher].pc = "idle"
    /\ events # <<>>
    /\ events' = <<>>
    /\ UNCHANGED <<registry, updaterVars, hubVars, notifyVars, streamVars>>

-----------------------------------------------------------------------------
(* The two kinds of updaters run updateEndpoints.                          *)

Begin(u, s) ==
    updater' = [updater EXCEPT ![u] = [pc |-> "lookup", svc |-> s, reg |-> NoContents]]

(* w.Next and extractUpdates: the service is the directory of the key. *)
WatchNext ==
    /\ updater[Watcher].pc = "idle"
    /\ events # <<>>
    /\ Begin(Watcher, Head(events))
    /\ events' = Tail(events)
    /\ UNCHANGED <<registry, ticks, hubVars, notifyVars, streamVars>>

(* A tick of the goroutine AddObserver starts with the service object. *)
RectifyTick(s) ==
    /\ services[s] # NoService
    /\ updater[s].pc = "idle"
    /\ ticks[s] < MaxTicks
    /\ ticks' = [ticks EXCEPT ![s] = @ + 1]
    /\ Begin(s, s)
    /\ UNCHANGED <<etcdVars, hubVars, notifyVars, streamVars>>

AfterLookupNoNilCheck(so) == "fetch"  \* mutant
AfterLookup(so) == IF so = NoService THEN "idle" ELSE "fetch"

(* updateEndpoints looks the service up under the hub's read lock. *)
Lookup(u) ==
    /\ updater[u].pc = "lookup"
    /\ hubLock = NoStream
    /\ updater' = [updater EXCEPT ![u].pc = AfterLookup(services[updater[u].svc])]
    /\ UNCHANGED <<etcdVars, ticks, hubVars, notifyVars, streamVars>>

(* fetchEndpoints, under no lock.  A missing directory reads as empty. *)
Fetch(u) ==
    /\ updater[u].pc = "fetch"
    /\ updater' = [updater EXCEPT ![u].pc = "apply",
                                  ![u].reg = registry[updater[u].svc]]
    /\ UNCHANGED <<etcdVars, ticks, hubVars, notifyVars, streamVars>>

FetchError(u) ==
    /\ FetchMayFail
    /\ updater[u].pc = "fetch"
    /\ updater' = [updater EXCEPT ![u].pc = "idle"]
    /\ UNCHANGED <<etcdVars, ticks, hubVars, notifyVars, streamVars>>

FreeSlot(o) == CHOOSE k \in Slots : notifier[o][k] = Idle

(* One goroutine per observer; one that finds the list empty returns       *)
(* without a trace.  Its update has no id yet.                             *)
Spawn(obs, up) ==
    notifier' = [o \in Observers |->
        IF o \in obs /\ up.insts # {}
        THEN [notifier[o] EXCEPT ![FreeSlot(o)] = [pc |-> "start", up |-> up]]
        ELSE notifier[o]]

(* applyEndpoints: under the service's lock the endpoints are replaced and *)
(* the list of observers is copied.  The list is made for the spec the     *)
(* service object was created with, whoever observes it.                   *)
Apply(u) ==
    LET s  == updater[u].svc
        so == services[s]
        eps == Select(so.spec, updater[u].reg.insts)
        up == [id |-> 0, spec |-> so.spec, insts |-> eps, ver |-> updater[u].reg.ver]
    IN  /\ updater[u].pc = "apply"
        /\ \A o \in so.observers : \E k \in Slots : notifier[o][k] = Idle
        /\ services' = [services EXCEPT ![s].endpoints = eps]
        /\ Spawn(so.observers, up)
        /\ updater' = [updater EXCEPT ![u].pc = "idle"]
        /\ UNCHANGED <<etcdVars, ticks, hubLock, stopped, nextUpdateId, notifyCh,
                       streamVars>>

-----------------------------------------------------------------------------
(* A notifier of applyEndpoints takes its id when it runs, then waits for  *)
(* room in the channel or for the observer to be stopped.                  *)

(* atomic.AddInt64(&nextUpdateId, 1) *)
DrawnIdUnincremented == nextUpdateId  \* mutant
DrawnId == nextUpdateId + 1

NotifyTakeId(o, k) ==
    /\ notifier[o][k].pc = "start"
    /\ nextUpdateId' = nextUpdateId + 1
    /\ notifier' = [notifier EXCEPT ![o][k].pc = "send", ![o][k].up.id = DrawnId]
    /\ UNCHANGED <<etcdVars, updaterVars, hubVars, notifyCh, streamVars>>

NotifySendOrDrop(o, k) ==  \* mutant: a send that does not wait
    /\ notifier[o][k].pc = "send"
    /\ notifyCh' = [notifyCh EXCEPT ![o[1]] =
                        IF Full(o[1]) THEN @ ELSE Append(@, notifier[o][k].up)]
    /\ notifier' = [notifier EXCEPT ![o][k] = Idle]
    /\ UNCHANGED <<etcdVars, updaterVars, hubVars, nextUpdateId, streamVars>>
NotifySend(o, k) ==
    /\ notifier[o][k].pc = "send"
    /\ ~Full(o[1])
    /\ notifyCh' = [notifyCh EXCEPT ![o[1]] = Append(@, notifier[o][k].up)]
    /\ notifier' = [notifier EXCEPT ![o][k] = Idle]
    /\ UNCHANGED <<etcdVars, updaterVars, hubVars, nextUpdateId, streamVars>>

NotifyStopIgnored(o, k) == FALSE /\ UNCHANGED vars  \* mutant: no case for stopCh
NotifyStop(o, k) ==
    /\ notifier[o][k].pc = "send"
    /\ o \in stopped
    /\ notifier' = [notifier EXCEPT ![o][k] = Idle]
    /\ UNCHANGED <<etcdVars, updaterVars, hubVars, nextUpdateId, notifyCh, streamVars>>

-----------------------------------------------------------------------------
(* Resolve and the AddObserver it calls. *)

GoTo(st, where) == pc' = [pc EXCEPT ![st] = where]

(* The handler starts.  A request without specs is refused. *)
Resolve(st) ==
    /\ pc[st] = "idle"
    /\ GoTo(st, IF Request[st] = <<>> THEN "failed" ELSE "fetch")
    /\ UNCHANGED <<etcdVars, updaterVars, hubVars, notifyVars, at, fetched, cur,
                   maxIds, sent>>

(* AddObserver reads the service before it takes any lock. *)
AddFetch(st) ==
    /\ pc[st] = "fetch"
    /\ fetched' = [fetched EXCEPT ![st] = registry[SpecAt(st).svc]]
    /\ GoTo(st, "register")
    /\ UNCHANGED <<etcdVars, updaterVars, hubVars, notifyVars, at, cur, maxIds, sent>>

(* The read fails: AddObserver returns, and so does Resolve, before it has *)
(* deferred RemoveObserver.                                                *)
AddFetchError(st) ==
    /\ FetchMayFail
    /\ pc[st] = "fetch"
    /\ GoTo(st, "failed")
    /\ UNCHANGED <<etcdVars, updaterVars, hubVars, notifyVars, at, fetched, cur,
                   maxIds, sent>>

ServiceOverwritten(old, new) == new  \* mutant
ServiceFor(old, new) == IF old = NoService THEN new ELSE old

(* Under the hub's write lock: the service object is created if there is   *)
(* none, and the first update of the spec gets its id.                     *)
AddRegister(st) ==
    LET spec == SpecAt(st)
        eps == Select(spec, fetched[st].insts)
        new == [spec |-> spec, endpoints |-> eps, observers |-> {}]
    IN  /\ pc[st] = "register"
        /\ hubLock = NoStream
        /\ hubLock' = st
        /\ services' = [services EXCEPT ![spec.svc] = ServiceFor(@, new)]
        /\ nextUpdateId' = nextUpdateId + 1
        /\ cur' = [cur EXCEPT ![st] = [id |-> DrawnId, spec |-> spec, insts |-> eps,
                                       ver |-> fetched[st].ver]]
        /\ GoTo(st, "notify")
        /\ UNCHANGED <<etcdVars, updaterVars, notifier, notifyCh, stopped, at,
                       fetched, maxIds, sent>>

Unlock == hubLock' = NoStream

(* mutant: no first update for a service without instances *)
FirstUpdateUnlessEmpty(st) ==
    IF cur[st].insts = {} THEN notifyCh[st] ELSE Append(notifyCh[st], cur[st])
(* The first update goes into the channel even when its list is empty. *)
FirstUpdate(st) == Append(notifyCh[st], cur[st])

(* Still under the lock, the update goes into the channel; then the lock   *)
(* is released.                                                            *)
AddNotify(st) ==
    /\ pc[st] = "notify"
    /\ ~Full(st)
    /\ notifyCh' = [notifyCh EXCEPT ![st] = FirstUpdate(st)]
    /\ cur' = [cur EXCEPT ![st] = NoUpdate]
    /\ Unlock
    /\ GoTo(st, "observe")
    /\ UNCHANGED <<etcdVars, updaterVars, services, nextUpdateId, notifier, stopped,
                   at, fetched, maxIds, sent>>

(* Under the service's lock the observer joins; then the next spec. *)
AddObserve(st) ==
    LET more == at[st] < Len(Request[st])
    IN  /\ pc[st] = "observe"
        /\ services' = [services EXCEPT ![SpecAt(st).svc].observers = @ \cup {<<st, at[st]>>}]
        /\ at' = [at EXCEPT ![st] = IF more THEN @ + 1 ELSE 1]
        /\ fetched' = [fetched EXCEPT ![st] = NoContents]
        /\ GoTo(st, IF more THEN "fetch" ELSE "serve")
        /\ UNCHANGED <<etcdVars, updaterVars, hubLock, stopped, notifyVars, cur,
                       maxIds, sent>>

-----------------------------------------------------------------------------
(* The loop of Resolve and the deferred RemoveObserver. *)

AutoDisconnect(st) ==
    /\ pc[st] = "serve"
    /\ GoTo(st, "remove")
    /\ UNCHANGED <<etcdVars, updaterVars, hubVars, notifyVars, at, fetched, cur,
                   maxIds, sent>>

IsFreshAlways(st, up) == TRUE  \* mutant
(* Whether the handler lets an update through: it skips old ones. *)
IsFresh(st, up) == up.id >= maxIds[st][up.spec]

(* An update from the channel is skipped or handed to stream.Send. *)
Receive(st) ==
    LET up == Head(notifyCh[st])
    IN  /\ pc[st] = "serve"
        /\ notifyCh[st] # <<>>
        /\ notifyCh' = [notifyCh EXCEPT ![st] = Tail(@)]
        /\ IF IsFresh(st, up)
           THEN /\ maxIds' = [maxIds EXCEPT ![st][up.spec] = up.id]
                /\ cur' = [cur EXCEPT ![st] = up]
                /\ GoTo(st, "send")
           ELSE UNCHANGED <<maxIds, cur, pc>>
        /\ UNCHANGED <<etcdVars, updaterVars, hubVars, nextUpdateId, notifier, at,
                       fetched, sent>>

SendOk(st) ==
    /\ pc[st] = "send"
    /\ sent' = [sent EXCEPT ![st][cur[st].spec] = cur[st]]
    /\ cur' = [cur EXCEPT ![st] = NoUpdate]
    /\ GoTo(st, "serve")
    /\ UNCHANGED <<etcdVars, updaterVars, hubVars, notifyVars, at, fetched, maxIds>>

(* stream.Send fails, or takes longer than the notify timeout. *)
SendFail(st) ==
    /\ pc[st] = "send"
    /\ cur' = [cur EXCEPT ![st] = NoUpdate]
    /\ GoTo(st, "remove")
    /\ UNCHANGED <<etcdVars, updaterVars, hubVars, notifyVars, at, fetched, maxIds, sent>>

MatchingFirst(so, spec, addr) ==  \* mutant: one observer, not all
    LET all == {o \in so.observers : AddrOf[o[1]] = addr /\ SpecOf(o) = spec}
    IN  IF all = {} THEN {} ELSE {CHOOSE o \in all : TRUE}
(* removeObserverFromSlice goes by address and spec, not by stream. *)
Matching(so, spec, addr) ==
    {o \in so.observers : AddrOf[o[1]] = addr /\ SpecOf(o) = spec}

RemainingAll(so, gone) == so.observers  \* mutant: the new slice is not assigned
Remaining(so, gone) == so.observers \ gone

(* One iteration of RemoveObserver: the service is looked up under the     *)
(* hub's read lock, its observers are replaced under the service's lock.   *)
Remove(st) ==
    LET s == SpecAt(st).svc
        gone == Matching(services[s], SpecAt(st), AddrOf[st])
        more == at[st] < Len(Request[st]) /\ services[s] # NoService
    IN  /\ pc[st] = "remove"
        /\ hubLock = NoStream
        /\ IF services[s] = NoService
           THEN UNCHANGED <<services, stopped>>
           ELSE /\ services' = [services EXCEPT ![s].observers = Remaining(services[s], gone)]
                /\ stopped' = stopped \cup gone
        /\ at' = [at EXCEPT ![st] = IF more THEN @ + 1 ELSE 1]
        /\ GoTo(st, IF more THEN "remove" ELSE "ended")
        /\ UNCHANGED <<etcdVars, updaterVars, hubLock, notifyVars, fetched, cur, maxIds, sent>>

-----------------------------------------------------------------------------
(* The hub has nothing left to do: not a step of the program, it only      *)
(* tells an orderly end of a bounded run from goroutines that are stuck.   *)
Over(st) == pc[st] \in {"ended", "failed"}
Settled ==
    /\ \A st \in Streams : Over(st)
    /\ \A u \in Updaters : updater[u].pc = "idle"
    /\ \A o \in Observers, k \in Slots : notifier[o][k] = Idle
    /\ hubLock = NoStream
    /\ UNCHANGED vars

Registry == \E s \in Services, i \in Instances : SetKey(s, i) \/ DropKey(s, i)

UpdaterStep(u) == Lookup(u) \/ Fetch(u) \/ FetchError(u) \/ Apply(u)

NotifierStep(o, k) == NotifyTakeId(o, k) \/ NotifySend(o, k) \/ NotifyStop(o, k)

(* The steps of a handler that do not wait for the world outside: the      *)
(* client's call and the auto-disconnect timer, minutes away, are left out.*)
HandlerStep(st) ==
    \/ AddFetch(st) \/ AddFetchError(st) \/ AddRegister(st)
    \/ AddNotify(st) \/ AddObserve(st)
    \/ Receive(st) \/ SendOk(st) \/ SendFail(st)
    \/ Remove(st)

Next ==
    \/ Registry
    \/ LoseEvents
    \/ WatchNext
    \/ \E s \in Services : RectifyTick(s)
    \/ \E u \in Updaters : UpdaterStep(u)
    \/ \E o \in Observers, k \in Slots : NotifierStep(o, k)
    \/ \E st \in Streams : Resolve(st) \/ AutoDisconnect(st) \/ HandlerStep(st)
    \/ Settled

(* Every goroutine that can run does.  Nothing makes the registry change,  *)
(* a client call, a timer or a ticker fire, or an error happen.            *)
Fairness ==
    /\ WF_vars(WatchNext)
    /\ \A u \in Updaters : WF_vars(UpdaterStep(u))
    /\ \A o \in Observers, k \in Slots : WF_vars(NotifierStep(o, k))
    /\ \A st \in Streams : WF_vars(HandlerStep(st))

Spec == Init /\ [][Next]_vars
FairSpec == Spec /\ Fairness

-----------------------------------------------------------------------------
(* Type invariant. *)

(* The values of every variable.  An updater or a notifier at work carries *)
(* an update of a service or an observer that exists.                      *)
TypeOK ==
    /\ registry \in [Services -> Contents]
    /\ events \in Seq(Services)
    /\ updater \in [Updaters -> [pc : {"idle", "lookup", "fetch", "apply"},
                                 svc : Updaters, reg : Contents]]
    /\ \A u \in Updaters : updater[u].pc # "idle" => updater[u].svc \in Services
    /\ \A u \in Updaters :
            updater[u].pc \in {"fetch", "apply"} => services[updater[u].svc] # NoService
    /\ ticks \in [Services -> Nat]
    /\ services \in [Services -> ServiceObjects \cup {NoService}]
    /\ hubLock \in Streams \cup {NoStream}
    /\ nextUpdateId \in Nat
    /\ notifier \in [Observers -> [Slots ->
            {Idle} \cup [pc : {"start", "send"}, up : Updates]]]
    /\ notifyCh \in [Streams -> Seq(Updates)]
    /\ stopped \in SUBSET Observers
    /\ pc \in [Streams -> {"idle", "fetch", "register", "notify", "observe",
                           "serve", "send", "remove", "ended", "failed"}]
    /\ at \in [Streams -> Nat]
    /\ \A st \in Streams :
            pc[st] \notin {"idle", "ended", "failed"} => at[st] \in 1..Len(Request[st])
    /\ \A st \in Streams : pc[st] \in {"idle", "serve", "send"} => at[st] = 1
    /\ \A st \in Streams :
            pc[st] \in {"notify", "observe"} => services[SpecAt(st).svc] # NoService
    /\ fetched \in [Streams -> Contents]
    /\ cur \in [Streams -> Updates \cup {NoUpdate}]
    /\ \A st \in Streams : pc[st] \in {"notify", "send"} => cur[st] \in Updates
    /\ maxIds \in [Streams -> [Specs -> Nat]]
    /\ sent \in [Streams -> [Specs -> Updates \cup {NoUpdate}]]

-----------------------------------------------------------------------------
(* Update ids. *)

(* The updates on their way to a stream: in its channel, in the hands of   *)
(* AddObserver, or held by a notifier that waits for room.                 *)
Waiting(st) ==
    {w \in Observers \X Slots : w[1][1] = st /\ notifier[w[1]][w[2]].pc = "send"}
UpOf(w) == notifier[w[1]][w[2]].up

UniqueFor(st) ==
    /\ \A i, j \in DOMAIN notifyCh[st] : notifyCh[st][i].id = notifyCh[st][j].id => i = j
    /\ \A v, w \in Waiting(st) : UpOf(v).id = UpOf(w).id => v = w
    /\ \A i \in DOMAIN notifyCh[st], w \in Waiting(st) : notifyCh[st][i].id # UpOf(w).id
    /\ pc[st] = "notify" =>
        /\ \A i \in DOMAIN notifyCh[st] : notifyCh[st][i].id # cur[st].id
        /\ \A w \in Waiting(st) : UpOf(w).id # cur[st].id
        /\ \A sp \in Specs : cur[st].id # maxIds[st][sp]
    /\ \A sp \in Specs :
        /\ \A i \in DOMAIN notifyCh[st] : notifyCh[st][i].id # maxIds[st][sp]
        /\ \A w \in Waiting(st) : UpOf(w).id # maxIds[st][sp]
        /\ maxIds[st][sp] <= nextUpdateId

(* nextUpdateId is drawn from by every AddObserver and every notifier, in  *)
(* no order.  No two updates on their way to a stream share an id, none of *)
(* them has the id of one the stream has let through, and no id let        *)
(* through is ahead of the counter.                                        *)
IdsUnique == \A st \in Streams : UniqueFor(st)

(* A client never gets, for the same spec, an update with the id of an     *)
(* earlier one or a smaller id: maxIds of Resolve keeps out updates that   *)
(* notifiers have put into the channel out of order.                       *)
SentIdsIncrease ==
    [][\A st \in Streams, sp \in Specs :
        sent'[st][sp] # sent[st][sp] => sent'[st][sp].id > sent[st][sp].id]_vars

-----------------------------------------------------------------------------
(* Observers. *)

Observed(o) ==
    /\ services[SpecOf(o).svc] # NoService
    /\ o \in services[SpecOf(o).svc].observers

(* A Resolve call that has returned, after it had been registered, leaves  *)
(* nothing in the hub: RemoveObserver, its own or that of another stream   *)
(* of the connection, has taken it off every service and has closed every  *)
(* stopCh, so no notifier waits for its channel for ever.  None is closed  *)
(* twice, which would panic: whoever is stopped is not there to be found   *)
(* again.                                                                  *)
EndedLeavesNothing ==
    \A o \in Observers :
        /\ pc[o[1]] = "ended" => o \in stopped
        /\ o \in stopped => ~Observed(o)

(* Whether a stream of the same connection has asked to remove o. *)
RemovedByNamesake(o) ==
    \E st \in Streams :
        /\ AddrOf[st] = AddrOf[o[1]]
        /\ pc[st] \in {"remove", "ended"}
        /\ \E i \in 1..Len(Request[st]) : Request[st][i] = SpecOf(o)

(* While Resolve waits for updates, each of its specs is observed, unless  *)
(* a Resolve of the same connection that is ending asked for it too: that  *)
(* one takes both off the hub, and this one learns nothing any more,       *)
(* though AddObserver promises "When service endpoints changed, it         *)
(* notifies the observer through the returned channel."                    *)
ServedIsObserved ==
    \A o \in Observers :
        pc[o[1]] \in {"serve", "send"} => Observed(o) \/ RemovedByNamesake(o)

-----------------------------------------------------------------------------
(* What clients learn. *)

(* Every spec of a request gets an answer, or the stream ends. *)
RequestAnswered ==
    \A o \in Observers :
        pc[o[1]] = "fetch" ~> sent[o[1]][SpecOf(o)] # NoUpdate \/ Over(o[1])

(* Every goroutine applyEndpoints starts ends, in the channel or at the    *)
(* closed stopCh of its observer.                                          *)
NotifiersExit ==
    \A o \in Observers, k \in Slots : notifier[o][k] # Idle ~> notifier[o][k] = Idle

(* The rectifier is about to apply version v, the current one, for o, and  *)
(* nobody is left who can give an older list a larger id.                  *)
Rectifying(o, v) ==
    LET s == SpecOf(o).svc
    IN  /\ updater[s].pc = "apply"
        /\ updater[s].reg.ver = v
        /\ registry[s].ver = v
        /\ Observed(o)
        /\ services[s].spec = SpecOf(o)
        /\ \A u \in Updaters :
            updater[u].pc = "apply" /\ updater[u].svc = s => updater[u].reg.ver >= v
        /\ \A k \in Slots : notifier[o][k].pc = "start" => notifier[o][k].up.ver >= v

Knows(o, v) == sent[o[1]][SpecOf(o)] # NoUpdate /\ sent[o[1]][SpecOf(o)].ver >= v

Left(o) == pc[o[1]] \in {"remove", "ended"} \/ o \in stopped

(* Automatic rectification works: whatever was lost before, lost watch     *)
(* events, failed reads, updates applied in the wrong order, a change      *)
(* between the read and the registration of AddObserver, one undisturbed   *)
(* tick brings every observer that is still there a list at least as new,  *)
(* provided the list is not empty.                                         *)
RectifyDelivers ==
    \A o \in Observers, v \in 1..MaxVersion :
        Rectifying(o, v) /\ Select(SpecOf(o), updater[SpecOf(o).svc].reg.insts) # {}
            ~> Knows(o, v) \/ Left(o)

(* "Skip the old updates." (Resolve): a client that has got one version of *)
(* a service never gets an older one.                                      *)
NoOlderListSent ==
    [][\A st \in Streams, sp \in Specs :
        sent'[st][sp] # sent[st][sp] /\ sent[st][sp] # NoUpdate
            => sent'[st][sp].ver >= sent[st][sp].ver]_vars

-----------------------------------------------------------------------------
(* The hub implements the directory. *)

Asked == [st \in Streams |-> {Request[st][i] : i \in DOMAIN Request[st]}]

ListOf(up) == [spec |-> up.spec, insts |-> up.insts, ver |-> up.ver]
Listing(spec, content) ==
    [spec |-> spec, insts |-> Select(spec, content.insts), ver |-> content.ver]

(* Lists that were read and may yet reach a client: about to be applied,   *)
(* read by AddObserver, in the hands of a handler, in a channel, or held   *)
(* by a notifier.                                                          *)
BeingApplied ==
    {Listing(services[updater[u].svc].spec, updater[u].reg) :
        u \in {v \in Updaters : updater[v].pc = "apply"}}
BeingRegistered ==
    {Listing(SpecAt(st), fetched[st]) : st \in {s \in Streams : pc[s] = "register"}}
InHands == {ListOf(cur[st]) : st \in {s \in Streams : cur[s] # NoUpdate}}
InChannels ==
    UNION {{ListOf(notifyCh[st][i]) : i \in DOMAIN notifyCh[st]} : st \in Streams}
InNotifiers ==
    {ListOf(UpOf(w)) : w \in {v \in Observers \X Slots : notifier[v[1]][v[2]] # Idle}}

UnderWay == BeingApplied \cup BeingRegistered \cup InHands \cup InChannels \cup InNotifiers

D == INSTANCE Directory WITH Clients <- Streams, underway <- UnderWay, known <- sent

(* Whatever a client is told is a list that was read from the registry,    *)
(* filtered by the port name of the list's spec, of a service it has asked *)
(* for, under a spec it or another client has asked for: an update carries *)
(* the spec of the first observer of the service (AddObserver).  No list   *)
(* is made up or mixed of two reads, and the ids per spec grow.            *)
ImplementsDirectory == D!Spec
=============================================================================
