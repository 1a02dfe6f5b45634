------------------------- MODULE EndpointsHubProofs -------------------------
(***************************************************************************)
(* Theorems about EndpointsHub, about the Directory it implements, and     *)
(* about the hub within Kubernetes (K8sHub), for any services, streams,    *)
(* requests and lists.                                                     *)
(***************************************************************************)
EXTENDS K8sHub, TLAPS

(* The observers of a stream are the positions of its request. *)
LEMMA ObserverFacts ==
    \A o \in Observers :
        /\ o[1] \in Streams
        /\ o[2] \in 1..Len(Request[o[1]])
        /\ SpecOf(o) \in Specs
        /\ o = <<o[1], o[2]>>
  BY RequestAssumption DEF Observers, SpecOf

LEMMA ObserverOfPosition ==
    ASSUME NEW st \in Streams, NEW i \in 1..Len(Request[st])
    PROVE  <<st, i>> \in Observers /\ Request[st][i] \in Specs
  BY RequestAssumption DEF Observers

(* A list selected for a spec is made of instances. *)
LEMMA SelectType ==
    ASSUME NEW spec, NEW insts \in SUBSET Instances
    PROVE  Select(spec, insts) \in SUBSET Instances
  BY DEF Select

(* The specs of a stream at work. *)
LEMMA SpecAtType ==
    ASSUME TypeOK, NEW st \in Streams, pc[st] \notin {"idle", "ended", "failed"}
    PROVE  /\ SpecAt(st) \in Specs
           /\ SpecAt(st).svc \in Services
           /\ <<st, at[st]>> \in Observers
           /\ Len(Request[st]) \in Nat
  <1>1. at[st] \in 1..Len(Request[st])
    BY DEF TypeOK
  <1>2. SpecAt(st) \in Specs /\ <<st, at[st]>> \in Observers
    BY <1>1, ObserverOfPosition DEF SpecAt
  <1> QED
    BY <1>2, RequestAssumption DEF Specs

-----------------------------------------------------------------------------
LEMMA TypeInit == Init => TypeOK
  <1> SUFFICES ASSUME Init PROVE TypeOK
    OBVIOUS
  <1> NoContents \in Contents
    BY DEF NoContents, Contents
  <1> QED
    BY NoServiceAssumption, WatcherAssumption, NoStreamAssumption
    DEF Init, TypeOK, Updaters, Idle

LEMMA TypeEtcd ==
    ASSUME TypeOK, NEW s \in Services, NEW i \in Instances,
           SetKey(s, i) \/ DropKey(s, i)
    PROVE  TypeOK'
  <1>1. PICK insts \in SUBSET Instances : Change(s, insts)
    BY DEF SetKey, DropKey, TypeOK, Contents
  <1>2. registry' \in [Services -> Contents]
    BY <1>1 DEF Change, TypeOK, Contents
  <1>3. events' \in Seq(Services)
    BY <1>1 DEF Change, TypeOK
  <1> QED
    BY <1>1, <1>2, <1>3
    DEF Change, TypeOK, SpecAt, updaterVars, hubVars, notifyVars, streamVars

LEMMA TypeLoseEvents == TypeOK /\ LoseEvents => TypeOK'
  BY DEF TypeOK, SpecAt, LoseEvents, updaterVars, hubVars, notifyVars, streamVars

LEMMA TypeWatchNext == TypeOK /\ WatchNext => TypeOK'
  <1> SUFFICES ASSUME TypeOK, WatchNext PROVE TypeOK'
    OBVIOUS
  <1>1. Head(events) \in Services /\ events' \in Seq(Services)
    BY DEF TypeOK, WatchNext
  <1>2. NoContents \in Contents
    BY DEF NoContents, Contents
  <1> QED
    BY <1>1, <1>2
    DEF TypeOK, SpecAt, WatchNext, Begin, Updaters, hubVars, notifyVars, streamVars

LEMMA TypeRectifyTick ==
    ASSUME TypeOK, NEW s \in Services, RectifyTick(s)
    PROVE  TypeOK'
  <1>1. NoContents \in Contents
    BY DEF NoContents, Contents
  <1> QED
    BY <1>1
    DEF TypeOK, SpecAt, RectifyTick, Begin, Updaters, etcdVars, hubVars, notifyVars, streamVars

LEMMA TypeLookup ==
    ASSUME TypeOK, NEW u \in Updaters, Lookup(u)
    PROVE  TypeOK'
  <1>1. updater[u] \in [pc : {"idle", "lookup", "fetch", "apply"},
                        svc : Updaters, reg : Contents]
    BY DEF TypeOK
  <1>2. /\ updater' \in [Updaters -> [pc : {"idle", "lookup", "fetch", "apply"},
                                      svc : Updaters, reg : Contents]]
        /\ \A v \in Updaters \ {u} : updater'[v] = updater[v]
        /\ updater'[u].svc = updater[u].svc
        /\ updater'[u].pc \in {"idle", "fetch"}
        /\ updater'[u].pc = "fetch" => services[updater[u].svc] # NoService
    BY <1>1 DEF TypeOK, Lookup, AfterLookup
  <1>3. updater[u].svc \in Services
    BY DEF TypeOK, Lookup
  <1>4. UNCHANGED <<etcdVars, ticks, hubVars, notifyVars, streamVars>>
    BY DEF Lookup
  <1> QED
    BY <1>2, <1>3, <1>4 DEF TypeOK, SpecAt, etcdVars, hubVars, notifyVars, streamVars

LEMMA TypeFetch ==
    ASSUME TypeOK, NEW u \in Updaters, Fetch(u) \/ FetchError(u)
    PROVE  TypeOK'
  <1>1. updater[u] \in [pc : {"idle", "lookup", "fetch", "apply"},
                        svc : Updaters, reg : Contents]
    BY DEF TypeOK
  <1>2. updater[u].svc \in Services /\ services[updater[u].svc] # NoService
    BY DEF TypeOK, Fetch, FetchError
  <1>3. registry[updater[u].svc] \in Contents
    BY <1>2 DEF TypeOK
  <1>4. /\ updater' \in [Updaters -> [pc : {"idle", "lookup", "fetch", "apply"},
                                      svc : Updaters, reg : Contents]]
        /\ \A v \in Updaters \ {u} : updater'[v] = updater[v]
        /\ updater'[u].svc = updater[u].svc
    <2>1. CASE Fetch(u)
      BY <1>1, <1>3, <2>1 DEF TypeOK, Fetch
    <2>2. CASE FetchError(u)
      BY <1>1, <2>2 DEF TypeOK, FetchError
    <2> QED
      BY <2>1, <2>2
  <1>5. UNCHANGED <<etcdVars, ticks, hubVars, notifyVars, streamVars>>
    BY DEF Fetch, FetchError
  <1> QED
    BY <1>2, <1>4, <1>5 DEF TypeOK, SpecAt, etcdVars, hubVars, notifyVars, streamVars

(* The object of a service is kept, but for its endpoints. *)
LEMMA ApplyFacts ==
    ASSUME TypeOK, NEW u \in Updaters, Apply(u)
    PROVE  LET s == updater[u].svc IN
           /\ s \in Services
           /\ services[s] \in ServiceObjects
           /\ services'[s] \in ServiceObjects
           /\ services'[s].spec = services[s].spec
           /\ services'[s].observers = services[s].observers
           /\ \A t \in Services \ {s} : services'[t] = services[t]
           /\ services' \in [Services -> ServiceObjects \cup {NoService}]
  <1> DEFINE s == updater[u].svc
  <1>1. s \in Services /\ services[s] \in ServiceObjects
    BY DEF TypeOK, Apply
  <1>2. Select(services[s].spec, updater[u].reg.insts) \in SUBSET Instances
    BY SelectType DEF TypeOK, Contents
  <1> QED
    BY <1>1, <1>2 DEF TypeOK, Apply, ServiceObjects

(* What applyEndpoints spawns are updates without an id. *)
LEMMA SpawnFacts ==
    ASSUME TypeOK, NEW u \in Updaters, Apply(u),
           NEW o \in Observers, NEW k \in Slots
    PROVE  \/ notifier'[o][k] = notifier[o][k]
           \/ /\ notifier[o][k] = Idle
              /\ notifier'[o][k].pc = "start"
              /\ notifier'[o][k] \in [pc : {"start"}, up : Updates]
  <1> DEFINE s == updater[u].svc
             so == services[s]
             eps == Select(so.spec, updater[u].reg.insts)
             up == [id |-> 0, spec |-> so.spec, insts |-> eps, ver |-> updater[u].reg.ver]
  <1>1. so \in ServiceObjects
    BY ApplyFacts
  <1>2. up \in Updates
    BY <1>1, SelectType DEF TypeOK, Contents, Updates, ServiceObjects
  <1>3. CASE o \in so.observers /\ up.insts # {}
    <2>1. notifier'[o] = [notifier[o] EXCEPT ![FreeSlot(o)] = [pc |-> "start", up |-> up]]
      BY <1>3 DEF Apply, Spawn
    <2>2. FreeSlot(o) \in Slots /\ notifier[o][FreeSlot(o)] = Idle
      BY <1>3 DEF Apply, FreeSlot
    <2>3. notifier[o] \in [Slots -> {Idle} \cup [pc : {"start", "send"}, up : Updates]]
      BY DEF TypeOK
    <2> HIDE DEF up
    <2> QED
      BY <1>2, <2>1, <2>2, <2>3
  <1>4. CASE ~(o \in so.observers /\ up.insts # {})
    BY <1>4 DEF Apply, Spawn
  <1> QED
    BY <1>3, <1>4

LEMMA TypeApply ==
    ASSUME TypeOK, NEW u \in Updaters, Apply(u)
    PROVE  TypeOK'
  <1> DEFINE N == {Idle} \cup [pc : {"start", "send"}, up : Updates]
  <1>1. notifier' \in [Observers -> [Slots -> N]]
    <2>1. \A o \in Observers, k \in Slots : notifier'[o][k] \in N
      BY SpawnFacts DEF TypeOK
    <2>2. \A o \in Observers : notifier'[o] = [k \in Slots |-> notifier'[o][k]]
      BY DEF TypeOK, Apply, Spawn
    <2>3. notifier' = [o \in Observers |-> notifier'[o]]
      BY DEF Apply, Spawn
    <2> HIDE DEF N
    <2> QED
      BY <2>1, <2>2, <2>3
  <1>2. /\ services' \in [Services -> ServiceObjects \cup {NoService}]
        /\ \A t \in Services : services[t] # NoService => services'[t] # NoService
    BY ApplyFacts, NoServiceAssumption
  <1>3. updater' = [updater EXCEPT ![u].pc = "idle"]
    BY DEF Apply
  <1>4. UNCHANGED <<etcdVars, ticks, hubLock, stopped, nextUpdateId, notifyCh, streamVars>>
    BY DEF Apply
  <1>5. /\ updater' \in [Updaters -> [pc : {"idle", "lookup", "fetch", "apply"},
                                      svc : Updaters, reg : Contents]]
        /\ \A v \in Updaters : updater'[v].pc # "idle"
                => updater'[v].svc = updater[v].svc /\ updater'[v].pc = updater[v].pc
    BY <1>3 DEF TypeOK
  <1>6. \A r \in Streams : pc'[r] \in {"notify", "observe"}
            => services'[SpecAt(r)'.svc] # NoService
    BY <1>2, <1>4, SpecAtType DEF TypeOK, SpecAt, streamVars
  <1> QED
    BY <1>1, <1>2, <1>4, <1>5, <1>6 DEF TypeOK, etcdVars, streamVars

LEMMA TypeNotifier ==
    ASSUME TypeOK, NEW o \in Observers, NEW k \in Slots, NotifierStep(o, k)
    PROVE  TypeOK'
  <1> DEFINE N == {Idle} \cup [pc : {"start", "send"}, up : Updates]
  <1>1. o[1] \in Streams
    BY ObserverFacts
  <1>2. CASE NotifyTakeId(o, k)
    <2>1. notifier[o][k] \in [pc : {"start", "send"}, up : Updates]
      BY <1>2 DEF TypeOK, NotifyTakeId, Idle
    <2>2. DrawnId \in Nat
      BY DEF TypeOK, DrawnId
    <2>3. notifier' \in [Observers -> [Slots -> N]]
      BY <1>2, <2>1, <2>2 DEF TypeOK, NotifyTakeId, Updates
    <2>4. nextUpdateId' \in Nat
      BY <1>2 DEF TypeOK, NotifyTakeId
    <2>5. UNCHANGED <<etcdVars, updaterVars, hubVars, notifyCh, streamVars>>
      BY <1>2 DEF NotifyTakeId
    <2> HIDE DEF N
    <2> QED
      BY <2>3, <2>4, <2>5
      DEF TypeOK, SpecAt, N, etcdVars, updaterVars, hubVars, streamVars
  <1>3. CASE NotifySend(o, k)
    <2>1. notifier[o][k].up \in Updates
      BY <1>3 DEF TypeOK, NotifySend, Idle
    <2>2. notifyCh' \in [Streams -> Seq(Updates)]
      BY <1>1, <1>3, <2>1 DEF TypeOK, NotifySend
    <2>3. notifier' \in [Observers -> [Slots -> N]]
      BY <1>3 DEF TypeOK, NotifySend
    <2> QED
      BY <1>3, <2>2, <2>3 DEF TypeOK, SpecAt, NotifySend, etcdVars, updaterVars, hubVars, streamVars
  <1>4. CASE NotifyStop(o, k)
    <2>1. notifier' \in [Observers -> [Slots -> N]]
      BY <1>4 DEF TypeOK, NotifyStop
    <2> QED
      BY <1>4, <2>1 DEF TypeOK, SpecAt, NotifyStop, etcdVars, updaterVars, hubVars, streamVars
  <1> QED
    BY <1>2, <1>3, <1>4 DEF NotifierStep

-----------------------------------------------------------------------------
LEMMA TypeResolve ==
    ASSUME TypeOK, NEW st \in Streams, Resolve(st)
    PROVE  TypeOK'
  <1>1. Request[st] # <<>> => 1 \in 1..Len(Request[st])
    BY RequestAssumption
  <1> QED
    BY <1>1 DEF TypeOK, SpecAt, Resolve, GoTo, etcdVars, updaterVars, hubVars, notifyVars

LEMMA TypeAutoDisconnect ==
    ASSUME TypeOK, NEW st \in Streams, AutoDisconnect(st)
    PROVE  TypeOK'
  BY DEF TypeOK, SpecAt, AutoDisconnect, GoTo, etcdVars, updaterVars, hubVars, notifyVars

LEMMA TypeAddFetch ==
    ASSUME TypeOK, NEW st \in Streams, AddFetch(st) \/ AddFetchError(st)
    PROVE  TypeOK'
  <1>1. CASE AddFetch(st)
    <2>1. registry[SpecAt(st).svc] \in Contents
      BY <1>1, SpecAtType DEF TypeOK, AddFetch
    <2> QED
      BY <1>1, <2>1 DEF TypeOK, SpecAt, AddFetch, GoTo, etcdVars, updaterVars, hubVars, notifyVars
  <1>2. CASE AddFetchError(st)
    BY <1>2 DEF TypeOK, SpecAt, AddFetchError, GoTo, etcdVars, updaterVars, hubVars, notifyVars
  <1> QED
    BY <1>1, <1>2

LEMMA TypeAddRegister ==
    ASSUME TypeOK, NEW st \in Streams, AddRegister(st)
    PROVE  TypeOK'
  <1> DEFINE spec == SpecAt(st)
             eps == Select(spec, fetched[st].insts)
             new == [spec |-> spec, endpoints |-> eps, observers |-> {}]
             up == [id |-> DrawnId, spec |-> spec, insts |-> eps, ver |-> fetched[st].ver]
  <1>1. spec \in Specs /\ spec.svc \in Services
    BY SpecAtType DEF AddRegister
  <1>2. eps \in SUBSET Instances
    BY SelectType DEF TypeOK, Contents
  <1>3. new \in ServiceObjects
    BY <1>1, <1>2 DEF ServiceObjects
  <1>4. up \in Updates
    BY <1>1, <1>2 DEF TypeOK, DrawnId, Contents, Updates
  <1>5. services' = [services EXCEPT ![spec.svc] = IF @ = NoService THEN new ELSE @]
    BY DEF AddRegister, ServiceFor
  <1>6. cur' = [cur EXCEPT ![st] = up]
    BY DEF AddRegister
  <1>9. /\ pc[st] = "register"
        /\ hubLock' = st
        /\ nextUpdateId' = nextUpdateId + 1
        /\ pc' = [pc EXCEPT ![st] = "notify"]
        /\ UNCHANGED <<etcdVars, updaterVars, notifier, notifyCh, stopped, at,
                       fetched, maxIds, sent>>
    BY DEF AddRegister, GoTo
  <1>10. SpecAt(st)' = spec
    BY <1>9 DEF SpecAt
  <1> HIDE DEF spec, new, up
  <1>7. /\ services' \in [Services -> ServiceObjects \cup {NoService}]
        /\ \A t \in Services : services[t] # NoService => services'[t] # NoService
    BY <1>1, <1>3, <1>5 DEF TypeOK
  <1>8. /\ cur' \in [Streams -> Updates \cup {NoUpdate}]
        /\ cur'[st] \in Updates
        /\ \A r \in Streams \ {st} : cur'[r] = cur[r]
    BY <1>4, <1>6 DEF TypeOK
  <1>11. \A r \in Streams : pc'[r] \in {"notify", "observe"}
            => services'[SpecAt(r)'.svc] # NoService
    <2>1. services'[spec.svc] # NoService
      BY <1>1, <1>3, <1>5, NoServiceAssumption DEF TypeOK
    <2>2. ASSUME NEW r \in Streams, r # st, pc'[r] \in {"notify", "observe"}
          PROVE  services'[SpecAt(r)'.svc] # NoService
      <3>1. pc[r] \in {"notify", "observe"} /\ SpecAt(r)' = SpecAt(r)
        BY <2>2, <1>9 DEF TypeOK, SpecAt
      <3> QED
        BY <3>1, <1>7, SpecAtType DEF TypeOK
    <2> QED
      BY <1>10, <2>1, <2>2
  <1> QED
    BY <1>7, <1>8, <1>9, <1>11 DEF TypeOK, etcdVars, updaterVars

LEMMA TypeAddNotify ==
    ASSUME TypeOK, NEW st \in Streams, AddNotify(st)
    PROVE  TypeOK'
  <1>1. cur[st] \in Updates
    BY DEF TypeOK, AddNotify
  <1>2. notifyCh' \in [Streams -> Seq(Updates)]
    BY <1>1 DEF TypeOK, AddNotify, FirstUpdate
  <1> QED
    BY <1>2 DEF TypeOK, SpecAt, AddNotify, Unlock, GoTo, etcdVars, updaterVars

LEMMA TypeAddObserve ==
    ASSUME TypeOK, NEW st \in Streams, AddObserve(st)
    PROVE  TypeOK'
  <1> DEFINE s == SpecAt(st).svc
             more == at[st] < Len(Request[st])
             so == services[s]
             new == [so EXCEPT !.observers = @ \cup {<<st, at[st]>>}]
  <1>1. /\ s \in Services
        /\ <<st, at[st]>> \in Observers
        /\ Len(Request[st]) \in Nat
        /\ at[st] \in 1..Len(Request[st])
    BY SpecAtType DEF AddObserve, TypeOK
  <1>2. so \in ServiceObjects
    BY <1>1 DEF TypeOK, AddObserve
  <1>3. new \in ServiceObjects
    BY <1>1, <1>2 DEF ServiceObjects
  <1>4. services' = [services EXCEPT ![s] = new]
    BY DEF AddObserve
  <1>5. at' = [at EXCEPT ![st] = IF more THEN @ + 1 ELSE 1]
    BY DEF AddObserve
  <1>6. NoContents \in Contents
    BY DEF NoContents, Contents
  <1>7. /\ pc[st] = "observe"
        /\ fetched' = [fetched EXCEPT ![st] = NoContents]
        /\ pc' = [pc EXCEPT ![st] = IF more THEN "fetch" ELSE "serve"]
        /\ UNCHANGED <<etcdVars, updaterVars, hubLock, stopped, notifyVars, cur,
                       maxIds, sent>>
    BY DEF AddObserve, GoTo
  <1> HIDE DEF s, new
  <1>8. /\ services' \in [Services -> ServiceObjects \cup {NoService}]
        /\ \A t \in Services : services[t] # NoService => services'[t] # NoService
    BY <1>1, <1>3, <1>4, NoServiceAssumption DEF TypeOK
  <1>9. \A r \in Streams \ {st} : SpecAt(r)' = SpecAt(r) /\ pc'[r] = pc[r]
    BY <1>5, <1>7 DEF SpecAt, TypeOK
  <1>10. \A r \in Streams : pc'[r] \in {"notify", "observe"}
            => services'[SpecAt(r)'.svc] # NoService
    <2> TAKE r \in Streams
    <2> HAVE pc'[r] \in {"notify", "observe"}
    <2>1. r # st
      BY <1>7 DEF TypeOK
    <2>2. pc[r] \in {"notify", "observe"} /\ SpecAt(r)' = SpecAt(r)
      BY <2>1, <1>9
    <2>3. SpecAt(r).svc \in Services /\ services[SpecAt(r).svc] # NoService
      BY <2>2, SpecAtType DEF TypeOK
    <2> QED
      BY <2>2, <2>3, <1>8
  <1>11. /\ at' \in [Streams -> Nat]
         /\ at'[st] \in 1..Len(Request[st])
         /\ ~more => at'[st] = 1
         /\ \A r \in Streams \ {st} : at'[r] = at[r]
    BY <1>1, <1>5 DEF TypeOK
  <1> QED
    BY <1>6, <1>7, <1>8, <1>10, <1>11
    DEF TypeOK, etcdVars, updaterVars, notifyVars

LEMMA TypeReceive ==
    ASSUME TypeOK, NEW st \in Streams, Receive(st)
    PROVE  TypeOK'
  <1> DEFINE up == Head(notifyCh[st])
  <1>1. up \in Updates /\ notifyCh' \in [Streams -> Seq(Updates)]
    BY DEF TypeOK, Receive
  <1>2. up.id \in Nat /\ up.spec \in Specs
    BY <1>1 DEF Updates
  <1>3. /\ pc[st] = "serve"
        /\ UNCHANGED <<etcdVars, updaterVars, hubVars, nextUpdateId, notifier, at,
                       fetched, sent>>
    BY DEF Receive
  <1>4. CASE UNCHANGED <<maxIds, cur, pc>>
    BY <1>1, <1>3, <1>4 DEF TypeOK, etcdVars, updaterVars, hubVars, SpecAt
  <1>5. CASE /\ maxIds' = [maxIds EXCEPT ![st][up.spec] = up.id]
             /\ cur' = [cur EXCEPT ![st] = up]
             /\ pc' = [pc EXCEPT ![st] = "send"]
    <2> HIDE DEF up
    <2> QED
      BY <1>1, <1>2, <1>3, <1>5 DEF TypeOK, etcdVars, updaterVars, hubVars, SpecAt
  <1> QED
    BY <1>4, <1>5 DEF Receive, GoTo

LEMMA TypeSend ==
    ASSUME TypeOK, NEW st \in Streams, SendOk(st) \/ SendFail(st)
    PROVE  TypeOK'
  <1>1. CASE SendOk(st)
    <2>1. cur[st] \in Updates /\ cur[st].spec \in Specs
      BY <1>1 DEF TypeOK, SendOk, Updates
    <2>2. sent' \in [Streams -> [Specs -> Updates \cup {NoUpdate}]]
      BY <1>1, <2>1 DEF TypeOK, SendOk
    <2> QED
      BY <1>1, <2>2
      DEF TypeOK, SendOk, GoTo, etcdVars, updaterVars, hubVars, notifyVars, SpecAt
  <1>2. CASE SendFail(st)
    BY <1>2 DEF TypeOK, SendFail, GoTo, etcdVars, updaterVars, hubVars, notifyVars, SpecAt
  <1> QED
    BY <1>1, <1>2

LEMMA TypeRemove ==
    ASSUME TypeOK, NEW st \in Streams, Remove(st)
    PROVE  TypeOK'
  <1> DEFINE s == SpecAt(st).svc
             so == services[s]
             gone == Matching(so, SpecAt(st), AddrOf[st])
             new == [so EXCEPT !.observers = Remaining(so, gone)]
             more == at[st] < Len(Request[st]) /\ so # NoService
  <1>1. /\ s \in Services
        /\ Len(Request[st]) \in Nat
        /\ at[st] \in 1..Len(Request[st])
    BY SpecAtType DEF Remove, TypeOK
  <1>2. /\ pc[st] = "remove"
        /\ at' = [at EXCEPT ![st] = IF more THEN @ + 1 ELSE 1]
        /\ pc' = [pc EXCEPT ![st] = IF more THEN "remove" ELSE "ended"]
        /\ UNCHANGED <<etcdVars, updaterVars, hubLock, notifyVars, fetched, cur,
                       maxIds, sent>>
    BY DEF Remove, GoTo
  <1>3. /\ services' \in [Services -> ServiceObjects \cup {NoService}]
        /\ \A t \in Services : services[t] # NoService => services'[t] # NoService
        /\ stopped' \in SUBSET Observers
    <2>1. CASE so = NoService
      BY <2>1 DEF TypeOK, Remove
    <2>2. CASE so # NoService
      <3>1. so \in ServiceObjects
        BY <1>1, <2>2 DEF TypeOK
      <3>2. gone \in SUBSET Observers /\ new \in ServiceObjects
        BY <3>1 DEF Matching, Remaining, ServiceObjects
      <3>3. services' = [services EXCEPT ![s] = new] /\ stopped' = stopped \cup gone
        BY <2>2 DEF Remove
      <3> HIDE DEF s, new, gone
      <3> QED
        BY <1>1, <3>2, <3>3, NoServiceAssumption DEF TypeOK
    <2> QED
      BY <2>1, <2>2
  <1> HIDE DEF s, so, gone, new
  <1>4. \A r \in Streams : pc'[r] \in {"notify", "observe"}
            => services'[SpecAt(r)'.svc] # NoService
    <2> TAKE r \in Streams
    <2> HAVE pc'[r] \in {"notify", "observe"}
    <2>1. r # st
      BY <1>2 DEF TypeOK
    <2>2. pc[r] \in {"notify", "observe"} /\ SpecAt(r)' = SpecAt(r)
      BY <2>1, <1>2 DEF SpecAt, TypeOK
    <2>3. SpecAt(r).svc \in Services /\ services[SpecAt(r).svc] # NoService
      BY <2>2, SpecAtType DEF TypeOK
    <2> QED
      BY <2>2, <2>3, <1>3
  <1>5. /\ at' \in [Streams -> Nat]
        /\ at'[st] \in 1..Len(Request[st])
        /\ \A r \in Streams \ {st} : at'[r] = at[r]
    BY <1>1, <1>2 DEF TypeOK
  <1> QED
    BY <1>2, <1>3, <1>4, <1>5 DEF TypeOK, etcdVars, updaterVars, notifyVars

LEMMA TypeHandler ==
    ASSUME TypeOK, NEW st \in Streams,
           Resolve(st) \/ AutoDisconnect(st) \/ HandlerStep(st)
    PROVE  TypeOK'
  BY TypeResolve, TypeAutoDisconnect, TypeAddFetch, TypeAddRegister, TypeAddNotify,
     TypeAddObserve, TypeReceive, TypeSend, TypeRemove DEF HandlerStep

LEMMA TypeNext == TypeOK /\ [Next]_vars => TypeOK'
  <1> SUFFICES ASSUME TypeOK, [Next]_vars PROVE TypeOK'
    OBVIOUS
  <1>1. CASE Registry
    BY <1>1, TypeEtcd DEF Registry
  <1>2. CASE LoseEvents \/ WatchNext
    BY <1>2, TypeLoseEvents, TypeWatchNext
  <1>3. CASE \E s \in Services : RectifyTick(s)
    BY <1>3, TypeRectifyTick
  <1>4. CASE \E u \in Updaters : UpdaterStep(u)
    BY <1>4, TypeLookup, TypeFetch, TypeApply DEF UpdaterStep
  <1>5. CASE \E o \in Observers, k \in Slots : NotifierStep(o, k)
    BY <1>5, TypeNotifier
  <1>6. CASE \E st \in Streams : Resolve(st) \/ AutoDisconnect(st) \/ HandlerStep(st)
    BY <1>6, TypeHandler
  <1>7. CASE Settled \/ UNCHANGED vars
    BY <1>7 DEF Settled, vars, TypeOK, SpecAt
  <1> QED
    BY <1>1, <1>2, <1>3, <1>4, <1>5, <1>6, <1>7 DEF Next

(* Type correctness: no handler, updater or notifier, in whatever order    *)
(* they run, uses a service object that does not exist, walks past the end *)
(* of its request or sends an update it has not been given.                *)
THEOREM TypeCorrect == Spec => []TypeOK
  BY TypeInit, TypeNext, PTL DEF Spec

-----------------------------------------------------------------------------
(* Update ids.  IdsUnique is not inductive by itself: an id just drawn is  *)
(* new because no id on its way is ahead of the counter, and an update in  *)
(* the hands of Send is newer than what was sent because it is the one     *)
(* maxIds remembers.                                                       *)

Bounded(st) ==
    /\ \A i \in DOMAIN notifyCh[st] : notifyCh[st][i].id <= nextUpdateId
    /\ \A w \in Waiting(st) : UpOf(w).id <= nextUpdateId
    /\ pc[st] = "notify" => cur[st].id <= nextUpdateId

Remembered(st) ==
    /\ \A sp \in Specs : sent[st][sp].id <= maxIds[st][sp]
    /\ pc[st] = "send" =>
        /\ cur[st].id = maxIds[st][cur[st].spec]
        /\ sent[st][cur[st].spec].id < cur[st].id

IdInv ==
    /\ IdsUnique
    /\ \A st \in Streams : Bounded(st) /\ Remembered(st)

LEMMA IdInit == Init => IdInv
  <1> SUFFICES ASSUME Init PROVE IdInv
    OBVIOUS
  <1>1. \A st \in Streams : Waiting(st) = {}
    BY DEF Waiting, Init, Idle
  <1>2. \A st \in Streams : DOMAIN notifyCh[st] = {}
    BY DEF Init
  <1> QED
    BY <1>1, <1>2 DEF Init, IdInv, IdsUnique, UniqueFor, Bounded, Remembered, NoUpdate

(* Types of the updates on their way. *)
LEMMA WaitingType ==
    ASSUME TypeOK, NEW st \in Streams, NEW w \in Waiting(st)
    PROVE  /\ w[1] \in Observers /\ w[2] \in Slots /\ w[1][1] = st
           /\ w = <<w[1], w[2]>>
           /\ UpOf(w) \in Updates
           /\ UpOf(w).id \in Nat
  <1>1. notifier[w[1]][w[2]] \in [pc : {"start", "send"}, up : Updates]
    BY DEF Waiting, TypeOK, Idle
  <1> QED
    BY <1>1 DEF Waiting, UpOf, Updates

(* An element put at the end of a channel, one taken from its head. *)
LEMMA AppendIndices ==
    ASSUME NEW S, NEW q \in Seq(S), NEW e \in S
    PROVE  \A i \in DOMAIN Append(q, e) :
            \/ i \in DOMAIN q /\ Append(q, e)[i] = q[i]
            \/ i \notin DOMAIN q /\ i = Len(q) + 1 /\ Append(q, e)[i] = e
  OBVIOUS

LEMMA TailIndices ==
    ASSUME NEW S, NEW q \in Seq(S), q # <<>>
    PROVE  /\ 1 \in DOMAIN q /\ Head(q) = q[1]
           /\ \A i \in DOMAIN Tail(q) :
                i + 1 \in DOMAIN q /\ i + 1 # 1 /\ Tail(q)[i] = q[i + 1]
           /\ DOMAIN Tail(q) \subseteq Int
  OBVIOUS

LEMMA ChannelType ==
    ASSUME TypeOK, NEW st \in Streams
    PROVE  /\ notifyCh[st] \in Seq(Updates)
           /\ DOMAIN notifyCh[st] = 1..Len(notifyCh[st])
           /\ \A i \in DOMAIN notifyCh[st] :
                notifyCh[st][i] \in Updates /\ notifyCh[st][i].id \in Nat
  <1>1. notifyCh[st] \in Seq(Updates)
    BY DEF TypeOK
  <1>2. \A i \in DOMAIN notifyCh[st] : notifyCh[st][i] \in Updates
    BY <1>1
  <1> QED
    BY <1>1, <1>2 DEF Updates

LEMMA IdTypes ==
    ASSUME TypeOK, NEW st \in Streams
    PROVE  /\ nextUpdateId \in Nat
           /\ \A sp \in Specs : maxIds[st][sp] \in Nat /\ sent[st][sp].id \in Nat
           /\ pc[st] \in {"notify", "send"} => /\ cur[st] \in Updates
                                             /\ cur[st].id \in Nat
                                             /\ cur[st].spec \in Specs
  <1>1. \A sp \in Specs : sent[st][sp] \in Updates \cup {NoUpdate}
    BY DEF TypeOK
  <1>2. pc[st] \in {"notify", "send"} => cur[st] \in Updates
    BY DEF TypeOK
  <1> QED
    BY <1>1, <1>2 DEF TypeOK, Updates, NoUpdate

(* A step that neither draws an id nor moves an update on its way. *)
LEMMA IdFrame ==
    ASSUME IdInv, TypeOK,
           UNCHANGED <<notifyCh, nextUpdateId, maxIds, sent>>,
           \A st \in Streams : Waiting(st)' \subseteq Waiting(st),
           \A st \in Streams : \A w \in Waiting(st)' : UpOf(w)' = UpOf(w),
           \A st \in Streams : pc'[st] \in {"notify", "send"} =>
                pc'[st] = pc[st] /\ cur'[st] = cur[st]
    PROVE  IdInv'
  <1>1. IdsUnique'
    BY DEF IdInv, IdsUnique, UniqueFor
  <1>2. ASSUME NEW st \in Streams PROVE Bounded(st)' /\ Remembered(st)'
    BY <1>2 DEF IdInv, Bounded, Remembered
  <1> QED
    BY <1>1, <1>2 DEF IdInv

LEMMA IdApply ==
    ASSUME IdInv, TypeOK, NEW u \in Updaters, Apply(u)
    PROVE  IdInv'
  <1>1. ASSUME NEW o \in Observers, NEW k \in Slots, notifier'[o][k].pc = "send"
        PROVE  notifier'[o][k] = notifier[o][k]
    BY <1>1, SpawnFacts
  <1>2. \A st \in Streams : \A w \in Waiting(st)' : w \in Waiting(st) /\ UpOf(w)' = UpOf(w)
    BY <1>1 DEF Waiting, UpOf
  <1>3. UNCHANGED <<notifyCh, nextUpdateId, maxIds, sent, pc, cur>>
    BY DEF Apply, streamVars
  <1> QED
    BY <1>2, <1>3, IdFrame

LEMMA IdNotifyStop ==
    ASSUME IdInv, TypeOK, NEW o \in Observers, NEW k \in Slots, NotifyStop(o, k)
    PROVE  IdInv'
  <1>1. notifier' = [notifier EXCEPT ![o][k] = Idle]
    BY DEF NotifyStop
  <1>2. \A st \in Streams : \A w \in Waiting(st)' : w \in Waiting(st) /\ UpOf(w)' = UpOf(w)
    BY <1>1 DEF Waiting, UpOf, TypeOK, Idle
  <1>3. UNCHANGED <<notifyCh, nextUpdateId, maxIds, sent, pc, cur>>
    BY DEF NotifyStop, streamVars
  <1> QED
    BY <1>2, <1>3, IdFrame

LEMMA IdNotifyTakeId ==
    ASSUME IdInv, TypeOK, NEW o \in Observers, NEW k \in Slots, NotifyTakeId(o, k)
    PROVE  IdInv'
  <1> DEFINE w0 == <<o, k>>
  <1>1. /\ nextUpdateId \in Nat
        /\ nextUpdateId' = nextUpdateId + 1
        /\ UNCHANGED <<notifyCh, maxIds, sent, pc, cur>>
    BY DEF NotifyTakeId, TypeOK, streamVars
  <1>2. /\ notifier'[o][k].pc = "send"
        /\ notifier'[o][k].up.id = nextUpdateId + 1
        /\ \A v \in Observers, j \in Slots :
                <<v, j>> # w0 => notifier'[v][j] = notifier[v][j]
    <2>1. notifier[o][k] \in [pc : {"start", "send"}, up : Updates]
      BY DEF TypeOK, NotifyTakeId, Idle
    <2>2. notifier[o][k].up \in Updates
      BY <2>1
    <2> QED
      BY <2>1, <2>2 DEF TypeOK, NotifyTakeId, DrawnId, Updates
  <1>3. \A st \in Streams : \A w \in Waiting(st)' :
            \/ w = w0 /\ UpOf(w)'.id = nextUpdateId + 1
            \/ w # w0 /\ w \in Waiting(st) /\ UpOf(w)' = UpOf(w)
    BY <1>2 DEF Waiting, UpOf
  <1> HIDE DEF w0
  <1>4. ASSUME NEW st \in Streams PROVE Bounded(st)'
    <2>1. Bounded(st) /\ nextUpdateId < nextUpdateId'
      BY <1>1 DEF IdInv
    <2>2. \A i \in DOMAIN notifyCh'[st] : notifyCh'[st][i].id <= nextUpdateId'
      BY <1>1, <2>1, ChannelType DEF Bounded
    <2>3. \A w \in Waiting(st)' : UpOf(w)'.id <= nextUpdateId'
      BY <1>1, <1>3, <2>1, WaitingType DEF Bounded
    <2>4. pc'[st] = "notify" => cur'[st].id <= nextUpdateId'
      BY <1>1, <2>1, IdTypes DEF Bounded
    <2> QED
      BY <2>2, <2>3, <2>4 DEF Bounded
  <1>5. ASSUME NEW st \in Streams PROVE Remembered(st)'
    BY <1>1 DEF IdInv, Remembered
  <1>6. ASSUME NEW st \in Streams PROVE UniqueFor(st)'
    <2>1. UniqueFor(st) /\ Bounded(st)
      BY DEF IdInv, IdsUnique, UniqueFor
    <2>2. \A v, w \in Waiting(st)' : UpOf(v)'.id = UpOf(w)'.id => v = w
      BY <1>1, <1>3, <2>1, WaitingType DEF UniqueFor, Bounded
    <2>3. \A i \in DOMAIN notifyCh'[st], w \in Waiting(st)' :
            notifyCh'[st][i].id # UpOf(w)'.id
      BY <1>1, <1>3, <2>1, ChannelType DEF UniqueFor, Bounded
    <2>4. pc'[st] = "notify" => \A w \in Waiting(st)' : UpOf(w)'.id # cur'[st].id
      BY <1>1, <1>3, <2>1, IdTypes DEF UniqueFor, Bounded
    <2>5. \A sp \in Specs, w \in Waiting(st)' : UpOf(w)'.id # maxIds'[st][sp]
      BY <1>1, <1>3, <2>1, IdTypes DEF UniqueFor
    <2>6. \A sp \in Specs : maxIds'[st][sp] <= nextUpdateId'
      BY <1>1, <2>1, IdTypes DEF UniqueFor
    <2> QED
      BY <1>1, <2>1, <2>2, <2>3, <2>4, <2>5, <2>6 DEF UniqueFor
  <1> QED
    BY <1>4, <1>5, <1>6 DEF IdInv, IdsUnique

LEMMA IdNotifySend ==
    ASSUME IdInv, TypeOK, NEW o \in Observers, NEW k \in Slots, NotifySend(o, k)
    PROVE  IdInv'
  <1> DEFINE w0 == <<o, k>>
             r == o[1]
  <1>1. UNCHANGED <<nextUpdateId, maxIds, sent, pc, cur>>
    BY DEF NotifySend, streamVars
  <1>2. r \in Streams /\ w0 \in Waiting(r)
    BY ObserverFacts DEF NotifySend, Waiting
  <1>3. /\ notifyCh'[r] = Append(notifyCh[r], UpOf(w0))
        /\ \A st \in Streams \ {r} : notifyCh'[st] = notifyCh[st]
    BY <1>2 DEF NotifySend, UpOf, TypeOK
  <1>4. \A st \in Streams : \A w \in Waiting(st)' :
            w # w0 /\ w \in Waiting(st) /\ UpOf(w)' = UpOf(w)
    BY DEF NotifySend, Waiting, UpOf, TypeOK, Idle
  <1>5. \A st \in Streams : \A i \in DOMAIN notifyCh'[st] :
            \/ i \in DOMAIN notifyCh[st] /\ notifyCh'[st][i] = notifyCh[st][i]
            \/ /\ st = r /\ i \notin DOMAIN notifyCh[st] /\ i = Len(notifyCh[r]) + 1
               /\ notifyCh'[st][i] = UpOf(w0)
    <2>1. notifyCh[r] \in Seq(Updates) /\ UpOf(w0) \in Updates
      BY <1>2, ChannelType, WaitingType
    <2>2. \A i \in DOMAIN notifyCh'[r] :
            \/ i \in DOMAIN notifyCh[r] /\ notifyCh'[r][i] = notifyCh[r][i]
            \/ /\ i \notin DOMAIN notifyCh[r] /\ i = Len(notifyCh[r]) + 1
               /\ notifyCh'[r][i] = UpOf(w0)
      BY <1>3, <2>1, AppendIndices
    <2> QED
      BY <1>3, <2>2
  <1> HIDE DEF w0, r
  <1>6. ASSUME NEW st \in Streams PROVE Bounded(st)'
    <2>1. Bounded(st)
      BY DEF IdInv
    <2> QED
      BY <1>1, <1>2, <1>4, <1>5, <2>1 DEF Bounded
  <1>7. ASSUME NEW st \in Streams PROVE Remembered(st)'
    BY <1>1 DEF IdInv, Remembered
  <1>8. ASSUME NEW st \in Streams PROVE UniqueFor(st)'
    <2>1. UniqueFor(st)
      BY DEF IdInv, IdsUnique, UniqueFor
    <2> QED
      BY <1>1, <1>2, <1>4, <1>5, <2>1 DEF UniqueFor
  <1> QED
    BY <1>6, <1>7, <1>8 DEF IdInv, IdsUnique

LEMMA IdAddRegister ==
    ASSUME IdInv, TypeOK, NEW st \in Streams, AddRegister(st)
    PROVE  IdInv'
  <1>1. /\ nextUpdateId' = nextUpdateId + 1
        /\ UNCHANGED <<notifier, notifyCh, maxIds, sent>>
        /\ pc' = [pc EXCEPT ![st] = "notify"]
        /\ \A r \in Streams \ {st} : cur'[r] = cur[r]
        /\ cur'[st].id = nextUpdateId + 1
    BY DEF AddRegister, GoTo, DrawnId, TypeOK
  <1>2. \A r \in Streams : Waiting(r)' = Waiting(r) /\ \A w \in Waiting(r) : UpOf(w)' = UpOf(w)
    BY <1>1 DEF Waiting, UpOf
  <1>3. /\ pc'[st] = "notify"
        /\ \A r \in Streams \ {st} : pc'[r] = pc[r]
    BY <1>1 DEF TypeOK
  <1>4. ASSUME NEW r \in Streams PROVE Bounded(r)' /\ Remembered(r)' /\ UniqueFor(r)'
    <2>1. Bounded(r) /\ Remembered(r) /\ UniqueFor(r)
      BY DEF IdInv, IdsUnique
    <2>2. Bounded(r)'
      BY <1>1, <1>2, <1>3, <2>1, WaitingType, ChannelType, IdTypes DEF Bounded
    <2>3. Remembered(r)'
      BY <1>1, <1>3, <2>1 DEF Remembered
    <2>4. UniqueFor(r)'
      <3>1. CASE r # st
        BY <1>1, <1>2, <1>3, <2>1, <3>1, IdTypes DEF UniqueFor
      <3>2. CASE r = st
        <4>1. \A i \in DOMAIN notifyCh[st] : notifyCh[st][i].id # cur'[st].id
          BY <1>1, <2>1, <3>2, ChannelType, IdTypes DEF Bounded
        <4>2. \A w \in Waiting(st) : UpOf(w).id # cur'[st].id
          BY <1>1, <2>1, <3>2, WaitingType, IdTypes DEF Bounded
        <4> QED
          BY <1>1, <1>2, <2>1, <3>2, <4>1, <4>2, IdTypes DEF UniqueFor
      <3> QED
        BY <3>1, <3>2
    <2> QED
      BY <2>2, <2>3, <2>4
  <1> QED
    BY <1>4 DEF IdInv, IdsUnique

LEMMA IdAddNotify ==
    ASSUME IdInv, TypeOK, NEW st \in Streams, AddNotify(st)
    PROVE  IdInv'
  <1>1. /\ UNCHANGED <<nextUpdateId, notifier, maxIds, sent>>
        /\ pc[st] = "notify" /\ pc'[st] = "observe"
        /\ \A r \in Streams \ {st} :
            pc'[r] = pc[r] /\ cur'[r] = cur[r] /\ notifyCh'[r] = notifyCh[r]
        /\ notifyCh'[st] = Append(notifyCh[st], cur[st])
    BY DEF AddNotify, FirstUpdate, GoTo, TypeOK
  <1>2. \A r \in Streams : Waiting(r)' = Waiting(r) /\ \A w \in Waiting(r) : UpOf(w)' = UpOf(w)
    BY <1>1 DEF Waiting, UpOf
  <1>3. \A i \in DOMAIN notifyCh'[st] :
            \/ i \in DOMAIN notifyCh[st] /\ notifyCh'[st][i] = notifyCh[st][i]
            \/ /\ i \notin DOMAIN notifyCh[st] /\ i = Len(notifyCh[st]) + 1
               /\ notifyCh'[st][i] = cur[st]
    BY <1>1, AppendIndices, ChannelType, IdTypes
  <1>4. ASSUME NEW r \in Streams PROVE Bounded(r)' /\ Remembered(r)' /\ UniqueFor(r)'
    <2>1. Bounded(r) /\ Remembered(r) /\ UniqueFor(r)
      BY DEF IdInv, IdsUnique
    <2>2. Bounded(r)'
      BY <1>1, <1>2, <1>3, <2>1 DEF Bounded
    <2>3. Remembered(r)'
      BY <1>1, <2>1 DEF Remembered
    <2>4. UniqueFor(r)'
      <3>1. CASE r # st
        BY <1>1, <1>2, <2>1, <3>1 DEF UniqueFor
      <3>2. CASE r = st
        <4>1. \A sp \in Specs : cur[st].id # maxIds[st][sp]
          BY <1>1, <2>1, <3>2 DEF UniqueFor
        <4> QED
          BY <1>1, <1>2, <1>3, <2>1, <3>2, <4>1 DEF UniqueFor
      <3> QED
        BY <3>1, <3>2
    <2> QED
      BY <2>2, <2>3, <2>4
  <1> QED
    BY <1>4 DEF IdInv, IdsUnique


LEMMA IdReceive ==
    ASSUME IdInv, TypeOK, NEW st \in Streams, Receive(st)
    PROVE  IdInv'
  <1> DEFINE up == Head(notifyCh[st])
             sp0 == up.spec
  <1>1. /\ UNCHANGED <<nextUpdateId, notifier, sent>>
        /\ pc[st] = "serve"
        /\ notifyCh[st] # <<>>
        /\ notifyCh'[st] = Tail(notifyCh[st])
        /\ \A r \in Streams \ {st} :
            /\ pc'[r] = pc[r] /\ cur'[r] = cur[r]
            /\ notifyCh'[r] = notifyCh[r] /\ maxIds'[r] = maxIds[r]
    BY DEF Receive, GoTo, TypeOK
  <1>2. \A r \in Streams : Waiting(r)' = Waiting(r) /\ \A w \in Waiting(r) : UpOf(w)' = UpOf(w)
    BY <1>1 DEF Waiting, UpOf
  <1>3. /\ 1 \in DOMAIN notifyCh[st] /\ up = notifyCh[st][1]
        /\ DOMAIN notifyCh'[st] \subseteq Int
        /\ \A i \in DOMAIN notifyCh'[st] : /\ i + 1 \in DOMAIN notifyCh[st] /\ i + 1 # 1
                                           /\ notifyCh'[st][i] = notifyCh[st][i + 1]
    BY <1>1, TailIndices, ChannelType
  <1>4. up.id \in Nat /\ sp0 \in Specs
    BY <1>3, ChannelType DEF Updates
  <1>5. \/ pc'[st] = "serve" /\ maxIds'[st] = maxIds[st]
        \/ /\ pc'[st] = "send" /\ cur'[st] = up
           /\ up.id >= maxIds[st][sp0]
           /\ maxIds'[st][sp0] = up.id
           /\ \A sp \in Specs \ {sp0} : maxIds'[st][sp] = maxIds[st][sp]
    BY <1>4 DEF Receive, IsFresh, GoTo, TypeOK
  <1> HIDE DEF up, sp0
  <1>6. ASSUME NEW r \in Streams, r # st PROVE Bounded(r)' /\ Remembered(r)' /\ UniqueFor(r)'
    <2>1. Bounded(r) /\ Remembered(r) /\ UniqueFor(r)
      BY DEF IdInv, IdsUnique
    <2> QED
      BY <1>1, <1>2, <1>6, <2>1 DEF Bounded, Remembered, UniqueFor
  <1>7. Bounded(st)' /\ Remembered(st)' /\ UniqueFor(st)'
    <2>1. Bounded(st) /\ Remembered(st) /\ UniqueFor(st)
      BY DEF IdInv, IdsUnique
    <2>2. Bounded(st)'
      BY <1>1, <1>2, <1>3, <1>5, <2>1 DEF Bounded
    <2>3. /\ up.id # maxIds[st][sp0]
          /\ up.id <= nextUpdateId
          /\ \A w \in Waiting(st) : UpOf(w).id # up.id
          /\ \A i \in DOMAIN notifyCh'[st] : notifyCh'[st][i].id # up.id
      BY <1>3, <1>4, <2>1 DEF UniqueFor, Bounded
    <2>4. Remembered(st)'
      BY <1>1, <1>4, <1>5, <2>1, <2>3, IdTypes DEF Remembered, sp0
    <2>5. \A sp \in Specs :
            /\ \A i \in DOMAIN notifyCh'[st] : notifyCh'[st][i].id # maxIds'[st][sp]
            /\ \A w \in Waiting(st)' : UpOf(w)'.id # maxIds'[st][sp]
            /\ maxIds'[st][sp] <= nextUpdateId'
      BY <1>1, <1>2, <1>3, <1>4, <1>5, <2>1, <2>3 DEF UniqueFor
    <2>6. \A i, j \in DOMAIN notifyCh'[st] :
            notifyCh'[st][i].id = notifyCh'[st][j].id => i = j
      BY <1>3, <2>1 DEF UniqueFor
    <2> QED
      BY <1>1, <1>2, <1>3, <1>5, <2>1, <2>2, <2>4, <2>5, <2>6 DEF UniqueFor
  <1> QED
    BY <1>6, <1>7 DEF IdInv, IdsUnique

LEMMA IdSend ==
    ASSUME IdInv, TypeOK, NEW st \in Streams, SendOk(st) \/ SendFail(st)
    PROVE  IdInv'
  <1>1. /\ UNCHANGED <<nextUpdateId, notifier, notifyCh, maxIds>>
        /\ pc[st] = "send" /\ pc'[st] \notin {"notify", "send"}
        /\ \A r \in Streams \ {st} :
            pc'[r] = pc[r] /\ cur'[r] = cur[r] /\ sent'[r] = sent[r]
    BY DEF SendOk, SendFail, GoTo, TypeOK, notifyVars
  <1>2. \A r \in Streams : Waiting(r)' = Waiting(r) /\ \A w \in Waiting(r) : UpOf(w)' = UpOf(w)
    BY <1>1 DEF Waiting, UpOf
  <1>3. \A sp \in Specs : \/ sent'[st][sp] = sent[st][sp]
                          \/ sp = cur[st].spec /\ sent'[st][sp] = cur[st]
    <2>1. CASE SendFail(st)
      BY <2>1 DEF SendFail
    <2>2. CASE SendOk(st)
      <3>1. sent' = [sent EXCEPT ![st][cur[st].spec] = cur[st]] /\ cur[st].spec \in Specs
        BY <2>2, IdTypes DEF SendOk
      <3>2. sent \in [Streams -> [Specs -> Updates \cup {NoUpdate}]]
        BY DEF TypeOK
      <3> QED
        BY <3>1, <3>2
    <2> QED
      BY <2>1, <2>2
  <1>4. ASSUME NEW r \in Streams PROVE Bounded(r)' /\ Remembered(r)' /\ UniqueFor(r)'
    <2>1. Bounded(r) /\ Remembered(r) /\ UniqueFor(r)
      BY DEF IdInv, IdsUnique
    <2>2. Bounded(r)' /\ UniqueFor(r)'
      BY <1>1, <1>2, <2>1 DEF Bounded, UniqueFor
    <2>3. Remembered(r)'
      BY <1>1, <1>3, <2>1, IdTypes DEF Remembered
    <2> QED
      BY <2>2, <2>3
  <1> QED
    BY <1>4 DEF IdInv, IdsUnique

(* Every step keeps the invariant. *)
LEMMA IdNext == IdInv /\ TypeOK /\ [Next]_vars => IdInv'
  <1> SUFFICES ASSUME IdInv, TypeOK, [Next]_vars PROVE IdInv'
    OBVIOUS
  <1>1. ASSUME UNCHANGED <<notifyVars, maxIds, sent>>,
               \A st \in Streams : pc'[st] \in {"notify", "send"} =>
                    pc'[st] = pc[st] /\ cur'[st] = cur[st]
        PROVE  IdInv'
    <2>1. \A st \in Streams : Waiting(st)' = Waiting(st)
                              /\ \A w \in Waiting(st)' : UpOf(w)' = UpOf(w)
      BY <1>1 DEF Waiting, UpOf, notifyVars
    <2> QED
      BY <1>1, <2>1, IdFrame DEF notifyVars
  <1>2. CASE Registry \/ LoseEvents \/ WatchNext \/ \E s \in Services : RectifyTick(s)
    <2>1. UNCHANGED <<notifyVars, streamVars>>
      BY <1>2 DEF Registry, SetKey, DropKey, Change, LoseEvents, WatchNext, RectifyTick
    <2> QED
      BY <1>1, <2>1 DEF streamVars
  <1>3. ASSUME NEW u \in Updaters, UpdaterStep(u) PROVE IdInv'
    <2>1. CASE Lookup(u) \/ Fetch(u) \/ FetchError(u)
      <3>1. UNCHANGED <<notifyVars, streamVars>>
        BY <2>1 DEF Lookup, Fetch, FetchError
      <3> QED
        BY <1>1, <3>1 DEF streamVars
    <2> QED
      BY <1>3, <2>1, IdApply DEF UpdaterStep
  <1>4. ASSUME NEW o \in Observers, NEW k \in Slots, NotifierStep(o, k) PROVE IdInv'
    BY <1>4, IdNotifyTakeId, IdNotifySend, IdNotifyStop DEF NotifierStep
  <1>5. ASSUME NEW st \in Streams, Resolve(st) \/ AutoDisconnect(st) \/ HandlerStep(st)
        PROVE  IdInv'
    <2>1. CASE Resolve(st) \/ AutoDisconnect(st) \/ AddFetch(st) \/ AddFetchError(st)
               \/ AddObserve(st) \/ Remove(st)
      <3>1. /\ UNCHANGED <<notifyVars, maxIds, sent, cur>>
            /\ \/ pc' = [pc EXCEPT ![st] = "failed"]
               \/ pc' = [pc EXCEPT ![st] = "fetch"]
               \/ pc' = [pc EXCEPT ![st] = "register"]
               \/ pc' = [pc EXCEPT ![st] = "serve"]
               \/ pc' = [pc EXCEPT ![st] = "remove"]
               \/ pc' = [pc EXCEPT ![st] = "ended"]
        BY <2>1 DEF Resolve, AutoDisconnect, AddFetch, AddFetchError, AddObserve,
                    Remove, GoTo
      <3>2. \A r \in Streams : pc'[r] \in {"notify", "send"} => pc'[r] = pc[r]
        BY <3>1 DEF TypeOK
      <3> QED
        BY <1>1, <3>1, <3>2
    <2> QED
      BY <1>5, <2>1, IdAddRegister, IdAddNotify, IdReceive, IdSend DEF HandlerStep
  <1>6. CASE Settled \/ UNCHANGED vars
    BY <1>1, <1>6 DEF Settled, vars, notifyVars
  <1> QED
    BY <1>2, <1>3, <1>4, <1>5, <1>6 DEF Next

(* Ids are unique, whatever the number of streams, services and updaters.  *)
THEOREM IdsAreUnique == Spec => []IdsUnique
  <1>1. IdInv => IdsUnique
    BY DEF IdInv
  <1> QED
    BY TypeCorrect, IdInit, IdNext, <1>1, PTL DEF Spec

(* Only SendOk gives a client an update, and a newer one. *)
SentRise == \A st \in Streams, sp \in Specs :
                sent'[st][sp] # sent[st][sp] => sent'[st][sp].id > sent[st][sp].id

LEMMA SentRises ==
    ASSUME IdInv, TypeOK, [Next]_vars
    PROVE  SentRise \/ UNCHANGED vars
  <1>1. CASE UNCHANGED sent
    BY <1>1 DEF SentRise
  <1>2. CASE \E st \in Streams : SendOk(st)
    <2>1. PICK st \in Streams : SendOk(st)
      BY <1>2
    <2>2. /\ pc[st] = "send" /\ Remembered(st) /\ cur[st].spec \in Specs
          /\ cur[st].id \in Nat /\ sent[st][cur[st].spec].id \in Nat
      BY <2>1, IdTypes DEF IdInv, SendOk
    <2>3. \A r \in Streams, sp \in Specs :
              \/ sent'[r][sp] = sent[r][sp]
              \/ r = st /\ sp = cur[st].spec /\ sent'[r][sp] = cur[st]
      <3>1. sent' = [sent EXCEPT ![st][cur[st].spec] = cur[st]]
        BY <2>1 DEF SendOk
      <3>2. sent \in [Streams -> [Specs -> Updates \cup {NoUpdate}]]
        BY DEF TypeOK
      <3> QED
        BY <2>2, <3>1, <3>2
    <2> QED
      BY <2>2, <2>3 DEF Remembered, SentRise
  <1>3. CASE UNCHANGED vars
    BY <1>3
  <1> QED
    BY <1>1, <1>2, <1>3
    DEF Next, Registry, SetKey, DropKey, Change, LoseEvents, WatchNext, RectifyTick,
        UpdaterStep, Lookup, Fetch, FetchError, Apply, NotifierStep, NotifyTakeId,
        NotifySend, NotifyStop, Resolve, AutoDisconnect, HandlerStep, AddFetch,
        AddFetchError, AddRegister, AddNotify, AddObserve, Receive, SendFail, Remove,
        Settled, vars, streamVars

(* Resolve never sends, for one spec, an update whose id is not larger     *)
(* than the id of the one it sent before.                                  *)
THEOREM SentIdsDoIncrease == Spec => SentIdsIncrease
  <1>1. IdInv /\ TypeOK /\ [Next]_vars => [SentRise]_vars
    BY SentRises
  <1>2. Spec => [][SentRise]_vars
    BY TypeCorrect, IdInit, IdNext, <1>1, PTL DEF Spec
  <1> QED
    BY <1>2 DEF SentRise, SentIdsIncrease

-----------------------------------------------------------------------------
(* Who observes what.  EndedLeavesNothing and ServedIsObserved say nothing *)
(* of a handler at work: an observer joins when AddObserver is through     *)
(* with its spec, and from then on it is on its service or has been        *)
(* stopped, by a RemoveObserver of its connection; that one goes through   *)
(* the specs in order.                                                     *)

HasJoined(o) ==
    \/ pc[o[1]] \in {"serve", "send", "remove", "ended"}
    \/ pc[o[1]] \in {"fetch", "register", "notify", "observe"} /\ o[2] < at[o[1]]

Joins(o) ==
    /\ HasJoined(o) => Observed(o) \/ o \in stopped
    /\ Observed(o) \/ o \in stopped => HasJoined(o) \/ pc[o[1]] = "failed"
Leaves(o) ==
    /\ o \in stopped => ~Observed(o) /\ RemovedByNamesake(o)
    /\ o \in stopped => services[SpecOf(o).svc] # NoService
    /\ pc[o[1]] = "remove" /\ o[2] < at[o[1]] => o \in stopped
    /\ pc[o[1]] = "ended" => o \in stopped

JoinInv == \A o \in Observers : Joins(o) /\ Leaves(o)

LEMMA JoinInit == Init => JoinInv
  <1> SUFFICES ASSUME Init, NEW o \in Observers PROVE Joins(o) /\ Leaves(o)
    BY DEF JoinInv
  <1>1. o[1] \in Streams /\ SpecOf(o) \in Specs
    BY ObserverFacts
  <1>2. ~HasJoined(o) /\ ~Observed(o) /\ o \notin stopped /\ pc[o[1]] = "idle"
    BY <1>1 DEF Init, HasJoined, Observed, Specs
  <1> QED
    BY <1>2 DEF Joins, Leaves

(* A namesake that removes goes on removing, or has ended. *)
LEMMA NamesakeStays ==
    ASSUME NEW o,
           \A st \in Streams : pc[st] \in {"remove", "ended"} => pc'[st] \in {"remove", "ended"},
           RemovedByNamesake(o)
    PROVE  RemovedByNamesake(o)'
  BY DEF RemovedByNamesake, SpecOf

(* A step between the two ends of a handler: nobody joins or leaves. *)
LEMMA JoinFrame ==
    ASSUME JoinInv, TypeOK,
           UNCHANGED <<stopped, at>>,
           \A o \in Observers : Observed(o)' <=> Observed(o),
           \A s \in Services : services[s] # NoService => services'[s] # NoService,
           \A st \in Streams :
            \/ pc'[st] = pc[st]
            \/ /\ pc[st] \in {"fetch", "register", "notify", "observe"}
               /\ pc'[st] \in {"fetch", "register", "notify", "observe"}
            \/ pc[st] \in {"serve", "send"} /\ pc'[st] \in {"serve", "send", "remove"}
            \/ pc[st] = "idle" /\ pc'[st] = "fetch"
            \/ pc[st] \in {"idle", "fetch"} /\ pc'[st] = "failed"
    PROVE  JoinInv'
  <1> SUFFICES ASSUME NEW o \in Observers PROVE Joins(o)' /\ Leaves(o)'
    BY DEF JoinInv
  <1>1. /\ Joins(o) /\ Leaves(o)
        /\ o[1] \in Streams /\ o[2] \in 1..Len(Request[o[1]])
        /\ SpecOf(o)' = SpecOf(o) /\ SpecOf(o).svc \in Services
    BY ObserverFacts DEF JoinInv, SpecOf, Specs
  <1>2. pc[o[1]] \in {"idle", "serve", "send"} => at[o[1]] = 1
    BY <1>1 DEF TypeOK
  <1>3. ~(o[2] < 1)
    BY <1>1, RequestAssumption
  <1>4. HasJoined(o)' => HasJoined(o)
    BY <1>1, <1>2, <1>3 DEF HasJoined
  <1>5. HasJoined(o) => HasJoined(o)' \/ pc'[o[1]] = "failed"
    BY <1>1 DEF HasJoined
  <1>6. Joins(o)'
    BY <1>1, <1>4, <1>5 DEF Joins
  <1>7. o \in stopped => RemovedByNamesake(o)'
    BY <1>1, NamesakeStays DEF Leaves
  <1> QED
    BY <1>1, <1>2, <1>3, <1>6, <1>7 DEF Leaves

LEMMA JoinAddObserve ==
    ASSUME JoinInv, TypeOK, NEW st \in Streams, AddObserve(st)
    PROVE  JoinInv'
  <1> DEFINE new == <<st, at[st]>>
             s == SpecAt(st).svc
             more == at[st] < Len(Request[st])
  <1>1. /\ new \in Observers /\ new[1] = st /\ new[2] = at[st]
        /\ SpecOf(new) = SpecAt(st)
        /\ s \in Services
        /\ services[s] \in ServiceObjects
        /\ Len(Request[st]) \in Nat
        /\ at[st] \in 1..Len(Request[st])
    BY SpecAtType DEF AddObserve, TypeOK, SpecOf, SpecAt
  <1>2. /\ pc[st] = "observe"
        /\ services' = [services EXCEPT ![s].observers = @ \cup {new}]
        /\ at'[st] = (IF more THEN at[st] + 1 ELSE 1)
        /\ pc'[st] = (IF more THEN "fetch" ELSE "serve")
        /\ \A r \in Streams \ {st} : pc'[r] = pc[r] /\ at'[r] = at[r]
        /\ stopped' = stopped
    BY DEF AddObserve, GoTo, TypeOK
  <1>3. /\ \A t \in Services \ {s} : services'[t] = services[t]
        /\ services'[s].observers = services[s].observers \cup {new}
        /\ services'[s] # NoService
    <2>1. services'[s] = [services[s] EXCEPT !.observers = @ \cup {new}]
      BY <1>1, <1>2 DEF TypeOK
    <2>2. services'[s] \in ServiceObjects
      BY <1>1, <2>1 DEF ServiceObjects
    <2>3. services'[s].observers = services[s].observers \cup {new}
      BY <1>1, <2>1 DEF ServiceObjects
    <2> QED
      BY <1>1, <1>2, <2>2, <2>3, NoServiceAssumption DEF TypeOK
  <1>4. services[s] # NoService
    BY <1>1, NoServiceAssumption
  <1> HIDE DEF new, s
  <1> SUFFICES ASSUME NEW o \in Observers PROVE Joins(o)' /\ Leaves(o)'
    BY DEF JoinInv
  <1>5. /\ Joins(o) /\ Leaves(o)
        /\ o[1] \in Streams /\ o[2] \in 1..Len(Request[o[1]])
        /\ SpecOf(o)' = SpecOf(o) /\ SpecOf(o).svc \in Services
        /\ o = <<o[1], o[2]>>
    BY ObserverFacts DEF JoinInv, SpecOf, Specs
  <1>6. Observed(o)' <=> Observed(o) \/ o = new
    BY <1>1, <1>3, <1>4, <1>5 DEF Observed, s
  <1>7. o \in stopped => RemovedByNamesake(o)'
    BY <1>2, <1>5, NamesakeStays DEF Leaves
  <1>8. CASE o = new
    <2>1. ~HasJoined(o) /\ HasJoined(o)'
      BY <1>1, <1>2, <1>8 DEF HasJoined
    <2>2. o \notin stopped
      BY <1>1, <1>2, <1>5, <1>8, <2>1 DEF Joins
    <2> QED
      BY <1>1, <1>2, <1>5, <1>6, <1>8, <2>1, <2>2 DEF Joins, Leaves
  <1>9. CASE o # new
    <2>1. HasJoined(o)' <=> HasJoined(o)
      <3>1. CASE o[1] # st
        BY <1>2, <1>5, <3>1 DEF HasJoined
      <3>2. CASE o[1] = st
        <4>1. o[2] # at[st]
          BY <1>5, <1>9, <3>2 DEF new
        <4> QED
          BY <1>1, <1>2, <1>5, <3>2, <4>1 DEF HasJoined
      <3> QED
        BY <3>1, <3>2
    <2>2. pc[o[1]] = "failed" => pc'[o[1]] = "failed"
      BY <1>2, <1>5
    <2>3. services[SpecOf(o).svc] # NoService => services'[SpecOf(o).svc] # NoService
      BY <1>3, <1>5
    <2>4. pc'[o[1]] \in {"remove", "ended"} => pc'[o[1]] = pc[o[1]] /\ at'[o[1]] = at[o[1]]
      BY <1>2, <1>5
    <2> QED
      BY <1>2, <1>5, <1>6, <1>7, <1>9, <2>1, <2>2, <2>3, <2>4 DEF Joins, Leaves
  <1> QED
    BY <1>8, <1>9

LEMMA JoinRemove ==
    ASSUME JoinInv, TypeOK, NEW st \in Streams, Remove(st)
    PROVE  JoinInv'
  <1> DEFINE own == <<st, at[st]>>
             s == SpecAt(st).svc
             gone == Matching(services[s], SpecAt(st), AddrOf[st])
             more == at[st] < Len(Request[st])
  <1>1. /\ own \in Observers /\ own[1] = st /\ own[2] = at[st]
        /\ SpecOf(own) = SpecAt(st)
        /\ s \in Services
        /\ Len(Request[st]) \in Nat
        /\ at[st] \in 1..Len(Request[st])
        /\ pc[st] = "remove"
    BY SpecAtType DEF Remove, TypeOK, SpecOf, SpecAt
  <1>2. HasJoined(own) /\ Joins(own) /\ Leaves(own)
    BY <1>1 DEF HasJoined, JoinInv
  <1>3. services[s] # NoService /\ services[s] \in ServiceObjects
    BY <1>1, <1>2 DEF Joins, Leaves, Observed, TypeOK
  <1>4. /\ services' = [services EXCEPT ![s].observers = @ \ gone]
        /\ stopped' = stopped \cup gone
        /\ at' = [at EXCEPT ![st] = IF more THEN @ + 1 ELSE 1]
        /\ pc' = [pc EXCEPT ![st] = IF more THEN "remove" ELSE "ended"]
    BY <1>3 DEF Remove, Remaining, GoTo
  <1>5. /\ at'[st] = (IF more THEN at[st] + 1 ELSE 1)
        /\ pc'[st] = (IF more THEN "remove" ELSE "ended")
        /\ \A r \in Streams \ {st} : pc'[r] = pc[r] /\ at'[r] = at[r]
        /\ \A t \in Services \ {s} : services'[t] = services[t]
        /\ services'[s] = [services[s] EXCEPT !.observers = @ \ gone]
    BY <1>1, <1>4 DEF TypeOK
  <1>6. services'[s] # NoService /\ services'[s].observers = services[s].observers \ gone
    <2>1. services'[s] \in ServiceObjects
      BY <1>3, <1>5 DEF ServiceObjects
    <2> QED
      BY <1>3, <1>5, <2>1, NoServiceAssumption DEF ServiceObjects
  <1>7. \A o \in Observers : o \in gone <=>
            /\ o \in services[s].observers
            /\ AddrOf[o[1]] = AddrOf[st]
            /\ SpecOf(o) = SpecAt(st)
    BY DEF Matching
  <1> HIDE DEF own, s, gone
  <1> SUFFICES ASSUME NEW o \in Observers PROVE Joins(o)' /\ Leaves(o)'
    BY DEF JoinInv
  <1>8. /\ Joins(o) /\ Leaves(o)
        /\ o[1] \in Streams /\ o[2] \in 1..Len(Request[o[1]])
        /\ SpecOf(o)' = SpecOf(o) /\ SpecOf(o).svc \in Services
        /\ o = <<o[1], o[2]>>
    BY ObserverFacts DEF JoinInv, SpecOf, Specs
  <1>9. /\ Observed(o)' <=> Observed(o) /\ o \notin gone
        /\ o \in gone => Observed(o)
    BY <1>3, <1>5, <1>6, <1>7, <1>8 DEF Observed, s
  <1>10. services[SpecOf(o).svc] # NoService => services'[SpecOf(o).svc] # NoService
    BY <1>5, <1>6, <1>8
  <1>11. HasJoined(o)' <=> HasJoined(o)
    BY <1>1, <1>5, <1>8 DEF HasJoined
  <1>12. pc[o[1]] = "failed" <=> pc'[o[1]] = "failed"
    BY <1>1, <1>5, <1>8
  <1>13. Joins(o)'
    BY <1>4, <1>8, <1>9, <1>11, <1>12 DEF Joins
  <1>14. o \in stopped' => RemovedByNamesake(o)'
    <2>1. \A r \in Streams : pc[r] \in {"remove", "ended"} => pc'[r] \in {"remove", "ended"}
      BY <1>5
    <2>2. CASE o \in stopped
      BY <1>8, <2>1, <2>2, NamesakeStays DEF Leaves
    <2>3. CASE o \in gone
      <3>1. /\ pc'[st] \in {"remove", "ended"} /\ AddrOf[st] = AddrOf[o[1]]
            /\ at[st] \in 1..Len(Request[st]) /\ Request[st][at[st]] = SpecOf(o)
        BY <1>1, <1>5, <1>7, <2>3 DEF SpecAt
      <3> QED
        BY <1>8, <3>1 DEF RemovedByNamesake
    <2> QED
      BY <1>4, <2>2, <2>3
  <1>15. o \in stopped' => ~Observed(o)' /\ services'[SpecOf(o).svc] # NoService
    BY <1>4, <1>8, <1>9, <1>10 DEF Leaves, Observed
  <1>16. own \in stopped'
    BY <1>1, <1>2, <1>3, <1>4, <1>7 DEF Joins, Observed, s
  <1>17. /\ pc'[o[1]] = "remove" /\ o[2] < at'[o[1]] => o \in stopped'
         /\ pc'[o[1]] = "ended" => o \in stopped'
    <2>1. CASE o[1] # st
      BY <1>4, <1>5, <1>8, <2>1 DEF Leaves
    <2>2. CASE o[1] = st
      <3>1. CASE o[2] = at[st]
        BY <1>8, <1>16, <2>2, <3>1 DEF own
      <3>2. CASE o[2] < at[st]
        BY <1>1, <1>4, <1>8, <2>2, <3>2 DEF Leaves
      <3>3. CASE o[2] > at[st]
        BY <1>1, <1>5, <1>8, <2>2, <3>3
      <3> QED
        BY <1>1, <1>8, <3>1, <3>2, <3>3
    <2> QED
      BY <2>1, <2>2
  <1> QED
    BY <1>8, <1>13, <1>14, <1>15, <1>17 DEF Leaves

(* A service object is made without observers.                              *)
LEMMA JoinAddRegister ==
    ASSUME JoinInv, TypeOK, NEW st \in Streams, AddRegister(st)
    PROVE  JoinInv'
  <1> DEFINE s == SpecAt(st).svc
             new == [spec |-> SpecAt(st),
                     endpoints |-> Select(SpecAt(st), fetched[st].insts),
                     observers |-> {}]
  <1>1. /\ s \in Services /\ SpecAt(st) \in Specs
        /\ new \in ServiceObjects
    <2>1. SpecAt(st) \in Specs /\ s \in Services
      BY SpecAtType DEF AddRegister
    <2>2. Select(SpecAt(st), fetched[st].insts) \in SUBSET Instances
      BY SelectType DEF TypeOK, Contents
    <2> QED
      BY <2>1, <2>2 DEF ServiceObjects
  <1>2. /\ services' = [services EXCEPT ![s] = IF @ = NoService THEN new ELSE @]
        /\ pc[st] = "register"
        /\ pc' = [pc EXCEPT ![st] = "notify"]
        /\ UNCHANGED <<stopped, at>>
    BY DEF AddRegister, ServiceFor, GoTo
  <1>3. \A o \in Observers : Observed(o)' <=> Observed(o)
    <2> TAKE o \in Observers
    <2>1. SpecOf(o)' = SpecOf(o) /\ SpecOf(o).svc \in Services
      BY ObserverFacts DEF SpecOf, Specs
    <2>2. new.observers = {}
      OBVIOUS
    <2> HIDE DEF new, s
    <2> QED
      BY <1>1, <1>2, <2>1, <2>2 DEF Observed, TypeOK
  <1> HIDE DEF new, s
  <1>4. \A t \in Services : services[t] # NoService => services'[t] # NoService
    BY <1>1, <1>2, NoServiceAssumption DEF TypeOK
  <1>5. \A r \in Streams : pc'[r] = pc[r] \/ (pc[r] = "register" /\ pc'[r] = "notify")
    BY <1>2 DEF TypeOK
  <1> QED
    BY <1>2, <1>3, <1>4, <1>5, JoinFrame

LEMMA JoinNext == JoinInv /\ TypeOK /\ [Next]_vars => JoinInv'
  <1> SUFFICES ASSUME JoinInv, TypeOK, [Next]_vars PROVE JoinInv'
    OBVIOUS
  <1>1. ASSUME UNCHANGED <<services, stopped, at>>,
               \A st \in Streams :
                    \/ pc'[st] = pc[st]
                    \/ pc[st] = "fetch" /\ pc'[st] = "register"
                    \/ pc[st] = "notify" /\ pc'[st] = "observe"
                    \/ pc[st] \in {"serve", "send"} /\ pc'[st] \in {"serve", "send", "remove"}
                    \/ pc[st] = "idle" /\ pc'[st] = "fetch"
                    \/ pc[st] \in {"idle", "fetch"} /\ pc'[st] = "failed"
        PROVE  JoinInv'
    <2>1. \A o \in Observers : Observed(o)' <=> Observed(o)
      BY <1>1 DEF Observed, SpecOf
    <2> QED
      BY <1>1, <2>1, JoinFrame
  <1>2. ASSUME UNCHANGED <<services, stopped, at, pc>> PROVE JoinInv'
    BY <1>1, <1>2
  <1>3. CASE Registry \/ LoseEvents \/ WatchNext \/ \E s \in Services : RectifyTick(s)
    <2>1. UNCHANGED <<hubVars, streamVars>>
      BY <1>3 DEF Registry, SetKey, DropKey, Change, LoseEvents, WatchNext, RectifyTick
    <2> QED
      BY <1>2, <2>1 DEF hubVars, streamVars
  <1>4. ASSUME NEW u \in Updaters, UpdaterStep(u) PROVE JoinInv'
    <2>1. CASE Lookup(u) \/ Fetch(u) \/ FetchError(u)
      <3>1. UNCHANGED <<hubVars, streamVars>>
        BY <2>1 DEF Lookup, Fetch, FetchError
      <3> QED
        BY <1>2, <3>1 DEF hubVars, streamVars
    <2>2. CASE Apply(u)
      <3>1. UNCHANGED <<stopped, at, pc>>
        BY <2>2 DEF Apply, streamVars
      <3>2. \A o \in Observers : Observed(o)' <=> Observed(o)
        BY <2>2, ApplyFacts, ObserverFacts, NoServiceAssumption DEF Observed, SpecOf, Specs
      <3>3. \A s \in Services : services[s] # NoService => services'[s] # NoService
        BY <2>2, ApplyFacts, NoServiceAssumption
      <3> QED
        BY <3>1, <3>2, <3>3, JoinFrame
    <2> QED
      BY <1>4, <2>1, <2>2 DEF UpdaterStep
  <1>5. ASSUME NEW o \in Observers, NEW k \in Slots, NotifierStep(o, k) PROVE JoinInv'
    <2>1. UNCHANGED <<hubVars, streamVars>>
      BY <1>5 DEF NotifierStep, NotifyTakeId, NotifySend, NotifyStop
    <2> QED
      BY <1>2, <2>1 DEF hubVars, streamVars
  <1>6. ASSUME NEW st \in Streams, Resolve(st) \/ AutoDisconnect(st) \/ HandlerStep(st)
        PROVE  JoinInv'
    <2>1. CASE Resolve(st) \/ AutoDisconnect(st) \/ AddFetch(st) \/ AddFetchError(st)
               \/ AddNotify(st) \/ Receive(st) \/ SendOk(st) \/ SendFail(st)
      <3>1. UNCHANGED <<services, stopped, at>>
        BY <2>1 DEF Resolve, AutoDisconnect, AddFetch, AddFetchError, AddNotify, Receive,
                    SendOk, SendFail, hubVars
      <3>2. \/ pc' = pc
            \/ pc[st] = "idle" /\ pc' = [pc EXCEPT ![st] = "failed"]
            \/ pc[st] = "idle" /\ pc' = [pc EXCEPT ![st] = "fetch"]
            \/ pc[st] = "fetch" /\ pc' = [pc EXCEPT ![st] = "failed"]
            \/ pc[st] = "fetch" /\ pc' = [pc EXCEPT ![st] = "register"]
            \/ pc[st] = "notify" /\ pc' = [pc EXCEPT ![st] = "observe"]
            \/ pc[st] = "serve" /\ pc' = [pc EXCEPT ![st] = "remove"]
            \/ pc[st] = "serve" /\ pc' = [pc EXCEPT ![st] = "send"]
            \/ pc[st] = "send" /\ pc' = [pc EXCEPT ![st] = "serve"]
            \/ pc[st] = "send" /\ pc' = [pc EXCEPT ![st] = "remove"]
        BY <2>1 DEF Resolve, AutoDisconnect, AddFetch, AddFetchError, AddNotify, Receive,
                    SendOk, SendFail, GoTo
      <3>3. pc \in [Streams -> {"idle", "fetch", "register", "notify", "observe",
                           "serve", "send", "remove", "ended", "failed"}]
        BY DEF TypeOK
      <3> QED
        BY <1>1, <3>1, <3>2, <3>3
    <2> QED
      BY <1>6, <2>1, JoinAddRegister, JoinAddObserve, JoinRemove DEF HandlerStep
  <1>7. CASE Settled \/ UNCHANGED vars
    BY <1>2, <1>7 DEF Settled, vars
  <1> QED
    BY <1>3, <1>4, <1>5, <1>6, <1>7 DEF Next

(* A Resolve call that has returned after it was registered has left       *)
(* nothing in the hub, whoever removed its observers, and none of them has *)
(* been stopped twice.                                                     *)
THEOREM EndedHasLeftNothing == Spec => []EndedLeavesNothing
  <1>1. JoinInv => EndedLeavesNothing
    BY DEF JoinInv, Leaves, EndedLeavesNothing
  <1> QED
    BY TypeCorrect, JoinInit, JoinNext, <1>1, PTL DEF Spec

(* A client whose Resolve waits for updates is observing each service it   *)
(* has asked for, unless its own connection has asked to remove it.        *)
THEOREM ServedIsAlwaysObserved == Spec => []ServedIsObserved
  <1>1. JoinInv => ServedIsObserved
    BY DEF JoinInv, Joins, Leaves, HasJoined, ServedIsObserved
  <1> QED
    BY TypeCorrect, JoinInit, JoinNext, <1>1, PTL DEF Spec

-----------------------------------------------------------------------------
(* The hub implements the directory.  Nothing a step does makes a list; it *)
(* only has to be known that the lists are of services their stream has    *)
(* asked for, although a list is made for the spec of the service object,  *)
(* which may be another stream's.                                          *)

SpecsKept ==
    \A s \in Services : services[s] # NoService =>
        /\ services[s].spec.svc = s
        /\ services[s].spec \in D!Wanted
        /\ \A o \in services[s].observers : SpecOf(o).svc = s

NotifiersAsked ==
    \A o \in Observers, k \in Slots :
        notifier[o][k] # Idle => notifier[o][k].up.spec.svc = SpecOf(o).svc
ChannelsAsked ==
    \A st \in Streams : \A i \in DOMAIN notifyCh[st] :
        notifyCh[st][i].spec.svc \in D!ServicesOf(st)
HandsAsked ==
    \A st \in Streams : cur[st] # NoUpdate => cur[st].spec.svc \in D!ServicesOf(st)

AskedInv == SpecsKept /\ NotifiersAsked /\ ChannelsAsked /\ HandsAsked

(* An observer's spec is one its stream has asked for. *)
LEMMA ObserverAsked ==
    ASSUME NEW o \in Observers
    PROVE  /\ SpecOf(o) \in D!Wanted
           /\ SpecOf(o).svc \in D!ServicesOf(o[1])
  <1>1. o[1] \in Streams /\ o[2] \in DOMAIN Request[o[1]]
    BY ObserverFacts, RequestAssumption
  <1>2. SpecOf(o) \in Asked[o[1]]
    BY <1>1 DEF Asked, SpecOf
  <1> QED
    BY <1>1, <1>2 DEF D!Wanted, D!ServicesOf

LEMMA SpecAtAsked ==
    ASSUME TypeOK, NEW st \in Streams, pc[st] \notin {"idle", "ended", "failed"}
    PROVE  /\ SpecAt(st) \in D!Wanted
           /\ SpecAt(st).svc \in D!ServicesOf(st)
  <1> DEFINE o == <<st, at[st]>>
  <1>1. o \in Observers /\ o[1] = st /\ SpecOf(o) = SpecAt(st)
    BY SpecAtType DEF SpecOf, SpecAt
  <1> HIDE DEF o
  <1> QED
    BY <1>1, ObserverAsked

LEMMA AskedInit == Init => AskedInv
  <1> SUFFICES ASSUME Init PROVE AskedInv
    OBVIOUS
  <1>1. \A st \in Streams : DOMAIN notifyCh[st] = {}
    BY DEF Init
  <1> QED
    BY <1>1 DEF Init, AskedInv, SpecsKept, NotifiersAsked, ChannelsAsked, HandsAsked

(* What a step does to the service objects: they are never thrown away and *)
(* keep the spec they were made for.                                       *)
SpecsStay ==
    \A s \in Services : services[s] # NoService =>
        services'[s] # NoService /\ services'[s].spec = services[s].spec

(* A step by which no object appears and nobody starts to observe one. *)
LEMMA SpecsKeptFrame ==
    ASSUME SpecsKept, SpecsStay,
           \A s \in Services : services[s] = NoService => services'[s] = NoService,
           \A s \in Services : services[s] # NoService =>
                services'[s].observers \subseteq services[s].observers
    PROVE  SpecsKept'
  BY DEF SpecsKept, SpecsStay, SpecOf, D!Wanted, Asked

(* Lists that nobody reads anew. *)
LEMMA ReadFrame ==
    ASSUME TypeOK, SpecsStay,
           \A u \in Updaters : updater'[u].pc = "apply" => updater'[u] = updater[u],
           \A st \in Streams : pc'[st] = "register" =>
                pc[st] = "register" /\ at'[st] = at[st] /\ fetched'[st] = fetched[st]
    PROVE  BeingApplied' \subseteq BeingApplied /\ BeingRegistered' \subseteq BeingRegistered
  <1>1. ASSUME NEW l \in BeingApplied' PROVE l \in BeingApplied
    <2>1. PICK u \in Updaters : /\ updater'[u].pc = "apply"
                                /\ l = Listing(services'[updater'[u].svc].spec, updater'[u].reg)
      BY <1>1 DEF BeingApplied, Listing, Select
    <2>2. updater'[u] = updater[u] /\ updater[u].pc = "apply"
      BY <2>1
    <2>3. updater[u].svc \in Services /\ services[updater[u].svc] # NoService
      BY <2>2 DEF TypeOK
    <2>4. l = Listing(services[updater[u].svc].spec, updater[u].reg)
      BY <2>1, <2>2, <2>3 DEF SpecsStay
    <2> QED
      BY <2>2, <2>4 DEF BeingApplied
  <1>2. ASSUME NEW l \in BeingRegistered' PROVE l \in BeingRegistered
    <2>1. PICK st \in Streams : /\ pc'[st] = "register"
                                /\ l = Listing(Request[st][at'[st]], fetched'[st])
      BY <1>2 DEF BeingRegistered, SpecAt, Listing, Select
    <2> QED
      BY <2>1 DEF BeingRegistered, SpecAt
  <1> QED
    BY <1>1, <1>2

(* A step that reads nothing and delivers nothing. *)
LEMMA Forgets ==
    ASSUME TypeOK, SpecsStay, UNCHANGED <<registry, sent>>,
           \A u \in Updaters : updater'[u].pc = "apply" => updater'[u] = updater[u],
           \A st \in Streams : pc'[st] = "register" =>
                pc[st] = "register" /\ at'[st] = at[st] /\ fetched'[st] = fetched[st],
           InHands' \cup InChannels' \cup InNotifiers' \subseteq UnderWay
    PROVE  D!Next
  <1>1. UnderWay' \subseteq UnderWay
    BY ReadFrame DEF UnderWay
  <1> QED
    BY <1>1 DEF D!Next, D!Forget

(* What applyEndpoints spawns is the list it applies, for observers. *)
LEMMA SpawnedUpdate ==
    ASSUME TypeOK, NEW u \in Updaters, Apply(u), NEW o \in Observers, NEW k \in Slots
    PROVE  LET so == services[updater[u].svc]
           IN  \/ notifier'[o][k] = notifier[o][k]
               \/ /\ o \in so.observers
                  /\ notifier'[o][k].up.spec = so.spec
                  /\ ListOf(notifier'[o][k].up) = Listing(so.spec, updater[u].reg)
  <1> DEFINE so == services[updater[u].svc]
             eps == Select(so.spec, updater[u].reg.insts)
             up == [id |-> 0, spec |-> so.spec, insts |-> eps, ver |-> updater[u].reg.ver]
  <1>1. CASE o \in so.observers /\ up.insts # {}
    <2>1. notifier'[o] = [notifier[o] EXCEPT ![FreeSlot(o)] = [pc |-> "start", up |-> up]]
      BY <1>1 DEF Apply, Spawn
    <2>2. notifier[o] \in [Slots -> {Idle} \cup [pc : {"start", "send"}, up : Updates]]
      BY DEF TypeOK
    <2>3. up.spec = so.spec /\ ListOf(up) = Listing(so.spec, updater[u].reg)
      BY DEF ListOf, Listing
    <2> HIDE DEF up
    <2>4. notifier'[o][k] = notifier[o][k] \/ notifier'[o][k] = [pc |-> "start", up |-> up]
      BY <2>1, <2>2
    <2> QED
      BY <1>1, <2>3, <2>4
  <1>2. CASE ~(o \in so.observers /\ up.insts # {})
    BY <1>2 DEF Apply, Spawn
  <1> QED
    BY <1>1, <1>2

LEMMA DirectoryApply ==
    ASSUME AskedInv, TypeOK, NEW u \in Updaters, Apply(u)
    PROVE  AskedInv' /\ D!Next
  <1> DEFINE s == updater[u].svc
  <1>1. /\ updater[u].pc = "apply"
        /\ updater' = [updater EXCEPT ![u].pc = "idle"]
        /\ UNCHANGED <<registry, sent, pc, at, fetched, cur, notifyCh>>
    BY DEF Apply, etcdVars, streamVars
  <1>2. /\ s \in Services /\ services[s] # NoService
        /\ SpecsStay
        /\ \A t \in Services : services[t] = NoService => services'[t] = NoService
        /\ \A t \in Services : services[t] # NoService =>
                services'[t].observers = services[t].observers
    BY ApplyFacts, NoServiceAssumption DEF SpecsStay
  <1>3. \A o \in Observers, k \in Slots :
            \/ notifier'[o][k] = notifier[o][k]
            \/ /\ o \in services[s].observers
               /\ notifier'[o][k].up.spec = services[s].spec
               /\ ListOf(notifier'[o][k].up) = Listing(services[s].spec, updater[u].reg)
    BY SpawnedUpdate
  <1>4. AskedInv'
    <2>1. SpecsKept'
      BY <1>2, SpecsKeptFrame DEF AskedInv
    <2>2. NotifiersAsked'
      BY <1>2, <1>3 DEF AskedInv, NotifiersAsked, SpecsKept, SpecOf
    <2>3. ChannelsAsked' /\ HandsAsked'
      BY <1>1 DEF AskedInv, ChannelsAsked, HandsAsked, D!ServicesOf, Asked
    <2> QED
      BY <2>1, <2>2, <2>3 DEF AskedInv
  <1>5. InNotifiers' \subseteq UnderWay
    <2> SUFFICES ASSUME NEW l \in InNotifiers' PROVE l \in UnderWay
      OBVIOUS
    <2>1. PICK w \in Observers \X Slots : /\ notifier'[w[1]][w[2]] # Idle
                                          /\ l = ListOf(notifier'[w[1]][w[2]].up)
      BY DEF InNotifiers, UpOf, ListOf
    <2>2. CASE notifier'[w[1]][w[2]] = notifier[w[1]][w[2]]
      BY <2>1, <2>2 DEF UnderWay, InNotifiers, UpOf
    <2>3. CASE l = Listing(services[s].spec, updater[u].reg)
      BY <1>1, <2>3 DEF UnderWay, BeingApplied
    <2> QED
      BY <1>3, <2>1, <2>2, <2>3
  <1>6. InHands' = InHands /\ InChannels' = InChannels
    BY <1>1 DEF InHands, InChannels
  <1>7. \A v \in Updaters : updater'[v].pc = "apply" => updater'[v] = updater[v]
    BY <1>1 DEF TypeOK
  <1>8. D!Next
    BY <1>1, <1>2, <1>5, <1>6, <1>7, Forgets DEF UnderWay
  <1> QED
    BY <1>4, <1>8

(* updateEndpoints reads the directory of a service that has an object,    *)
(* hence for a spec somebody has asked for.                                *)
LEMMA DirectoryFetch ==
    ASSUME AskedInv, TypeOK, NEW u \in Updaters, Fetch(u)
    PROVE  AskedInv' /\ D!Next
  <1> DEFINE s == updater[u].svc
             l0 == Listing(services[s].spec, registry[s])
  <1>1. /\ s \in Services /\ services[s] # NoService
        /\ updater' = [updater EXCEPT ![u].pc = "apply", ![u].reg = registry[s]]
        /\ UNCHANGED <<services, registry, sent, pc, at, fetched, cur, notifyCh, notifier>>
    BY DEF TypeOK, Fetch, etcdVars, hubVars, notifyVars, streamVars
  <1>2. AskedInv'
    BY <1>1 DEF AskedInv, SpecsKept, NotifiersAsked, ChannelsAsked, HandsAsked, SpecOf,
                D!Wanted, D!ServicesOf, Asked
  <1>3. /\ InHands' = InHands /\ InChannels' = InChannels /\ InNotifiers' = InNotifiers
        /\ BeingRegistered' = BeingRegistered
    BY <1>1 DEF InHands, InChannels, InNotifiers, BeingRegistered, UpOf, SpecAt
  <1>4. BeingApplied' \subseteq BeingApplied \cup {l0}
    <2> SUFFICES ASSUME NEW l \in BeingApplied' PROVE l \in BeingApplied \cup {l0}
      OBVIOUS
    <2>1. PICK v \in Updaters : /\ updater'[v].pc = "apply"
                                /\ l = Listing(services[updater'[v].svc].spec, updater'[v].reg)
      BY <1>1 DEF BeingApplied, Listing, Select
    <2>2. updater'[v] = updater[v] \/ (updater'[v].svc = s /\ updater'[v].reg = registry[s])
      BY <1>1 DEF TypeOK
    <2> QED
      BY <2>1, <2>2 DEF BeingApplied
  <1>5. services[s].spec \in D!Wanted /\ services[s].spec.svc = s
    BY <1>1 DEF AskedInv, SpecsKept
  <1>6. l0 = D!List(services[s].spec, registry[s])
    BY DEF Listing, Select, D!List
  <1>7. D!Read(s)
    <2> HIDE DEF l0, s
    <2>1. UnderWay' \subseteq UnderWay \cup {l0}
      BY <1>3, <1>4 DEF UnderWay
    <2>2. l0 \in {D!List(spec, registry[s]) : spec \in {sp \in D!Wanted : sp.svc = s}}
      BY <1>5, <1>6
    <2> QED
      BY <1>1, <2>1, <2>2 DEF D!Read
  <1> QED
    BY <1>1, <1>2, <1>7 DEF D!Next

(* AddObserver reads the service for the spec it was asked for. *)
LEMMA DirectoryAddFetch ==
    ASSUME AskedInv, TypeOK, NEW st \in Streams, AddFetch(st)
    PROVE  AskedInv' /\ D!Next
  <1> DEFINE spec == SpecAt(st)
             l0 == Listing(spec, registry[spec.svc])
  <1>1. /\ fetched' = [fetched EXCEPT ![st] = registry[spec.svc]]
        /\ pc' = [pc EXCEPT ![st] = "register"]
        /\ UNCHANGED <<services, updater, registry, sent, at, cur, notifyCh, notifier>>
    BY DEF AddFetch, GoTo, etcdVars, updaterVars, hubVars, notifyVars
  <1>2. spec \in D!Wanted /\ spec.svc \in Services
    BY SpecAtAsked, SpecAtType DEF AddFetch
  <1>3. AskedInv'
    BY <1>1 DEF AskedInv, SpecsKept, NotifiersAsked, ChannelsAsked, HandsAsked, SpecOf,
                D!Wanted, D!ServicesOf, Asked
  <1>4. /\ InHands' = InHands /\ InChannels' = InChannels /\ InNotifiers' = InNotifiers
        /\ BeingApplied' = BeingApplied
    BY <1>1 DEF InHands, InChannels, InNotifiers, BeingApplied, UpOf
  <1>5. BeingRegistered' \subseteq BeingRegistered \cup {l0}
    <2> SUFFICES ASSUME NEW l \in BeingRegistered' PROVE l \in BeingRegistered \cup {l0}
      OBVIOUS
    <2>1. PICK r \in Streams : /\ pc'[r] = "register"
                               /\ l = Listing(SpecAt(r), fetched'[r])
      BY <1>1 DEF BeingRegistered, SpecAt, Listing, Select
    <2>2. /\ fetched'[st] = registry[spec.svc]
          /\ r # st => pc[r] = "register" /\ fetched'[r] = fetched[r]
      <3> HIDE DEF spec
      <3> QED
        BY <1>1, <2>1 DEF TypeOK
    <2> QED
      BY <2>1, <2>2 DEF BeingRegistered
  <1>6. l0 = D!List(spec, registry[spec.svc])
    BY DEF Listing, Select, D!List
  <1>7. D!Read(spec.svc)
    <2> HIDE DEF l0, spec
    <2>1. UnderWay' \subseteq UnderWay \cup {l0}
      BY <1>4, <1>5 DEF UnderWay
    <2>2. l0 \in {D!List(sp, registry[spec.svc]) : sp \in {x \in D!Wanted : x.svc = spec.svc}}
      BY <1>2, <1>6
    <2> QED
      BY <1>1, <2>1, <2>2 DEF D!Read
  <1> QED
    BY <1>2, <1>3, <1>7 DEF D!Next

LEMMA DirectoryNotifier ==
    ASSUME AskedInv, TypeOK, NEW o \in Observers, NEW k \in Slots, NotifierStep(o, k)
    PROVE  AskedInv' /\ D!Next
  <1> DEFINE up == notifier[o][k].up
  <1>1. UNCHANGED <<services, updater, registry, sent, pc, at, fetched, cur>>
    BY DEF NotifierStep, NotifyTakeId, NotifySend, NotifyStop, etcdVars, updaterVars,
           hubVars, streamVars
  <1>2. /\ notifier[o][k] # Idle
        /\ notifier[o][k] \in [pc : {"start", "send"}, up : Updates]
    BY DEF TypeOK, NotifierStep, NotifyTakeId, NotifySend, NotifyStop, Idle
  <1>3. up \in Updates /\ o[1] \in Streams
    BY <1>2, ObserverFacts
  <1>4. \A v \in Observers, j \in Slots :
            \/ notifier'[v][j] = notifier[v][j]
            \/ notifier'[v][j] = Idle
            \/ /\ v = o /\ j = k
               /\ notifier'[v][j].up.spec = up.spec
               /\ ListOf(notifier'[v][j].up) = ListOf(up)
    <2>1. notifier \in [Observers -> [Slots -> {Idle} \cup [pc : {"start", "send"}, up : Updates]]]
      BY DEF TypeOK
    <2>2. CASE notifier' = [notifier EXCEPT ![o][k] = Idle]
      BY <2>1, <2>2
    <2>3. CASE NotifyTakeId(o, k)
      <3>1. notifier' = [notifier EXCEPT ![o][k] =
                            [[@ EXCEPT !.pc = "send"] EXCEPT !.up.id = DrawnId]]
        BY <1>2, <2>1, <2>3 DEF NotifyTakeId
      <3>2. \A v \in Observers, j \in Slots :
                (v = o /\ j = k) \/ notifier'[v][j] = notifier[v][j]
        BY <2>1, <3>1
      <3>3. notifier'[o][k].up = [up EXCEPT !.id = DrawnId]
        BY <1>2, <2>1, <3>1
      <3>4. /\ notifier'[o][k].up.spec = up.spec
            /\ ListOf(notifier'[o][k].up) = ListOf(up)
        BY <1>3, <3>3 DEF ListOf, Updates
      <3> QED
        BY <3>2, <3>4
    <2> QED
      BY <2>2, <2>3 DEF NotifierStep, NotifySend, NotifyStop
  <1>5. \/ notifyCh' = notifyCh
        \/ notifyCh' = [notifyCh EXCEPT ![o[1]] = Append(@, up)]
    BY DEF NotifierStep, NotifyTakeId, NotifySend, NotifyStop
  <1>6. \A st \in Streams : \A i \in DOMAIN notifyCh'[st] :
            \/ i \in DOMAIN notifyCh[st] /\ notifyCh'[st][i] = notifyCh[st][i]
            \/ st = o[1] /\ notifyCh'[st][i] = up
    <2>1. \A st \in Streams : notifyCh[st] \in Seq(Updates)
      BY ChannelType
    <2>2. CASE notifyCh' = notifyCh
      BY <2>2
    <2>3. CASE notifyCh' = [notifyCh EXCEPT ![o[1]] = Append(@, up)]
      <3>1. /\ notifyCh'[o[1]] = Append(notifyCh[o[1]], up)
            /\ \A st \in Streams \ {o[1]} : notifyCh'[st] = notifyCh[st]
        BY <1>3, <2>3 DEF TypeOK
      <3> HIDE DEF up
      <3>2. \A i \in DOMAIN notifyCh'[o[1]] :
                \/ i \in DOMAIN notifyCh[o[1]] /\ notifyCh'[o[1]][i] = notifyCh[o[1]][i]
                \/ notifyCh'[o[1]][i] = up
        BY <1>3, <2>1, <3>1, AppendIndices
      <3> QED
        BY <3>1, <3>2
    <2> QED
      BY <1>5, <2>2, <2>3
  <1>7. up.spec.svc = SpecOf(o).svc /\ SpecOf(o).svc \in D!ServicesOf(o[1])
    BY <1>2, ObserverAsked DEF AskedInv, NotifiersAsked
  <1>8. ListOf(up) \in InNotifiers
    <2>1. o[1] \in Streams /\ <<o, k>> \in Observers \X Slots
      BY <1>3
    <2> QED
      BY <1>2, <2>1 DEF InNotifiers, UpOf
  <1> HIDE DEF up
  <1>9. AskedInv'
    <2>1. NotifiersAsked'
      BY <1>4, <1>7 DEF AskedInv, NotifiersAsked, SpecOf
    <2>2. ChannelsAsked'
      BY <1>6, <1>7 DEF AskedInv, ChannelsAsked, D!ServicesOf, Asked
    <2> QED
      BY <1>1, <2>1, <2>2 DEF AskedInv, SpecsKept, HandsAsked, SpecOf, D!Wanted,
                              D!ServicesOf, Asked
  <1>10. InNotifiers' \subseteq InNotifiers
    <2> SUFFICES ASSUME NEW l \in InNotifiers' PROVE l \in InNotifiers
      OBVIOUS
    <2>1. PICK w \in Observers \X Slots : /\ notifier'[w[1]][w[2]] # Idle
                                          /\ l = ListOf(notifier'[w[1]][w[2]].up)
      BY DEF InNotifiers, UpOf, ListOf
    <2>2. w[1] \in Observers /\ w[2] \in Slots
      BY <2>1
    <2>3. notifier'[w[1]][w[2]] = notifier[w[1]][w[2]] \/ l = ListOf(up)
      BY <1>4, <2>1, <2>2
    <2> QED
      BY <1>8, <2>1, <2>3 DEF InNotifiers, UpOf
  <1>11. InChannels' \subseteq InChannels \cup InNotifiers
    <2> SUFFICES ASSUME NEW l \in InChannels' PROVE l \in InChannels \cup InNotifiers
      OBVIOUS
    <2>1. PICK st \in Streams : \E i \in DOMAIN notifyCh'[st] : l = ListOf(notifyCh'[st][i])
      BY DEF InChannels, ListOf
    <2> QED
      BY <1>6, <1>8, <2>1 DEF InChannels
  <1>12. InHands' = InHands /\ SpecsStay
    BY <1>1 DEF InHands, SpecsStay
  <1>13. D!Next
    BY <1>1, <1>10, <1>11, <1>12, Forgets DEF UnderWay
  <1> QED
    BY <1>9, <1>13

-----------------------------------------------------------------------------
LEMMA DirectoryAddRegister ==
    ASSUME AskedInv, TypeOK, NEW st \in Streams, AddRegister(st)
    PROVE  AskedInv' /\ D!Next
  <1> DEFINE spec == SpecAt(st)
             eps == Select(spec, fetched[st].insts)
             new == [spec |-> spec, endpoints |-> eps, observers |-> {}]
             up == [id |-> DrawnId, spec |-> spec, insts |-> eps, ver |-> fetched[st].ver]
  <1>1. /\ pc[st] = "register"
        /\ services' = [services EXCEPT ![spec.svc] = IF @ = NoService THEN new ELSE @]
        /\ cur' = [cur EXCEPT ![st] = up]
        /\ pc' = [pc EXCEPT ![st] = "notify"]
        /\ UNCHANGED <<registry, updater, notifier, notifyCh, at, fetched, sent>>
    BY DEF AddRegister, ServiceFor, GoTo, etcdVars, updaterVars
  <1>2. spec \in D!Wanted /\ spec.svc \in Services /\ spec.svc \in D!ServicesOf(st)
    BY <1>1, SpecAtAsked, SpecAtType
  <1>3. /\ new.spec = spec /\ new.observers = {} /\ new # NoService
        /\ up.spec = spec /\ ListOf(up) = Listing(spec, fetched[st])
    <2>1. eps \in SUBSET Instances /\ spec \in Specs
      BY <1>1, SelectType, SpecAtType DEF TypeOK, Contents
    <2>2. new \in ServiceObjects
      BY <2>1 DEF ServiceObjects
    <2> QED
      BY <2>2, NoServiceAssumption DEF ListOf, Listing
  <1> HIDE DEF new, up
  <1>4. /\ SpecsStay
        /\ \A s \in Services :
            services'[s] = services[s] \/ (s = spec.svc /\ services'[s] = new)
    BY <1>1, <1>2, <1>3 DEF SpecsStay, TypeOK
  <1>5. cur'[st] = up /\ \A r \in Streams \ {st} : cur'[r] = cur[r]
    BY <1>1 DEF TypeOK
  <1>6. AskedInv'
    <2>1. SpecsKept'
      BY <1>2, <1>3, <1>4 DEF AskedInv, SpecsKept, SpecOf, D!Wanted, Asked
    <2>2. HandsAsked'
      BY <1>2, <1>3, <1>5 DEF AskedInv, HandsAsked, D!ServicesOf, Asked
    <2> QED
      BY <1>1, <2>1, <2>2 DEF AskedInv, NotifiersAsked, ChannelsAsked, SpecOf,
                              D!ServicesOf, Asked
  <1>7. InHands' \subseteq InHands \cup BeingRegistered
    <2> SUFFICES ASSUME NEW l \in InHands' PROVE l \in InHands \cup BeingRegistered
      OBVIOUS
    <2>1. PICK r \in Streams : cur'[r] # NoUpdate /\ l = ListOf(cur'[r])
      BY DEF InHands, ListOf
    <2> QED
      BY <1>1, <1>3, <1>5, <2>1 DEF InHands, BeingRegistered
  <1>8. InChannels' = InChannels /\ InNotifiers' = InNotifiers
    BY <1>1 DEF InChannels, InNotifiers, UpOf
  <1>9. \A r \in Streams : pc'[r] = "register" => pc[r] = "register"
    BY <1>1 DEF TypeOK
  <1>10. D!Next
    BY <1>1, <1>4, <1>7, <1>8, <1>9, Forgets DEF UnderWay
  <1> QED
    BY <1>6, <1>10

LEMMA NoUpdateIsNone == NoUpdate \notin Updates
  <1> SUFFICES ASSUME NoUpdate \in Updates PROVE FALSE
    OBVIOUS
  <1>1. DOMAIN NoUpdate = {"id"}
    BY DEF NoUpdate
  <1>2. DOMAIN NoUpdate = {"id", "spec", "insts", "ver"}
    BY DEF Updates
  <1> QED
    BY <1>1, <1>2

LEMMA DirectoryAddNotify ==
    ASSUME AskedInv, TypeOK, NEW st \in Streams, AddNotify(st)
    PROVE  AskedInv' /\ D!Next
  <1>1. /\ pc[st] = "notify"
        /\ notifyCh' = [notifyCh EXCEPT ![st] = Append(@, cur[st])]
        /\ cur' = [cur EXCEPT ![st] = NoUpdate]
        /\ pc' = [pc EXCEPT ![st] = "observe"]
        /\ UNCHANGED <<registry, services, updater, notifier, at, fetched, sent>>
    BY DEF AddNotify, FirstUpdate, GoTo, etcdVars, updaterVars
  <1>2. cur[st] \in Updates /\ cur[st] # NoUpdate
    BY <1>1, NoUpdateIsNone DEF TypeOK
  <1>3. \A r \in Streams : cur'[r] = cur[r] \/ cur'[r] = NoUpdate
    BY <1>1 DEF TypeOK
  <1>4. \A r \in Streams : \A i \in DOMAIN notifyCh'[r] :
            \/ i \in DOMAIN notifyCh[r] /\ notifyCh'[r][i] = notifyCh[r][i]
            \/ r = st /\ notifyCh'[r][i] = cur[st]
    <2>1. /\ notifyCh'[st] = Append(notifyCh[st], cur[st])
          /\ \A r \in Streams \ {st} : notifyCh'[r] = notifyCh[r]
          /\ notifyCh[st] \in Seq(Updates)
      BY <1>1 DEF TypeOK
    <2>2. \A i \in DOMAIN notifyCh'[st] :
            \/ i \in DOMAIN notifyCh[st] /\ notifyCh'[st][i] = notifyCh[st][i]
            \/ notifyCh'[st][i] = cur[st]
      BY <1>2, <2>1, AppendIndices
    <2> QED
      BY <2>1, <2>2
  <1>5. AskedInv'
    <2>1. ChannelsAsked' /\ HandsAsked'
      BY <1>2, <1>3, <1>4
      DEF AskedInv, ChannelsAsked, HandsAsked, D!ServicesOf, Asked
    <2> QED
      BY <1>1, <2>1 DEF AskedInv, SpecsKept, NotifiersAsked, SpecOf, D!Wanted, Asked
  <1>6. InHands' \subseteq InHands
    BY <1>3 DEF InHands
  <1>7. InChannels' \subseteq InChannels \cup InHands
    <2> SUFFICES ASSUME NEW l \in InChannels' PROVE l \in InChannels \cup InHands
      OBVIOUS
    <2>1. PICK r \in Streams : \E i \in DOMAIN notifyCh'[r] : l = ListOf(notifyCh'[r][i])
      BY DEF InChannels, ListOf
    <2> QED
      BY <1>2, <1>4, <2>1 DEF InChannels, InHands
  <1>8. InNotifiers' = InNotifiers /\ SpecsStay
    BY <1>1 DEF InNotifiers, UpOf, SpecsStay
  <1>9. \A r \in Streams : pc'[r] = "register" => pc[r] = "register"
    BY <1>1 DEF TypeOK
  <1>10. D!Next
    BY <1>1, <1>6, <1>7, <1>8, <1>9, Forgets DEF UnderWay
  <1> QED
    BY <1>5, <1>10

(* An observer joins the object of its own service. *)
LEMMA DirectoryAddObserve ==
    ASSUME AskedInv, TypeOK, NEW st \in Streams, AddObserve(st)
    PROVE  AskedInv' /\ D!Next
  <1> DEFINE new == <<st, at[st]>>
             s == SpecAt(st).svc
  <1>1. /\ pc[st] = "observe"
        /\ services' = [services EXCEPT ![s].observers = @ \cup {new}]
        /\ UNCHANGED <<registry, updater, notifier, notifyCh, cur, sent>>
        /\ \A r \in Streams : pc'[r] = "register" =>
                pc[r] = "register" /\ at'[r] = at[r] /\ fetched'[r] = fetched[r]
    BY DEF AddObserve, GoTo, etcdVars, updaterVars, notifyVars, TypeOK
  <1>2. /\ s \in Services /\ services[s] \in ServiceObjects
        /\ SpecOf(new).svc = s
    <2>1. s \in Services /\ services[s] # NoService
      BY <1>1, SpecAtType DEF TypeOK
    <2>2. SpecOf(new) = SpecAt(st)
      BY DEF SpecOf, SpecAt
    <2> QED
      BY <2>1, <2>2 DEF TypeOK
  <1> HIDE DEF new, s
  <1>3. services'[s] = [services[s] EXCEPT !.observers = @ \cup {new}]
    BY <1>1, <1>2 DEF TypeOK
  <1>4. /\ services'[s] # NoService
        /\ services'[s].spec = services[s].spec
        /\ services'[s].observers = services[s].observers \cup {new}
        /\ services[s] # NoService
    <2>1. services'[s] = [spec |-> services[s].spec, endpoints |-> services[s].endpoints,
                          observers |-> services[s].observers \cup {new}]
      BY <1>2, <1>3 DEF ServiceObjects
    <2>2. services'[s] # NoService
      <3>1. new \in Observers
        BY <1>1, SpecAtType DEF new
      <3>2. services'[s] \in ServiceObjects
        BY <1>2, <2>1, <3>1 DEF ServiceObjects
      <3> QED
        BY <3>2, NoServiceAssumption
    <2> QED
      BY <1>2, <2>1, <2>2, NoServiceAssumption
  <1>5. \A t \in Services \ {s} : services'[t] = services[t]
    BY <1>1, <1>2 DEF TypeOK
  <1>6. SpecsStay
    BY <1>4, <1>5 DEF SpecsStay
  <1>7. AskedInv'
    <2>1. SpecsKept'
      BY <1>2, <1>4, <1>5 DEF AskedInv, SpecsKept, SpecOf, D!Wanted, Asked
    <2> QED
      BY <1>1, <2>1 DEF AskedInv, NotifiersAsked, ChannelsAsked, HandsAsked, SpecOf,
                        D!ServicesOf, Asked
  <1>8. InHands' = InHands /\ InChannels' = InChannels /\ InNotifiers' = InNotifiers
    BY <1>1 DEF InHands, InChannels, InNotifiers, UpOf
  <1>9. \A u \in Updaters : updater'[u] = updater[u]
    BY <1>1
  <1>10. D!Next
    BY <1>1, <1>6, <1>8, <1>9, Forgets DEF UnderWay
  <1> QED
    BY <1>7, <1>10

LEMMA DirectoryReceive ==
    ASSUME AskedInv, TypeOK, NEW st \in Streams, Receive(st)
    PROVE  AskedInv' /\ D!Next
  <1> DEFINE up == Head(notifyCh[st])
  <1>1. /\ notifyCh[st] # <<>>
        /\ notifyCh' = [notifyCh EXCEPT ![st] = Tail(@)]
        /\ UNCHANGED <<registry, services, updater, notifier, at, fetched, sent>>
        /\ cur' = cur \/ cur' = [cur EXCEPT ![st] = up]
        /\ pc' = pc \/ pc' = [pc EXCEPT ![st] = "send"]
    BY DEF Receive, GoTo, etcdVars, updaterVars, hubVars
  <1>2. up = notifyCh[st][1] /\ 1 \in DOMAIN notifyCh[st]
    BY <1>1, ChannelType, TailIndices
  <1> HIDE DEF up
  <1>3. \A r \in Streams : \A i \in DOMAIN notifyCh'[r] :
            \E j \in DOMAIN notifyCh[r] : notifyCh'[r][i] = notifyCh[r][j]
    <2>1. \A i \in DOMAIN Tail(notifyCh[st]) :
            /\ i + 1 \in DOMAIN notifyCh[st]
            /\ Tail(notifyCh[st])[i] = notifyCh[st][i + 1]
      BY <1>1, ChannelType, TailIndices
    <2>2. /\ notifyCh'[st] = Tail(notifyCh[st])
          /\ \A r \in Streams \ {st} : notifyCh'[r] = notifyCh[r]
      BY <1>1 DEF TypeOK
    <2> QED
      BY <2>1, <2>2
  <1>4. \A r \in Streams : cur'[r] = cur[r] \/ (r = st /\ cur'[r] = up)
    BY <1>1 DEF TypeOK
  <1>5. AskedInv'
    <2>1. ChannelsAsked' /\ HandsAsked'
      BY <1>2, <1>3, <1>4 DEF AskedInv, ChannelsAsked, HandsAsked, D!ServicesOf, Asked
    <2> QED
      BY <1>1, <2>1 DEF AskedInv, SpecsKept, NotifiersAsked, SpecOf, D!Wanted, Asked
  <1>6. InHands' \subseteq InHands \cup InChannels
    <2> SUFFICES ASSUME NEW l \in InHands' PROVE l \in InHands \cup InChannels
      OBVIOUS
    <2>1. PICK r \in Streams : cur'[r] # NoUpdate /\ l = ListOf(cur'[r])
      BY DEF InHands, ListOf
    <2> QED
      BY <1>2, <1>4, <2>1 DEF InHands, InChannels
  <1>7. InChannels' \subseteq InChannels
    <2> SUFFICES ASSUME NEW l \in InChannels' PROVE l \in InChannels
      OBVIOUS
    <2>1. PICK r \in Streams : \E i \in DOMAIN notifyCh'[r] : l = ListOf(notifyCh'[r][i])
      BY DEF InChannels, ListOf
    <2> QED
      BY <1>3, <2>1 DEF InChannels
  <1>8. InNotifiers' = InNotifiers /\ SpecsStay
    BY <1>1 DEF InNotifiers, UpOf, SpecsStay
  <1>9. \A r \in Streams : pc'[r] = "register" => pc[r] = "register"
    BY <1>1 DEF TypeOK
  <1>10. D!Next
    BY <1>1, <1>6, <1>7, <1>8, <1>9, Forgets DEF UnderWay
  <1> QED
    BY <1>5, <1>10

(* An update that reaches the client is the list in the hands of Send with *)
(* an id that IdInv knows to be larger than that of the last one.          *)
LEMMA DirectorySend ==
    ASSUME AskedInv, TypeOK, IdInv, NEW st \in Streams, SendOk(st) \/ SendFail(st)
    PROVE  AskedInv' /\ D!Next
  <1>1. /\ pc[st] = "send"
        /\ cur' = [cur EXCEPT ![st] = NoUpdate]
        /\ pc' = [pc EXCEPT ![st] = "serve"] \/ pc' = [pc EXCEPT ![st] = "remove"]
        /\ UNCHANGED <<registry, services, updater, notifier, notifyCh, at, fetched>>
    BY DEF SendOk, SendFail, GoTo, etcdVars, updaterVars, hubVars, notifyVars
  <1>2. \A r \in Streams : cur'[r] = cur[r] \/ cur'[r] = NoUpdate
    BY <1>1 DEF TypeOK
  <1>3. AskedInv'
    BY <1>1, <1>2 DEF AskedInv, SpecsKept, NotifiersAsked, ChannelsAsked, HandsAsked,
                      SpecOf, D!Wanted, D!ServicesOf, Asked
  <1>4. InHands' \subseteq InHands
    BY <1>2 DEF InHands
  <1>5. InChannels' = InChannels /\ InNotifiers' = InNotifiers /\ SpecsStay
    BY <1>1 DEF InChannels, InNotifiers, UpOf, SpecsStay
  <1>6. \A r \in Streams : pc'[r] = "register" => pc[r] = "register"
    BY <1>1 DEF TypeOK
  <1>7. CASE SendFail(st)
    BY <1>1, <1>3, <1>4, <1>5, <1>6, <1>7, Forgets DEF UnderWay, SendFail
  <1>8. CASE SendOk(st)
    <2> DEFINE up == cur[st]
               l == ListOf(up)
    <2>1. up \in Updates /\ up # NoUpdate /\ up.spec \in Specs
      BY <1>1, IdTypes, NoUpdateIsNone
    <2>2. sent' = [sent EXCEPT ![st][up.spec] = up] /\ UNCHANGED registry
      BY <1>8, <1>1 DEF SendOk
    <2>3. l \in UnderWay
      BY <2>1 DEF UnderWay, InHands
    <2>4. /\ l.spec = up.spec
          /\ up = [id |-> up.id, spec |-> l.spec, insts |-> l.insts, ver |-> l.ver]
      BY <2>1 DEF ListOf, Updates
    <2>5. l.spec.svc \in D!ServicesOf(st)
      BY <2>1, <2>4 DEF AskedInv, HandsAsked
    <2> HIDE DEF up, l
    <2>6. sent'[st][up.spec] = up
      BY <2>1, <2>2 DEF TypeOK
    <2>7. up.id > sent[st][up.spec].id
      <3>1. sent[st][up.spec].id < up.id
        BY <1>1 DEF IdInv, Remembered, up
      <3>2. up.id \in Nat /\ sent[st][up.spec].id \in Nat
        BY <1>1, <2>1, IdTypes DEF up
      <3> QED
        BY <3>1, <3>2
    <2>8. sent' = [sent EXCEPT ![st][l.spec] =
                    [id |-> sent'[st][l.spec].id, spec |-> l.spec, insts |-> l.insts,
                     ver |-> l.ver]]
      BY <2>2, <2>4, <2>6
    <2>9. UnderWay' \subseteq UnderWay
      <3>1. \A u \in Updaters : updater'[u] = updater[u]
        BY <1>1
      <3>2. BeingApplied' \subseteq BeingApplied /\ BeingRegistered' \subseteq BeingRegistered
        BY <1>1, <1>5, <1>6, <3>1, ReadFrame
      <3> QED
        BY <1>4, <1>5, <3>2 DEF UnderWay
    <2>10. D!Deliver(st, l)
      BY <2>2, <2>4, <2>5, <2>6, <2>7, <2>8, <2>9 DEF D!Deliver
    <2> QED
      BY <1>3, <2>3, <2>10 DEF D!Next
  <1> QED
    BY <1>7, <1>8

LEMMA DirectoryRemove ==
    ASSUME AskedInv, TypeOK, NEW st \in Streams, Remove(st)
    PROVE  AskedInv' /\ D!Next
  <1> DEFINE s == SpecAt(st).svc
             gone == Matching(services[s], SpecAt(st), AddrOf[st])
  <1>1. /\ UNCHANGED <<registry, updater, notifier, notifyCh, fetched, cur, sent>>
        /\ s \in Services
        /\ \A r \in Streams : pc'[r] = "register" => pc[r] = "register" /\ at'[r] = at[r]
    <2>1. s \in Services
      BY SpecAtType DEF Remove
    <2> QED
      BY <2>1 DEF Remove, GoTo, etcdVars, updaterVars, notifyVars, TypeOK
  <1>2. \A t \in Services :
            \/ services'[t] = services[t]
            \/ /\ services[t] # NoService
               /\ services'[t] # NoService
               /\ services'[t].spec = services[t].spec
               /\ services'[t].observers \subseteq services[t].observers
    <2>1. CASE services[s] = NoService
      BY <2>1 DEF Remove
    <2>2. CASE services[s] # NoService
      <3>1. services[s] \in ServiceObjects
        BY <1>1, <2>2 DEF TypeOK
      <3>2. services' = [services EXCEPT ![s].observers = @ \ gone]
        BY <2>2 DEF Remove, Remaining
      <3> HIDE DEF s, gone
      <3>3. /\ services'[s] = [services[s] EXCEPT !.observers = @ \ gone]
            /\ \A t \in Services \ {s} : services'[t] = services[t]
        BY <1>1, <3>2 DEF TypeOK
      <3>4. services'[s] = [spec |-> services[s].spec, endpoints |-> services[s].endpoints,
                            observers |-> services[s].observers \ gone]
        BY <3>1, <3>3 DEF ServiceObjects
      <3>5. services'[s] \in ServiceObjects
        BY <3>1, <3>4 DEF ServiceObjects
      <3> QED
        BY <2>2, <3>3, <3>4, <3>5, NoServiceAssumption
    <2> QED
      BY <2>1, <2>2
  <1>3. /\ SpecsStay
        /\ \A t \in Services : services[t] = NoService => services'[t] = NoService
        /\ \A t \in Services : services[t] # NoService =>
                services'[t].observers \subseteq services[t].observers
    BY <1>2 DEF SpecsStay
  <1>4. AskedInv'
    <2>1. SpecsKept'
      BY <1>3, SpecsKeptFrame DEF AskedInv
    <2> QED
      BY <1>1, <2>1 DEF AskedInv, NotifiersAsked, ChannelsAsked, HandsAsked, SpecOf,
                        D!ServicesOf, Asked
  <1>5. InHands' = InHands /\ InChannels' = InChannels /\ InNotifiers' = InNotifiers
    BY <1>1 DEF InHands, InChannels, InNotifiers, UpOf
  <1>6. \A u \in Updaters : updater'[u] = updater[u]
    BY <1>1
  <1>7. D!Next
    BY <1>1, <1>3, <1>5, <1>6, Forgets DEF UnderWay
  <1> QED
    BY <1>4, <1>7

(* The registry changes; nobody has read it yet. *)
LEMMA DirectoryChange ==
    ASSUME AskedInv, TypeOK, NEW s \in Services, NEW i \in Instances,
           SetKey(s, i) \/ DropKey(s, i)
    PROVE  AskedInv' /\ D!Next
  <1>1. PICK insts \in SUBSET Instances : Change(s, insts)
    BY DEF SetKey, DropKey, TypeOK, Contents
  <1>2. /\ registry' = [registry EXCEPT ![s] = [insts |-> insts, ver |-> @.ver + 1]]
        /\ UNCHANGED <<services, updater, notifier, notifyCh, pc, at, fetched, cur, sent>>
    BY <1>1 DEF Change, updaterVars, hubVars, notifyVars, streamVars
  <1>3. AskedInv'
    BY <1>2 DEF AskedInv, SpecsKept, NotifiersAsked, ChannelsAsked, HandsAsked, SpecOf,
                D!Wanted, D!ServicesOf, Asked
  <1>4. UnderWay' = UnderWay
    BY <1>2 DEF UnderWay, BeingApplied, BeingRegistered, InHands, InChannels, InNotifiers,
                UpOf, SpecAt
  <1>5. D!Change(s)
    BY <1>2, <1>4 DEF D!Change
  <1> QED
    BY <1>3, <1>5 DEF D!Next

(* The steps that neither read, move nor deliver a list. *)
LEMMA DirectoryIdle ==
    ASSUME AskedInv, TypeOK,
           UNCHANGED <<registry, services, notifier, notifyCh, cur, sent, at, fetched>>,
           \A u \in Updaters : updater'[u].pc = "apply" => updater'[u] = updater[u],
           \A st \in Streams : pc'[st] = "register" => pc[st] = "register"
    PROVE  AskedInv' /\ D!Next
  <1>1. AskedInv'
    BY DEF AskedInv, SpecsKept, NotifiersAsked, ChannelsAsked, HandsAsked, SpecOf,
           D!Wanted, D!ServicesOf, Asked
  <1>2. /\ InHands' = InHands /\ InChannels' = InChannels /\ InNotifiers' = InNotifiers
        /\ SpecsStay
    BY DEF InHands, InChannels, InNotifiers, UpOf, SpecsStay
  <1>3. D!Next
    BY <1>2, Forgets DEF UnderWay
  <1> QED
    BY <1>1, <1>3

LEMMA DirectoryNext ==
    ASSUME AskedInv, TypeOK, IdInv, [Next]_vars
    PROVE  AskedInv' /\ D!Next
  <1> DEFINE Goal == AskedInv' /\ D!Next
  <1>1. CASE Registry
    BY <1>1, DirectoryChange DEF Registry
  <1>2. CASE LoseEvents \/ WatchNext \/ \E s \in Services : RectifyTick(s)
    <2>1. UNCHANGED <<registry, services, notifier, notifyCh, cur, sent, at, fetched, pc>>
      BY <1>2 DEF LoseEvents, WatchNext, RectifyTick, etcdVars, updaterVars, hubVars,
                  notifyVars, streamVars
    <2>2. \A u \in Updaters : updater'[u].pc = "apply" => updater'[u] = updater[u]
      <3>1. \/ updater' = updater
            \/ \E u \in Updaters : \E s : updater' = [updater EXCEPT ![u] =
                            [pc |-> "lookup", svc |-> s, reg |-> NoContents]]
        BY <1>2 DEF LoseEvents, WatchNext, RectifyTick, Begin, updaterVars, Updaters
      <3> QED
        BY <3>1 DEF TypeOK
    <2> QED
      BY <2>1, <2>2, DirectoryIdle
  <1>3. ASSUME NEW u \in Updaters, UpdaterStep(u) PROVE Goal
    <2>1. CASE Lookup(u) \/ FetchError(u)
      <3>1. UNCHANGED <<registry, services, notifier, notifyCh, cur, sent, at, fetched, pc>>
        BY <2>1 DEF Lookup, FetchError, etcdVars, hubVars, notifyVars, streamVars
      <3>2. \A v \in Updaters : updater'[v].pc = "apply" => updater'[v] = updater[v]
        BY <2>1 DEF Lookup, FetchError, AfterLookup, TypeOK
      <3> QED
        BY <3>1, <3>2, DirectoryIdle
    <2> QED
      BY <1>3, <2>1, DirectoryFetch, DirectoryApply DEF UpdaterStep
  <1>4. ASSUME NEW o \in Observers, NEW k \in Slots, NotifierStep(o, k) PROVE Goal
    BY <1>4, DirectoryNotifier
  <1>5. ASSUME NEW st \in Streams, Resolve(st) \/ AutoDisconnect(st) \/ HandlerStep(st)
        PROVE  Goal
    <2>1. CASE Resolve(st) \/ AutoDisconnect(st) \/ AddFetchError(st)
      <3>1. /\ UNCHANGED <<registry, services, updater, notifier, notifyCh, cur, sent, at,
                           fetched>>
            /\ \/ pc' = [pc EXCEPT ![st] = "failed"]
               \/ pc' = [pc EXCEPT ![st] = "fetch"]
               \/ pc' = [pc EXCEPT ![st] = "remove"]
        BY <2>1 DEF Resolve, AutoDisconnect, AddFetchError, GoTo, etcdVars, updaterVars,
                    hubVars, notifyVars
      <3>2. \A r \in Streams : pc'[r] = "register" => pc[r] = "register"
        BY <3>1 DEF TypeOK
      <3> QED
        BY <3>1, <3>2, DirectoryIdle
    <2> QED
      BY <1>5, <2>1, DirectoryAddFetch, DirectoryAddRegister, DirectoryAddNotify,
         DirectoryAddObserve, DirectoryReceive, DirectorySend, DirectoryRemove
      DEF HandlerStep
  <1>6. CASE Settled \/ UNCHANGED vars
    BY <1>6, DirectoryIdle DEF Settled, vars
  <1> QED
    BY <1>1, <1>2, <1>3, <1>4, <1>5, <1>6 DEF Next

LEMMA DirectoryInit == Init => D!Init
  <1> SUFFICES ASSUME Init PROVE D!Init
    OBVIOUS
  <1>1. \A u \in Updaters : updater[u].pc # "apply"
    BY DEF Init
  <1>2. UnderWay = {}
    BY <1>1 DEF Init, UnderWay, BeingApplied, BeingRegistered, InHands, InChannels,
                InNotifiers
  <1> QED
    BY <1>2 DEF Init, D!Init, D!NothingKnown, NoUpdate, NoContents

(* Whatever a client of the hub is told is a list that was read from the   *)
(* registry for a service it has asked for, and the ids of what it is told *)
(* for a spec grow.                                                        *)
THEOREM HubImplementsDirectory == Spec => ImplementsDirectory
  <1>1. AskedInv /\ TypeOK /\ IdInv /\ [Next]_vars => AskedInv' /\ [D!Next]_(D!vars)
    BY DirectoryNext
  <1> QED
    BY TypeCorrect, IdInit, IdNext, AskedInit, DirectoryInit, <1>1, PTL
    DEF Spec, ImplementsDirectory, D!Spec

(***************************************************************************)
(* The hub within Kubernetes.                                              *)
(***************************************************************************)

(* Within Kubernetes the lists come from elsewhere; what is done with them *)
(* is done by the steps of the hub, so that its invariants hold there too. *)
HubInv == TypeOK /\ IdInv /\ JoinInv /\ AskedInv

MaybeContents == Contents \cup {NoObject}
K8sTypes ==
    /\ objects \subseteq Services
    /\ store \in [Services -> MaybeContents]
    /\ deltas \in [Services -> Seq(MaybeContents)]
    /\ told \in [Services -> Nat]
    /\ excused \subseteq Streams \X Specs

LEMMA K8sTypesInit == K8sInit => K8sTypes
  BY DEF K8sInit, K8sTypes, MaybeContents

(* What the informer is to see is the object, nothing, or what it was to   *)
(* see or has seen already.                                                *)
Seen(s, seen) ==
    /\ SeeAgain(s, seen)
    /\ seen \in Seq(MaybeContents)
    /\ \A i \in DOMAIN seen :
        \/ seen[i] \in {NoObject, registry[s], store[s]}
        \/ \E j \in DOMAIN deltas[s] : seen[i] = deltas[s][j]

LEMMA RelistSees ==
    ASSUME TypeOK, K8sTypes, NEW s \in Services, Relist(s)
    PROVE  \E seen : Seen(s, seen)
  <1> DEFINE what == IF s \in objects THEN registry[s] ELSE NoObject
  <1>1. what \in MaybeContents /\ what \in {NoObject, registry[s], store[s]}
    BY DEF TypeOK, MaybeContents
  <1> HIDE DEF what
  <1>2. PICK n \in 0..Len(deltas[s]) : SeeAgain(s, SubSeq(deltas[s], 1, n) \o <<what>>)
    BY DEF Relist, what
  <1> DEFINE q == SubSeq(deltas[s], 1, n)
             seen == q \o <<what>>
  <1>3. deltas[s] \in Seq(MaybeContents)
    BY DEF K8sTypes
  <1>4. /\ q \in Seq(MaybeContents) /\ Len(q) = n
        /\ \A i \in 1..n : q[i] = deltas[s][i] /\ i \in DOMAIN deltas[s]
    BY <1>2, <1>3
  <1> HIDE DEF q
  <1>5. /\ seen \in Seq(MaybeContents)
        /\ \A i \in DOMAIN seen : (i \in 1..n /\ seen[i] = q[i]) \/ seen[i] = what
    BY <1>1, <1>2, <1>4
  <1>6. SeeAgain(s, seen)
    BY <1>2 DEF q
  <1> HIDE DEF seen
  <1> QED
    BY <1>1, <1>4, <1>5, <1>6 DEF Seen

LEMMA ResyncSees ==
    ASSUME TypeOK, K8sTypes, NEW s \in Services, Resync(s)
    PROVE  \E seen : Seen(s, seen)
  <1> DEFINE seen == <<store[s]>> \o deltas[s]
  <1>1. store[s] \in MaybeContents /\ deltas[s] \in Seq(MaybeContents)
    BY DEF K8sTypes
  <1>2. /\ seen \in Seq(MaybeContents)
        /\ \A i \in DOMAIN seen : seen[i] = store[s] \/ (i - 1 \in DOMAIN deltas[s] /\ seen[i] = deltas[s][i - 1])
    BY <1>1
  <1>3. SeeAgain(s, seen)
    BY DEF Resync
  <1> HIDE DEF seen
  <1> QED
    BY <1>2, <1>3 DEF Seen

(* The steps within Kubernetes that are not steps of the hub. *)
Feeds ==
    \/ \E s \in Services, insts \in SUBSET Instances, exists \in BOOLEAN :
            ObjectChange(s, insts, exists)
    \/ \E s \in Services : (\E seen : Seen(s, seen)) \/ AddOrDelete(s) \/ Update(s)
    \/ ApplyK8sEndpoints
ReadFails == \E st \in Streams : FetchK8sError(st)

LEMMA K8sStep ==
    ASSUME TypeOK, K8sTypes, [K8sNext]_allVars
    PROVE  [Next]_vars \/ Feeds \/ ReadFails
  <1>1. ASSUME NEW s \in Services,
               \/ \E insts \in SUBSET Instances : PutObject(s, insts)
               \/ DeleteObject(s) \/ Relist(s) \/ Resync(s)
        PROVE  Feeds
    <2>1. CASE (\E insts \in SUBSET Instances : PutObject(s, insts)) \/ DeleteObject(s)
      BY <2>1 DEF PutObject, DeleteObject, Feeds
    <2>2. CASE Relist(s) \/ Resync(s)
      BY <2>2, RelistSees, ResyncSees DEF Feeds
    <2> QED
      BY <1>1, <2>1, <2>2
  <1>2. CASE InformerStep
    <2>1. CASE Apply(Watcher) /\ UNCHANGED k8sVars
      BY <2>1 DEF Next, UpdaterStep, Updaters
    <2> QED
      BY <1>2, <2>1 DEF InformerStep, Feeds
  <1>3. ASSUME NEW o \in Observers, NEW k \in Slots, K8sNotifierStep(o, k) PROVE Next
    BY <1>3 DEF K8sNotifierStep, TakeIdLate, NotifierStep, Next
  <1>4. ASSUME NEW st \in Streams, K8sHandlerStep(st) PROVE Next \/ ReadFails
    BY <1>4 DEF K8sHandlerStep, FetchK8s, ObserveLate, HandlerStep, Next, ReadFails
  <1>5. CASE \E st \in Streams : (Resolve(st) \/ AutoDisconnect(st)) /\ UNCHANGED k8sVars
    BY <1>5 DEF Next
  <1>6. CASE K8sSettled \/ UNCHANGED allVars
    BY <1>6 DEF K8sSettled, Next, allVars
  <1> QED
    BY <1>1, <1>2, <1>3, <1>4, <1>5, <1>6 DEF K8sNext

LEMMA FeedsLeave ==
    ASSUME Feeds
    PROVE  UNCHANGED <<hubVars, notifyVars, streamVars>>
  BY DEF Feeds, ObjectChange, Seen, SeeAgain, AddOrDelete, Update, ApplyK8sEndpoints,
         vars, hubVars, notifyVars, streamVars

LEMMA TypeFeeds ==
    ASSUME TypeOK, K8sTypes, Feeds
    PROVE  TypeOK'
  <1> DEFINE U == [pc : {"idle", "lookup", "fetch", "apply"}, svc : Updaters, reg : Contents]
  <1>1. UNCHANGED <<hubVars, notifyVars, streamVars, events>>
    BY FeedsLeave DEF Feeds, ObjectChange, Seen, SeeAgain, AddOrDelete, Update,
       ApplyK8sEndpoints, etcdVars, vars
  <1>2. registry' \in [Services -> Contents]
    <2>1. CASE UNCHANGED registry
      BY <2>1 DEF TypeOK
    <2>2. ASSUME NEW s \in Services, NEW insts \in SUBSET Instances, NEW exists \in BOOLEAN,
                 ObjectChange(s, insts, exists)
          PROVE  registry' \in [Services -> Contents]
      BY <2>2 DEF ObjectChange, TypeOK, Contents
    <2> QED
      BY <2>1, <2>2 DEF Feeds, Seen, SeeAgain, AddOrDelete, Update, ApplyK8sEndpoints,
         etcdVars, vars
  <1>3. ticks' \in [Services -> Nat]
    <2>1. CASE UNCHANGED ticks
      BY <2>1 DEF TypeOK
    <2>2. ASSUME NEW s \in Services, NEW seen, Seen(s, seen)
          PROVE  ticks' \in [Services -> Nat]
      BY <2>2 DEF Seen, SeeAgain, TypeOK
    <2> QED
      BY <2>1, <2>2 DEF Feeds, ObjectChange, AddOrDelete, Update, ApplyK8sEndpoints,
         updaterVars, vars
  <1>4. /\ updater' \in [Updaters -> U]
        /\ \A u \in Updaters : updater'[u].pc # "idle" => updater'[u].svc \in Services
        /\ \A u \in Updaters : updater'[u].pc \in {"fetch", "apply"} =>
                services[updater'[u].svc] # NoService
    <2>1. CASE UNCHANGED updater
      BY <2>1 DEF TypeOK
    <2>2. ASSUME NEW s \in Services, Update(s)
          PROVE  <1>4!1 /\ <1>4!2 /\ <1>4!3
      <3>1. NewObject(s) \in Contents
        BY <2>2 DEF Update, K8sTypes, MaybeContents, NewObject
      <3>2. updater' = [updater EXCEPT ![Watcher] =
                            [pc |-> "lookup", svc |-> s, reg |-> NewObject(s)]]
        BY <2>2 DEF Update
      <3> HIDE DEF NewObject
      <3> QED
        BY <3>1, <3>2 DEF TypeOK, Updaters
    <2>3. CASE ApplyK8sEndpoints
      <3>1. updater' = [updater EXCEPT ![Watcher].pc =
                            AfterK8sLookup(services[updater[Watcher].svc])]
        BY <2>3 DEF ApplyK8sEndpoints
      <3>2. updater[Watcher].svc \in Services
        BY <2>3 DEF ApplyK8sEndpoints, TypeOK, Updaters
      <3>3. updater[Watcher] \in U /\ Watcher \in Updaters
        BY DEF TypeOK, Updaters
      <3>4. /\ AfterK8sLookup(services[updater[Watcher].svc]) \in {"idle", "apply"}
            /\ AfterK8sLookup(services[updater[Watcher].svc]) = "apply" =>
                    services[updater[Watcher].svc] # NoService
        BY DEF AfterK8sLookup
      <3>5. /\ updater' \in [Updaters -> U]
            /\ updater'[Watcher].svc = updater[Watcher].svc
            /\ updater'[Watcher].pc = AfterK8sLookup(services[updater[Watcher].svc])
            /\ \A u \in Updaters \ {Watcher} : updater'[u] = updater[u]
        BY <3>1, <3>3, <3>4 DEF TypeOK
      <3> QED
        BY <3>2, <3>3, <3>4, <3>5 DEF TypeOK
    <2> QED
      BY <2>1, <2>2, <2>3 DEF Feeds, ObjectChange, Seen, SeeAgain, AddOrDelete,
         updaterVars, vars
  <1> QED
    BY <1>1, <1>2, <1>3, <1>4 DEF TypeOK, SpecAt, hubVars, notifyVars, streamVars

(* The steps of the hub, and those that feed it, keep its invariants. *)
LEMMA HubKeeps ==
    ASSUME HubInv, K8sTypes, [K8sNext]_allVars
    PROVE  HubInv'
  <1>1. CASE [Next]_vars
    BY <1>1, TypeNext, IdNext, JoinNext, DirectoryNext DEF HubInv
  <1>2. CASE Feeds
    <2>1. UNCHANGED <<hubVars, notifyVars, streamVars>>
      BY <1>2, FeedsLeave
    <2>2. TypeOK'
      BY <1>2, TypeFeeds DEF HubInv
    <2>3. IdInv'
      <3>1. \A st \in Streams : Waiting(st)' = Waiting(st)
                                /\ \A w \in Waiting(st)' : UpOf(w)' = UpOf(w)
        BY <2>1 DEF Waiting, UpOf, notifyVars
      <3> QED
        BY <2>1, <3>1, IdFrame DEF notifyVars, streamVars, HubInv
    <2>4. JoinInv'
      <3>1. \A o \in Observers : Observed(o)' <=> Observed(o)
        BY <2>1 DEF Observed, SpecOf, hubVars
      <3> QED
        BY <2>1, <3>1, JoinFrame DEF hubVars, streamVars, HubInv
    <2>5. AskedInv'
      BY <2>1 DEF HubInv, AskedInv, SpecsKept, NotifiersAsked, ChannelsAsked, HandsAsked,
         hubVars, notifyVars, streamVars, SpecOf, D!Wanted, D!ServicesOf, Asked
    <2> QED
      BY <2>2, <2>3, <2>4, <2>5 DEF HubInv
  <1>3. ASSUME NEW st \in Streams, FetchK8sError(st) PROVE HubInv'
    <2>1. /\ UNCHANGED <<etcdVars, updaterVars, hubVars, notifyVars, at, fetched, cur,
                         maxIds, sent>>
          /\ pc[st] = "fetch" /\ pc' = [pc EXCEPT ![st] = "failed"]
      BY <1>3 DEF FetchK8sError, GoTo
    <2>2. \A r \in Streams : pc'[r] = pc[r] \/ (r = st /\ pc'[r] = "failed")
      BY <2>1 DEF HubInv, TypeOK
    <2>3. TypeOK'
      BY <2>1 DEF HubInv, TypeOK, SpecAt, etcdVars, updaterVars, hubVars, notifyVars
    <2>4. IdInv'
      <3>1. \A r \in Streams : Waiting(r)' = Waiting(r)
                                /\ \A w \in Waiting(r)' : UpOf(w)' = UpOf(w)
        BY <2>1 DEF Waiting, UpOf, notifyVars
      <3> QED
        BY <2>1, <2>2, <3>1, IdFrame DEF notifyVars, HubInv
    <2>5. JoinInv'
      <3>1. \A o \in Observers : Observed(o)' <=> Observed(o)
        BY <2>1 DEF Observed, SpecOf, hubVars
      <3> QED
        BY <2>1, <2>2, <3>1, JoinFrame DEF hubVars, HubInv
    <2>6. AskedInv'
      BY <2>1 DEF HubInv, AskedInv, SpecsKept, NotifiersAsked, ChannelsAsked, HandsAsked,
         hubVars, notifyVars, SpecOf, D!Wanted, D!ServicesOf, Asked
    <2> QED
      BY <2>3, <2>4, <2>5, <2>6 DEF HubInv
  <1> QED
    BY <1>1, <1>2, <1>3, K8sStep DEF HubInv, ReadFails

-----------------------------------------------------------------------------
(* StaleIsExplained is about the end of a journey: it takes saying where   *)
(* the newest list is while it is under way.                               *)

(* What was read of an object is what it was at that version. *)
ReadOf(s, c) ==
    /\ c.ver <= registry[s].ver
    /\ c.ver = registry[s].ver => c.insts = registry[s].insts

StoreRead(s) ==
    /\ told[s] <= registry[s].ver
    /\ store[s] # NoObject => ReadOf(s, store[s])
    /\ \A i \in DOMAIN deltas[s] : deltas[s][i] # NoObject => ReadOf(s, deltas[s][i])
InformerRead ==
    updater[Watcher].pc \in {"lookup", "apply"} =>
        /\ updater[Watcher].reg.ver = told[updater[Watcher].svc]
        /\ ReadOf(updater[Watcher].svc, updater[Watcher].reg)
HandlerRead(st) ==
    pc[st] \in {"register", "notify", "observe"} =>
        fetched[st].ver <= registry[SpecAt(st).svc].ver
ReadInv ==
    /\ \A s \in Services : StoreRead(s)
    /\ InformerRead
    /\ \A st \in Streams : HandlerRead(st)

(* A notifier works for an observer that has joined, and its update has    *)
(* the spec of the service object; AddObserver's has its own spec.         *)
Carries(o, k) ==
    notifier[o][k] # Idle =>
        /\ Observed(o) \/ o \in stopped
        /\ notifier[o][k].up.spec = services[SpecOf(o).svc].spec
        /\ notifier[o][k].up.ver <= registry[SpecOf(o).svc].ver
CarriedInv ==
    /\ \A o \in Observers, k \in Slots : Carries(o, k)
    /\ \A st \in Streams : pc[st] = "notify" => cur[st].spec = SpecAt(st)

(* The client has the update maxIds remembers, or it is being sent. *)
Got(st, sp) ==
    /\ pc[st] \notin {"remove", "ended"}
    /\ ~(pc[st] = "send" /\ cur[st].spec = sp)
    => sent[st][sp].id = maxIds[st][sp]
GotInv == \A st \in Streams, sp \in Specs : Got(st, sp)

(* The updates on their way to the stream for an observer, and the one the *)
(* stream has had last.                                                    *)
AtNotify(o) == pc[o[1]] = "notify" /\ at[o[1]] = o[2]
OnTheWay(o, up) ==
    \/ \E i \in DOMAIN notifyCh[o[1]] : up = notifyCh[o[1]][i] /\ up.spec = SpecOf(o)
    \/ \E k \in Slots : notifier[o][k].pc = "send" /\ up = notifier[o][k].up
    \/ AtNotify(o) /\ up = cur[o[1]]
LastGot(o) ==
    IF pc[o[1]] = "send" /\ cur[o[1]].spec = SpecOf(o) THEN cur[o[1]] ELSE sent[o[1]][SpecOf(o)]

(* The one that will be last is of version v. *)
WillHave(o, v) ==
    \E up \in Updates :
        /\ up.ver = v
        /\ OnTheWay(o, up) \/ up = LastGot(o)
        /\ up.id >= maxIds[o[1]][SpecOf(o)]
        /\ \A w \in Updates : OnTheWay(o, w) => w.id <= up.id

(* AddObserver is between the update it has made and the append. *)
Joining(o) ==
    /\ AskedOnce(o)
    /\ pc[o[1]] \in {"notify", "observe"}
    /\ at[o[1]] = o[2]
JoiningFor(o) == Joining(o) => WillHave(o, fetched[o[1]].ver)

(* The informer has been told of the object there is, nothing excuses that *)
(* the client has not: the list is on its way, or about to be.             *)
Starting(o) == \E k \in Slots :
    notifier[o][k].pc = "start" /\ notifier[o][k].up.ver = registry[SpecOf(o).svc].ver
Working(o) ==
    updater[Watcher].pc \in {"lookup", "apply"} /\ updater[Watcher].svc = SpecOf(o).svc
Told(o) ==
    /\ AskedOnce(o)
    /\ Observed(o)
    /\ pc[o[1]] \notin {"remove", "ended"}
    /\ services[SpecOf(o).svc].spec = SpecOf(o)
    /\ Select(SpecOf(o), registry[SpecOf(o).svc].insts) # {}
    /\ told[SpecOf(o).svc] = registry[SpecOf(o).svc].ver
    /\ <<o[1], SpecOf(o)>> \notin excused
ToldFor(o) ==
    Told(o) => WillHave(o, registry[SpecOf(o).svc].ver) \/ Starting(o) \/ Working(o)

ClientInv == \A o \in Observers : JoiningFor(o) /\ ToldFor(o)
K8sInv == HubInv /\ K8sTypes /\ ReadInv /\ CarriedInv /\ GotInv /\ ClientInv

LEMMA K8sInvInit == K8sInit => K8sInv
  <1> SUFFICES ASSUME K8sInit PROVE K8sInv
    OBVIOUS
  <1>1. Init
    BY DEF K8sInit
  <1>2. HubInv /\ K8sTypes
    BY <1>1, TypeInit, IdInit, JoinInit, AskedInit, K8sTypesInit DEF HubInv
  <1>3. ReadInv
    BY <1>1, WatcherAssumption DEF K8sInit, Init, ReadInv, StoreRead, InformerRead, HandlerRead,
       Updaters, NoContents
  <1>4. CarriedInv /\ GotInv
    BY <1>1 DEF Init, CarriedInv, Carries, GotInv, Got, NoUpdate
  <1>5. ClientInv
    <2> SUFFICES ASSUME NEW o \in Observers PROVE JoiningFor(o) /\ ToldFor(o)
      BY DEF ClientInv
    <2>1. o[1] \in Streams /\ SpecOf(o) \in Specs /\ SpecOf(o).svc \in Services
      BY ObserverFacts DEF Specs
    <2>2. pc[o[1]] = "idle" /\ ~Observed(o)
      BY <1>1, <2>1 DEF Init, Observed
    <2> QED
      BY <2>2 DEF JoiningFor, Joining, ToldFor, Told
  <1> QED
    BY <1>2, <1>3, <1>4, <1>5 DEF K8sInv

-----------------------------------------------------------------------------
(* What a step leaves to an observer. *)

LEMMA WillHaveKept ==
    ASSUME NEW o \in Observers, NEW v, WillHave(o, v),
           \A w \in Updates : OnTheWay(o, w)' <=> OnTheWay(o, w),
           LastGot(o)' = LastGot(o),
           maxIds'[o[1]][SpecOf(o)] = maxIds[o[1]][SpecOf(o)]
    PROVE  WillHave(o, v)'
  BY DEF WillHave, SpecOf

(* A step elsewhere. *)
Elsewhere(o) ==
    /\ notifyCh'[o[1]] = notifyCh[o[1]]
    /\ \A k \in Slots : \/ notifier'[o][k] = notifier[o][k]
                        \/ notifier[o][k].pc # "send" /\ notifier'[o][k].pc # "send"
    /\ pc'[o[1]] = pc[o[1]]
    /\ at'[o[1]] = at[o[1]]
    /\ cur'[o[1]] = cur[o[1]]
    /\ maxIds'[o[1]] = maxIds[o[1]]
    /\ sent'[o[1]] = sent[o[1]]

LEMMA ElsewhereKeeps ==
    ASSUME NEW o \in Observers, NEW v, WillHave(o, v), Elsewhere(o)
    PROVE  WillHave(o, v)'
  <1>1. \A w : OnTheWay(o, w)' <=> OnTheWay(o, w)
    BY DEF Elsewhere, OnTheWay, AtNotify, SpecOf
  <1>2. LastGot(o)' = LastGot(o)
    BY DEF Elsewhere, LastGot, SpecOf
  <1> QED
    BY <1>1, <1>2, WillHaveKept DEF Elsewhere
LEMMA JoiningKept ==
    ASSUME NEW o \in Observers, JoiningFor(o), Elsewhere(o), fetched'[o[1]] = fetched[o[1]]
    PROVE  JoiningFor(o)'
  <1> SUFFICES ASSUME Joining(o)' PROVE WillHave(o, fetched[o[1]].ver)'
    BY DEF JoiningFor
  <1>1. Joining(o)
    BY DEF Joining, Elsewhere, AskedOnce, SpecOf
  <1>2. PICK v : v = fetched[o[1]].ver
    OBVIOUS
  <1>3. WillHave(o, v)'
    BY <1>1, <1>2, ElsewhereKeeps DEF JoiningFor
  <1> QED
    BY <1>2, <1>3

(* A step that neither tells the client anything nor has it told. *)
LEMMA ToldKept ==
    ASSUME NEW o \in Observers, ToldFor(o),
           Told(o)' => Told(o),
           \A v : WillHave(o, v) => WillHave(o, v)',
           Starting(o) => Starting(o)', Working(o) => Working(o)',
           registry'[SpecOf(o).svc].ver = registry[SpecOf(o).svc].ver
    PROVE  ToldFor(o)'
  <1> SUFFICES ASSUME Told(o)', ~Starting(o)', ~Working(o)'
               PROVE  WillHave(o, registry[SpecOf(o).svc].ver)'
    BY DEF ToldFor
  <1>1. PICK v : v = registry[SpecOf(o).svc].ver
    OBVIOUS
  <1>2. WillHave(o, v)
    BY <1>1 DEF ToldFor
  <1>3. WillHave(o, v)'
    BY <1>2
  <1>4. SpecOf(o)' = SpecOf(o)
    BY DEF SpecOf
  <1> QED
    BY <1>1, <1>3, <1>4

(* Nothing becomes true that makes the client one that is told. *)
LEMMA ToldBefore ==
    ASSUME NEW o \in Observers, Told(o)',
           Observed(o)' => Observed(o) /\ services'[SpecOf(o).svc].spec = services[SpecOf(o).svc].spec,
           pc[o[1]] \in {"remove", "ended"} => pc'[o[1]] \in {"remove", "ended"},
           registry'[SpecOf(o).svc] = registry[SpecOf(o).svc],
           told'[SpecOf(o).svc] = told[SpecOf(o).svc],
           <<o[1], SpecOf(o)>> \in excused => <<o[1], SpecOf(o)>> \in excused'
    PROVE  Told(o)
  <1>1. SpecOf(o)' = SpecOf(o) /\ (AskedOnce(o)' <=> AskedOnce(o))
    BY DEF SpecOf, AskedOnce
  <1>2. Select(SpecOf(o), registry[SpecOf(o).svc].insts)' = Select(SpecOf(o), registry[SpecOf(o).svc].insts)
    BY <1>1 DEF Select
  <1> QED
    BY <1>1, <1>2 DEF Told

-----------------------------------------------------------------------------
(* The informer and the API server. *)

LEMMA ReadStays ==
    ASSUME NEW s \in Services, NEW c, ReadOf(s, c), c.ver \in Nat, registry[s].ver \in Nat,
           registry'[s] = registry[s] \/ registry'[s].ver = registry[s].ver + 1
    PROVE  ReadOf(s, c)'
  BY DEF ReadOf

LEMMA FeedsRead ==
    ASSUME K8sInv, Feeds
    PROVE  ReadInv' /\ K8sTypes'
  <1>1. /\ TypeOK /\ K8sTypes /\ ReadInv
        /\ UNCHANGED streamVars
        /\ Watcher \in Updaters
    BY FeedsLeave DEF K8sInv, HubInv, Updaters
  <1>2. \A s \in Services : /\ registry[s] \in Contents /\ registry[s].ver \in Nat
                            /\ store[s] \in MaybeContents
                            /\ deltas[s] \in Seq(MaybeContents)
                            /\ told[s] \in Nat
    BY <1>1 DEF TypeOK, Contents, K8sTypes
  <1>3. \A c \in MaybeContents : c # NoObject => c \in Contents /\ c.ver \in Nat
    BY DEF MaybeContents, Contents
  <1>4. ASSUME NEW st \in Streams, pc[st] \in {"register", "notify", "observe"}
        PROVE  SpecAt(st)' = SpecAt(st) /\ SpecAt(st).svc \in Services /\ fetched[st].ver \in Nat
    BY <1>1, <1>4, SpecAtType DEF SpecAt, streamVars, TypeOK, Contents
  <1>5. ASSUME UNCHANGED registry PROVE \A st \in Streams : HandlerRead(st)'
    BY <1>1, <1>4, <1>5 DEF HandlerRead, streamVars, ReadInv
  <1>6. ASSUME NEW s \in Services, NEW insts \in SUBSET Instances, NEW exists \in BOOLEAN,
               ObjectChange(s, insts, exists)
        PROVE  ReadInv' /\ K8sTypes'
    <2> DEFINE new == [insts |-> insts, ver |-> registry[s].ver + 1]
               what == IF exists THEN new ELSE NoObject
    <2>1. /\ registry'[s] = new
          /\ \A t \in Services \ {s} : registry'[t] = registry[t] /\ deltas'[t] = deltas[t]
          /\ deltas'[s] = Append(deltas[s], what)
          /\ deltas' = [deltas EXCEPT ![s] = Append(@, what)]
          /\ objects' = (IF exists THEN objects \cup {s} ELSE objects \ {s})
          /\ UNCHANGED <<updater, store, told, excused>>
      BY <1>1, <1>6 DEF ObjectChange, TypeOK, K8sTypes, updaterVars, historyVars
    <2>2. new \in Contents /\ what \in MaybeContents
      BY <1>2 DEF Contents, MaybeContents
    <2>3. new.ver = registry[s].ver + 1
      OBVIOUS
    <2> HIDE DEF new
    <2>4. K8sTypes'
      BY <1>1, <1>2, <2>1, <2>2 DEF K8sTypes
    <2>5. \A t \in Services, c \in MaybeContents : c # NoObject /\ ReadOf(t, c) => ReadOf(t, c)'
      BY <1>2, <1>3, <2>1, <2>3, ReadStays
    <2>6. ASSUME NEW t \in Services PROVE StoreRead(t)'
      <3>1. StoreRead(t)
        BY <1>1 DEF ReadInv
      <3>2. told'[t] <= registry'[t].ver
        BY <1>2, <2>1, <2>3, <3>1 DEF StoreRead
      <3>3. store'[t] # NoObject => ReadOf(t, store[t])'
        BY <1>2, <2>1, <2>5, <3>1 DEF StoreRead
      <3>4. ASSUME NEW i \in DOMAIN deltas'[t], deltas'[t][i] # NoObject
            PROVE  ReadOf(t, deltas[t][i])'
        <4>1. CASE i \in DOMAIN deltas[t] /\ deltas'[t][i] = deltas[t][i]
          <5>1. PICK c \in MaybeContents : c = deltas[t][i]
            BY <1>2, <4>1
          <5> QED
            BY <2>5, <3>1, <3>4, <4>1, <5>1 DEF StoreRead, ReadOf
        <4>2. CASE t = s /\ deltas'[t][i] = what
          <5>1. deltas'[t][i] = registry'[t]
            BY <2>1, <3>4, <4>2
          <5>2. registry'[t].ver \in Nat
            BY <1>2, <2>1, <2>3, <4>2
          <5> QED
            BY <5>1, <5>2 DEF ReadOf
        <4>3. \/ i \in DOMAIN deltas[t] /\ deltas'[t][i] = deltas[t][i]
              \/ t = s /\ deltas'[t][i] = what
          <5> HIDE DEF what
          <5> QED
            BY <1>2, <2>1, <2>2, <3>4, AppendIndices
        <4> QED
          BY <4>1, <4>2, <4>3
      <3> QED
        BY <2>1, <3>2, <3>3, <3>4 DEF StoreRead
    <2>7. InformerRead'
      <3>1. updater[Watcher].pc \in {"lookup", "apply"} =>
                updater[Watcher].svc \in Services /\ updater[Watcher].reg \in Contents
        BY <1>1 DEF TypeOK
      <3>2. CASE updater[Watcher].pc \in {"lookup", "apply"}
        <4>1. PICK t \in Services, c \in Contents :
                    t = updater[Watcher].svc /\ c = updater[Watcher].reg
          BY <3>1, <3>2
        <4>2. ReadOf(t, c) /\ c \in MaybeContents /\ c # NoObject /\ c.ver = told[t]
          BY <1>1, <3>2, <4>1, NoObjectAssumption DEF ReadInv, InformerRead, MaybeContents
        <4>3. ReadOf(t, c)'
          BY <2>5, <4>2
        <4> QED
          BY <2>1, <3>2, <4>1, <4>2, <4>3 DEF InformerRead, ReadOf
      <3>3. CASE updater[Watcher].pc \notin {"lookup", "apply"}
        BY <2>1, <3>3 DEF InformerRead
      <3> QED
        BY <3>2, <3>3
    <2>8. ASSUME NEW st \in Streams PROVE HandlerRead(st)'
      BY <1>1, <1>2, <1>4, <2>1, <2>3 DEF HandlerRead, streamVars, ReadInv
    <2> QED
      BY <2>4, <2>6, <2>7, <2>8 DEF ReadInv
  <1>7. ASSUME NEW s \in Services, NEW seen, Seen(s, seen)
        PROVE  ReadInv' /\ K8sTypes'
    <2>1. /\ deltas'[s] = seen /\ seen \in Seq(MaybeContents)
          /\ \A t \in Services \ {s} : deltas'[t] = deltas[t]
          /\ deltas' = [deltas EXCEPT ![s] = seen]
          /\ UNCHANGED <<registry, updater, objects, store, told, excused>>
      BY <1>1, <1>7 DEF Seen, SeeAgain, K8sTypes, etcdVars, historyVars
    <2>2. K8sTypes'
      BY <1>1, <2>1 DEF K8sTypes
    <2>3. StoreRead(s)'
      BY <1>1, <1>2, <1>7, <2>1 DEF StoreRead, ReadInv, ReadOf, Seen
    <2>4. \A t \in Services \ {s} : StoreRead(t)'
      BY <1>1, <2>1 DEF StoreRead, ReadInv, ReadOf
    <2>5. InformerRead'
      BY <1>1, <2>1 DEF InformerRead, ReadInv, ReadOf
    <2> QED
      BY <1>5, <2>1, <2>2, <2>3, <2>4, <2>5 DEF ReadInv
  <1>8. ASSUME NEW s \in Services, AddOrDelete(s) \/ Update(s)
        PROVE  ReadInv' /\ K8sTypes'
    <2> DEFINE c == Head(deltas[s])
    <2>1. /\ deltas[s] # <<>>
          /\ store'[s] = c /\ deltas'[s] = Tail(deltas[s])
          /\ \A t \in Services \ {s} : deltas'[t] = deltas[t] /\ store'[t] = store[t]
          /\ deltas' = [deltas EXCEPT ![s] = Tail(@)]
          /\ store' = [store EXCEPT ![s] = c]
          /\ UNCHANGED <<registry, objects, excused>>
      BY <1>1, <1>8 DEF AddOrDelete, Update, K8sTypes, etcdVars, vars, historyVars
    <2>2. /\ 1 \in DOMAIN deltas[s] /\ c = deltas[s][1] /\ c \in MaybeContents
          /\ Tail(deltas[s]) \in Seq(MaybeContents)
          /\ \A i \in DOMAIN Tail(deltas[s]) :
                i + 1 \in DOMAIN deltas[s] /\ Tail(deltas[s])[i] = deltas[s][i + 1]
      BY <1>2, <2>1, TailIndices
    <2> HIDE DEF c
    <2>3. \/ UNCHANGED <<updater, told>>
          \/ /\ c # NoObject
             /\ updater'[Watcher] = [pc |-> "lookup", svc |-> s, reg |-> c]
             /\ told' = [told EXCEPT ![s] = c.ver]
      BY <1>1, <1>8 DEF AddOrDelete, Update, NewObject, c, vars, historyVars, TypeOK
    <2>4. told' \in [Services -> Nat]
      BY <1>1, <1>3, <2>2, <2>3 DEF K8sTypes
    <2>5. K8sTypes'
      BY <1>1, <2>1, <2>2, <2>4 DEF K8sTypes
    <2>6. c # NoObject => ReadOf(s, c)
      BY <1>1, <2>2 DEF ReadInv, StoreRead
    <2>7. ASSUME NEW t \in Services PROVE StoreRead(t)'
      <3>1. StoreRead(t)
        BY <1>1 DEF ReadInv
      <3>2. told'[t] <= registry'[t].ver
        BY <1>1, <2>1, <2>3, <2>6, <3>1 DEF StoreRead, ReadOf, K8sTypes
      <3>3. store'[t] # NoObject => ReadOf(t, store[t])'
        BY <2>1, <2>6, <3>1 DEF StoreRead, ReadOf
      <3>4. \A i \in DOMAIN deltas'[t] : deltas'[t][i] # NoObject => ReadOf(t, deltas[t][i])'
        BY <2>1, <2>2, <3>1 DEF StoreRead, ReadOf
      <3> QED
        BY <3>2, <3>3, <3>4 DEF StoreRead
    <2>8. InformerRead'
      BY <1>1, <2>1, <2>3, <2>6 DEF InformerRead, ReadInv, ReadOf, K8sTypes
    <2> QED
      BY <1>5, <2>1, <2>5, <2>7, <2>8 DEF ReadInv
  <1>9. CASE ApplyK8sEndpoints
    <2>1. /\ UNCHANGED <<registry, objects, store, deltas, told, excused>>
          /\ updater[Watcher].pc = "lookup"
          /\ updater'[Watcher].svc = updater[Watcher].svc
          /\ updater'[Watcher].reg = updater[Watcher].reg
      BY <1>1, <1>9 DEF ApplyK8sEndpoints, TypeOK, etcdVars, k8sVars
    <2>2. K8sTypes' /\ \A s \in Services : StoreRead(s)'
      BY <1>1, <2>1 DEF K8sTypes, StoreRead, ReadInv, ReadOf
    <2>3. InformerRead'
      BY <1>1, <2>1 DEF InformerRead, ReadInv, ReadOf
    <2> QED
      BY <1>5, <2>1, <2>2, <2>3 DEF ReadInv
  <1> QED
    BY <1>6, <1>7, <1>8, <1>9 DEF Feeds
LEMMA FeedsCarry ==
    ASSUME K8sInv, Feeds
    PROVE  CarriedInv' /\ GotInv'
  <1>1. UNCHANGED <<hubVars, notifyVars, streamVars>> /\ TypeOK
    BY FeedsLeave DEF K8sInv, HubInv
  <1>2. \A s \in Services : /\ registry[s].ver \in Nat
                            /\ registry'[s].ver \in Nat
                            /\ registry[s].ver <= registry'[s].ver
    <2>1. CASE UNCHANGED registry
      BY <1>1, <2>1 DEF TypeOK, Contents
    <2>2. ASSUME NEW s \in Services, NEW insts \in SUBSET Instances, NEW exists \in BOOLEAN,
                 ObjectChange(s, insts, exists)
          PROVE  <1>2
      BY <1>1, <2>2 DEF ObjectChange, TypeOK, Contents
    <2> QED
      BY <2>1, <2>2 DEF Feeds, Seen, SeeAgain, AddOrDelete, Update, ApplyK8sEndpoints,
         etcdVars, vars
  <1>3. ASSUME NEW o \in Observers, NEW k \in Slots PROVE Carries(o, k)'
    <2>1. Carries(o, k) /\ SpecOf(o)' = SpecOf(o) /\ SpecOf(o).svc \in Services
      BY ObserverFacts DEF K8sInv, CarriedInv, SpecOf, Specs
    <2>2. notifier[o][k] # Idle => notifier[o][k].up.ver \in Nat
      BY <1>1 DEF TypeOK, Updates
    <2> QED
      BY <1>1, <1>2, <2>1, <2>2 DEF Carries, Observed, hubVars, notifyVars
  <1> QED
    BY <1>1, <1>3 DEF K8sInv, CarriedInv, GotInv, Got, SpecAt, streamVars

LEMMA FeedsClients ==
    ASSUME K8sInv, Feeds
    PROVE  ClientInv'
  <1> SUFFICES ASSUME NEW o \in Observers PROVE JoiningFor(o)' /\ ToldFor(o)'
    BY DEF ClientInv
  <1> DEFINE s == SpecOf(o).svc
  <1>1. /\ UNCHANGED <<hubVars, notifyVars, streamVars>>
        /\ TypeOK /\ K8sTypes /\ Watcher \in Updaters
        /\ JoiningFor(o) /\ ToldFor(o)
        /\ s \in Services /\ SpecOf(o)' = SpecOf(o)
        /\ StoreRead(s)
    BY FeedsLeave, ObserverFacts DEF K8sInv, HubInv, Updaters, ClientInv, ReadInv, SpecOf, Specs
  <1>2. Elsewhere(o)
    BY <1>1 DEF Elsewhere, notifyVars, streamVars
  <1>3. JoiningFor(o)'
    BY <1>1, <1>2, JoiningKept DEF streamVars
  <1>4. \A v : WillHave(o, v) => WillHave(o, v)'
    BY <1>2, ElsewhereKeeps
  <1>5. /\ Observed(o)' <=> Observed(o)
        /\ services' = services /\ notifier' = notifier /\ pc' = pc
    BY <1>1 DEF Observed, hubVars, notifyVars, streamVars
  <1>6. ASSUME registry'[s] = registry[s], told'[s] = told[s], UNCHANGED excused,
               Told(o)' /\ Working(o) => Working(o)'
        PROVE  ToldFor(o)'
    <2>1. Told(o)' => Told(o)
      BY <1>5, <1>6, ToldBefore
    <2>2. Starting(o) => Starting(o)'
      BY <1>1, <1>5, <1>6 DEF Starting
    <2> QED
      BY <1>1, <1>4, <1>6, <2>1, <2>2, ToldKept DEF ToldFor
  <1>7. ASSUME NEW t \in Services, NEW insts \in SUBSET Instances, NEW exists \in BOOLEAN,
               ObjectChange(t, insts, exists)
        PROVE  ToldFor(o)'
    <2>1. /\ registry'[t].ver = registry[t].ver + 1
          /\ \A r \in Services \ {t} : registry'[r] = registry[r]
          /\ UNCHANGED <<updater, told, excused>>
      BY <1>1, <1>7 DEF ObjectChange, TypeOK, updaterVars, historyVars
    <2>2. CASE t = s
      <3>1. told'[s] # registry'[s].ver
        BY <1>1, <2>1, <2>2 DEF StoreRead, K8sTypes, TypeOK, Contents
      <3> QED
        BY <1>1, <3>1 DEF ToldFor, Told
    <2>3. CASE t # s
      <3>1. Working(o) => Working(o)'
        BY <1>1, <2>1 DEF Working
      <3> QED
        BY <1>1, <1>6, <2>1, <2>3, <3>1
    <2> QED
      BY <2>2, <2>3
  <1>8. ASSUME NEW t \in Services, (\E seen : Seen(t, seen)) \/ AddOrDelete(t)
        PROVE  ToldFor(o)'
    <2>1. UNCHANGED <<registry, updater, told, excused>>
      BY <1>8 DEF Seen, SeeAgain, AddOrDelete, etcdVars, vars, historyVars
    <2>2. Working(o) => Working(o)'
      BY <1>1, <2>1 DEF Working
    <2> QED
      BY <1>6, <2>1, <2>2
  <1>9. ASSUME NEW t \in Services, Update(t) PROVE ToldFor(o)'
    <2>1. /\ updater[Watcher].pc = "idle"
          /\ updater'[Watcher].pc = "lookup" /\ updater'[Watcher].svc = t
          /\ \A r \in Services \ {t} : told'[r] = told[r]
          /\ UNCHANGED <<registry, excused>>
      BY <1>1, <1>9 DEF Update, TypeOK, K8sTypes, etcdVars
    <2>2. CASE t = s
      BY <1>1, <2>1, <2>2 DEF ToldFor, Working
    <2>3. CASE t # s
      BY <1>1, <1>6, <2>1, <2>3 DEF Working
    <2> QED
      BY <2>2, <2>3
  <1>10. CASE ApplyK8sEndpoints
    <2>1. /\ updater'[Watcher].pc = AfterK8sLookup(services[updater[Watcher].svc])
          /\ updater[Watcher].pc = "lookup"
          /\ updater'[Watcher].svc = updater[Watcher].svc
          /\ UNCHANGED <<registry, told, excused>>
      BY <1>1, <1>10 DEF ApplyK8sEndpoints, TypeOK, etcdVars, k8sVars
    <2>2. Told(o)' /\ Working(o) => Working(o)'
      <3> SUFFICES ASSUME Told(o)', Working(o) PROVE Working(o)'
        OBVIOUS
      <3>1. services[s] # NoService
        BY <1>1, <1>5 DEF Told, Observed
      <3> QED
        BY <1>1, <2>1, <3>1 DEF Working, AfterK8sLookup
    <2> QED
      BY <1>3, <1>6, <2>1, <2>2
  <1> QED
    BY <1>3, <1>7, <1>8, <1>9, <1>10 DEF Feeds
-----------------------------------------------------------------------------
(* What the steps of the hub have in common. *)

K8sVarsStay == UNCHANGED <<registry, objects, store, deltas, told>>

LEMMA HubStepsRead ==
    ASSUME K8sInv, K8sVarsStay,
           updater' = updater \/ updater'[Watcher].pc = "idle",
           \A st \in Streams : pc'[st] \in {"register", "notify", "observe"} =>
                /\ at'[st] = at[st]
                /\ \/ /\ pc[st] \in {"register", "notify", "observe"}
                      /\ fetched'[st] = fetched[st]
                   \/ /\ pc[st] = "fetch"
                      /\ fetched'[st] = registry[SpecAt(st).svc]
    PROVE  ReadInv'
  <1>1. \A s \in Services : StoreRead(s)'
    BY DEF K8sInv, ReadInv, StoreRead, ReadOf, K8sVarsStay
  <1>2. InformerRead'
    BY DEF K8sInv, ReadInv, InformerRead, ReadOf, K8sVarsStay
  <1>3. ASSUME NEW st \in Streams, pc'[st] \in {"register", "notify", "observe"}
        PROVE  fetched'[st].ver <= registry'[SpecAt(st)'.svc].ver
    <2>1. SpecAt(st)' = SpecAt(st)
      BY <1>3 DEF SpecAt
    <2>2. SpecAt(st).svc \in Services
      BY <1>3, SpecAtType DEF K8sInv, HubInv
    <2>3. registry[SpecAt(st).svc].ver \in Nat
      BY <2>2 DEF K8sInv, HubInv, TypeOK, Contents
    <2> QED
      BY <1>3, <2>1, <2>3 DEF K8sInv, ReadInv, HandlerRead, K8sVarsStay
  <1> QED
    BY <1>1, <1>2, <1>3 DEF ReadInv, HandlerRead

LEMMA ExcusedType ==
    ASSUME K8sInv, K8sVarsStay,
           \/ UNCHANGED excused
           \/ \E st \in Streams, spec \in Specs : \E passed : Excuse(st, spec, passed)
    PROVE  K8sTypes'
  BY DEF K8sInv, K8sTypes, K8sVarsStay, Excuse

(* The service objects and the observers a step leaves. *)
ObserversStay ==
    /\ \A s \in Services : services[s] # NoService =>
            services'[s] # NoService /\ services'[s].spec = services[s].spec
    /\ \A o \in Observers : Observed(o) \/ o \in stopped => Observed(o)' \/ o \in stopped'

LEMMA NotifierJoined ==
    ASSUME K8sInv, NEW o \in Observers, Observed(o) \/ o \in stopped
    PROVE  /\ services[SpecOf(o).svc] # NoService
           /\ pc[o[1]] \in {"notify", "observe"} => at[o[1]] # o[2]
           /\ pc[o[1]] # "idle"
  <1>1. Joins(o) /\ Leaves(o)
    BY DEF K8sInv, HubInv, JoinInv
  <1>2. at[o[1]] \in Nat
    BY ObserverFacts DEF K8sInv, HubInv, TypeOK
  <1> QED
    BY <1>1, <1>2 DEF Joins, Leaves, HasJoined, Observed

LEMMA CarriesStays ==
    ASSUME K8sInv, K8sVarsStay, ObserversStay, NEW o \in Observers, NEW k \in Slots,
           \/ notifier'[o][k] = notifier[o][k]
           \/ notifier'[o][k] = Idle
           \/ /\ notifier[o][k] # Idle
              /\ notifier'[o][k].up.spec = notifier[o][k].up.spec
              /\ notifier'[o][k].up.ver = notifier[o][k].up.ver
    PROVE  Carries(o, k)'
  <1>1. SpecOf(o)' = SpecOf(o) /\ SpecOf(o).svc \in Services
    BY ObserverFacts DEF SpecOf, Specs
  <1>2. Carries(o, k)
    BY DEF K8sInv, CarriedInv
  <1>3. CASE notifier[o][k] = Idle
    BY <1>3 DEF Carries
  <1>4. CASE notifier[o][k] # Idle
    <2>1. services[SpecOf(o).svc] # NoService
      BY <1>2, <1>4, NotifierJoined DEF Carries
    <2> QED
      BY <1>1, <1>2, <1>4, <2>1 DEF Carries, ObserversStay, K8sVarsStay
  <1> QED
    BY <1>3, <1>4

(* A client whose stream the step is not about. *)
LEMMA OtherClient ==
    ASSUME K8sInv, K8sVarsStay, ObserversStay, NEW o \in Observers, Elsewhere(o),
           fetched'[o[1]] = fetched[o[1]],
           Observed(o)' => Observed(o),
           <<o[1], SpecOf(o)>> \in excused => <<o[1], SpecOf(o)>> \in excused',
           Starting(o) => Starting(o)', Told(o)' /\ Working(o) => Working(o)' \/ Starting(o)'
    PROVE  JoiningFor(o)' /\ ToldFor(o)'
  <1>1. JoiningFor(o) /\ ToldFor(o) /\ SpecOf(o).svc \in Services /\ SpecOf(o)' = SpecOf(o)
    BY ObserverFacts DEF K8sInv, ClientInv, SpecOf, Specs
  <1>2. Told(o)' => Told(o)
    <2>1. Observed(o)' => services'[SpecOf(o).svc].spec = services[SpecOf(o).svc].spec
      BY <1>1 DEF Observed, ObserversStay
    <2>2. pc'[o[1]] = pc[o[1]] /\ UNCHANGED <<registry, told>>
      BY DEF Elsewhere, K8sVarsStay
    <2> QED
      BY <2>1, <2>2, ToldBefore
  <1>3. \A v : WillHave(o, v) => WillHave(o, v)'
    BY ElsewhereKeeps
  <1>4. registry'[SpecOf(o).svc].ver = registry[SpecOf(o).svc].ver
    BY DEF K8sVarsStay
  <1>5. ToldFor(o)'
    <2>1. CASE Told(o)' /\ Working(o) /\ ~Working(o)'
      BY <2>1 DEF ToldFor
    <2>2. CASE ~(Told(o)' /\ Working(o) /\ ~Working(o)')
      <3>1. CASE ~Told(o)'
        BY <3>1 DEF ToldFor
      <3>2. CASE Told(o)'
        BY <1>1, <1>2, <1>3, <1>4, <2>2, <3>2, ToldKept
      <3> QED
        BY <3>1, <3>2
    <2> QED
      BY <2>1, <2>2
  <1> QED
    BY <1>1, <1>5, JoiningKept
-----------------------------------------------------------------------------
(* applyEndpoints. *)

(* Every observer gets a goroutine for a list that is not empty. *)
LEMMA AppliedStarts ==
    ASSUME TypeOK, NEW u \in Updaters, Apply(u), NEW o \in Observers,
           o \in services[updater[u].svc].observers,
           Select(services[updater[u].svc].spec, updater[u].reg.insts) # {}
    PROVE  \E k \in Slots : /\ notifier'[o][k].pc = "start"
                            /\ notifier'[o][k].up.ver = updater[u].reg.ver
  <1> DEFINE so == services[updater[u].svc]
             eps == Select(so.spec, updater[u].reg.insts)
             up == [id |-> 0, spec |-> so.spec, insts |-> eps, ver |-> updater[u].reg.ver]
  <1>1. notifier'[o] = [notifier[o] EXCEPT ![FreeSlot(o)] = [pc |-> "start", up |-> up]]
    BY DEF Apply, Spawn
  <1>2. FreeSlot(o) \in Slots
    BY DEF Apply, FreeSlot
  <1>3. notifier[o] \in [Slots -> {Idle} \cup [pc : {"start", "send"}, up : Updates]]
    BY DEF TypeOK
  <1>4. up.ver = updater[u].reg.ver
    OBVIOUS
  <1> HIDE DEF up
  <1>5. notifier'[o][FreeSlot(o)] = [pc |-> "start", up |-> up]
    BY <1>1, <1>2, <1>3
  <1> QED
    BY <1>2, <1>4, <1>5

LEMMA K8sApply ==
    ASSUME K8sInv, Apply(Watcher), UNCHANGED k8sVars
    PROVE  K8sTypes' /\ ReadInv' /\ CarriedInv' /\ GotInv' /\ ClientInv'
  <1> DEFINE t == updater[Watcher].svc
             reg == updater[Watcher].reg
  <1>1. /\ TypeOK /\ K8sTypes /\ Watcher \in Updaters
        /\ K8sVarsStay /\ UNCHANGED <<stopped, excused, notifyCh, streamVars>>
        /\ updater[Watcher].pc = "apply" /\ updater'[Watcher].pc = "idle"
        /\ reg.ver = told[t] /\ ReadOf(t, reg)
        /\ AskedInv
    BY DEF K8sInv, HubInv, Updaters, Apply, k8sVars, K8sVarsStay, etcdVars, TypeOK, ReadInv,
       InformerRead
  <1>2. /\ t \in Services /\ services[t] \in ServiceObjects
        /\ services[t] # NoService /\ services'[t] # NoService
        /\ services'[t].spec = services[t].spec
        /\ services'[t].observers = services[t].observers
        /\ \A s \in Services \ {t} : services'[s] = services[s]
    BY <1>1, ApplyFacts, NoServiceAssumption
  <1>3. K8sTypes' /\ ReadInv'
    BY <1>1, ExcusedType, HubStepsRead DEF streamVars
  <1>4. \A o \in Observers : Observed(o)' <=> Observed(o)
    BY <1>2, ObserverFacts DEF Observed, SpecOf, Specs
  <1>5. ObserversStay
    BY <1>1, <1>2, <1>4 DEF ObserversStay
  <1>6. ASSUME NEW o \in Observers, NEW k \in Slots
        PROVE  \/ notifier'[o][k] = notifier[o][k]
               \/ /\ notifier[o][k] = Idle
                  /\ notifier'[o][k].pc = "start"
                  /\ o \in services[t].observers
                  /\ notifier'[o][k].up.spec = services[t].spec
                  /\ notifier'[o][k].up.ver = reg.ver
    BY <1>1, SpawnFacts, SpawnedUpdate DEF ListOf, Listing
  <1>7. ASSUME NEW o \in Observers, NEW k \in Slots PROVE Carries(o, k)'
    <2>1. CASE notifier'[o][k] = notifier[o][k]
      BY <1>1, <1>5, <2>1, CarriesStays
    <2>2. CASE notifier'[o][k] # notifier[o][k]
      <3>1. SpecOf(o)' = SpecOf(o) /\ SpecOf(o).svc = t
        BY <1>1, <1>2, <1>6, <2>2 DEF AskedInv, SpecsKept, SpecOf
      <3>2. Observed(o)'
        BY <1>2, <1>4, <1>6, <2>2, <3>1 DEF Observed
      <3> QED
        BY <1>1, <1>2, <1>6, <2>2, <3>1, <3>2 DEF Carries, ReadOf, K8sVarsStay
    <2> QED
      BY <2>1, <2>2
  <1>8. CarriedInv' /\ GotInv'
    BY <1>1, <1>7 DEF K8sInv, CarriedInv, GotInv, Got, SpecAt, streamVars
  <1>9. ASSUME NEW o \in Observers PROVE JoiningFor(o)' /\ ToldFor(o)'
    <2>1. SpecOf(o)' = SpecOf(o) /\ SpecOf(o).svc \in Services
      BY ObserverFacts DEF SpecOf, Specs
    <2>2. Elsewhere(o)
      BY <1>1, <1>6 DEF Elsewhere, Idle, streamVars
    <2>3. Starting(o) => Starting(o)'
      BY <1>1, <1>6, <2>1 DEF Starting, Idle, K8sVarsStay
    <2>4. Told(o)' /\ Working(o) => Starting(o)'
      <3> SUFFICES ASSUME Told(o)', Working(o) PROVE Starting(o)'
        OBVIOUS
      <3>1. SpecOf(o).svc = t
        BY DEF Working
      <3>2. /\ o \in services[t].observers
            /\ services[t].spec = SpecOf(o)
            /\ Select(SpecOf(o), registry[t].insts) # {}
            /\ told[t] = registry[t].ver
        BY <1>1, <1>2, <2>1, <3>1 DEF Told, Observed, K8sVarsStay, Select
      <3>3. reg.insts = registry[t].insts /\ reg.ver = registry[t].ver
        BY <1>1, <3>2 DEF ReadOf
      <3>4. \E k \in Slots : notifier'[o][k].pc = "start" /\ notifier'[o][k].up.ver = reg.ver
        BY <1>1, <3>2, <3>3, AppliedStarts
      <3> QED
        BY <1>1, <2>1, <3>1, <3>3, <3>4 DEF Starting, K8sVarsStay
    <2> QED
      BY <1>1, <1>4, <1>5, <2>2, <2>3, <2>4, OtherClient DEF streamVars
  <1> QED
    BY <1>3, <1>8, <1>9 DEF ClientInv
-----------------------------------------------------------------------------
(* The notifiers. *)

LEMMA OnTheWayIds ==
    ASSUME HubInv, NEW o \in Observers, NEW w, OnTheWay(o, w)
    PROVE  w \in Updates /\ w.id \in Nat /\ w.id <= nextUpdateId
  <1>1. TypeOK /\ o[1] \in Streams /\ Bounded(o[1])
    BY ObserverFacts DEF HubInv, IdInv
  <1>2. ASSUME NEW i \in DOMAIN notifyCh[o[1]], w = notifyCh[o[1]][i]
        PROVE  w \in Updates /\ w.id <= nextUpdateId
    BY <1>1, <1>2, ChannelType DEF Bounded
  <1>3. ASSUME NEW k \in Slots, notifier[o][k].pc = "send", w = notifier[o][k].up
        PROVE  w \in Updates /\ w.id <= nextUpdateId
    <2>1. <<o, k>> \in Waiting(o[1]) /\ UpOf(<<o, k>>) = w
      BY <1>3 DEF Waiting, UpOf
    <2> QED
      BY <1>1, <2>1, WaitingType DEF Bounded
  <1>4. CASE AtNotify(o) /\ w = cur[o[1]]
    BY <1>1, <1>4, IdTypes DEF AtNotify, Bounded
  <1>5. w \in Updates /\ w.id <= nextUpdateId
    BY <1>2, <1>3, <1>4 DEF OnTheWay
  <1> QED
    BY <1>5 DEF Updates

(* Another observer of the stream has another service. *)
LEMMA AnotherService ==
    ASSUME NEW o \in Observers, NEW b \in Observers, b[1] = o[1], b # o, AskedOnce(o)
    PROVE  SpecOf(b).svc # SpecOf(o).svc
  <1>1. b[2] \in DOMAIN Request[o[1]] /\ b[2] # o[2]
    <2>1. /\ b = <<b[1], b[2]>> /\ o = <<o[1], o[2]>>
          /\ b[1] \in Streams /\ b[2] \in 1..Len(Request[b[1]])
      BY ObserverFacts
    <2> QED
      BY <2>1, RequestAssumption
  <1> QED
    BY <1>1 DEF AskedOnce, SpecOf

LEMMA NotifierLeaves ==
    ASSUME K8sInv, NEW b \in Observers, NEW k \in Slots, K8sNotifierStep(b, k)
    PROVE  /\ UNCHANGED <<hubVars, updaterVars, streamVars>>
           /\ K8sVarsStay
           /\ ObserversStay
           /\ \A o \in Observers : Observed(o)' <=> Observed(o)
           /\ notifier[b][k] # Idle
           /\ \A o \in Observers \ {b} : notifier'[o] = notifier[o]
           /\ \A j \in Slots \ {k} : notifier'[b][j] = notifier[b][j]
           /\ K8sTypes' /\ ReadInv' /\ GotInv'
           /\ notifier[b][k].up \in Updates
           /\ notifier[b][k].up.spec.svc = SpecOf(b).svc
  <1>1. /\ UNCHANGED <<hubVars, updaterVars, streamVars>> /\ K8sVarsStay
        /\ notifier[b][k] # Idle
    BY DEF K8sNotifierStep, TakeIdLate, NotifyTakeId, NotifySend, NotifyStop, k8sVars,
       K8sVarsStay, etcdVars, Idle
  <1>2. \A o \in Observers : Observed(o)' <=> Observed(o)
    BY <1>1 DEF Observed, SpecOf, hubVars
  <1>3. ObserversStay
    BY <1>1, <1>2 DEF ObserversStay, hubVars
  <1>4. notifier[b][k].up \in Updates /\ notifier[b][k].up.spec \in Specs
    BY <1>1 DEF K8sInv, HubInv, TypeOK, Updates
  <1>5. /\ \A o \in Observers \ {b} : notifier'[o] = notifier[o]
        /\ \A j \in Slots \ {k} : notifier'[b][j] = notifier[b][j]
    <2>1. notifier \in [Observers -> [Slots -> {Idle} \cup [pc : {"start", "send"}, up : Updates]]]
      BY DEF K8sInv, HubInv, TypeOK
    <2>2. \/ notifier' = [notifier EXCEPT ![b][k].pc = "send", ![b][k].up.id = DrawnId]
          \/ notifier' = [notifier EXCEPT ![b][k] = Idle]
      BY DEF K8sNotifierStep, TakeIdLate, NotifyTakeId, NotifySend, NotifyStop
    <2> QED
      BY <2>1, <2>2
  <1>6. K8sTypes'
    <2>1. b[1] \in Streams
      BY ObserverFacts
    <2> QED
      BY <1>1, <1>4, <2>1, ExcusedType DEF K8sNotifierStep, TakeIdLate, k8sVars
  <1>7. ReadInv'
    BY <1>1, HubStepsRead DEF updaterVars, streamVars
  <1>8. GotInv'
    BY <1>1 DEF K8sInv, GotInv, Got, streamVars
  <1>9. notifier[b][k].up.spec.svc = SpecOf(b).svc
    BY <1>1 DEF K8sInv, HubInv, AskedInv, NotifiersAsked
  <1> QED
    BY <1>1, <1>2, <1>3, <1>4, <1>5, <1>6, <1>7, <1>8, <1>9

(* The notifier of another observer. *)
LEMMA OtherNotifier ==
    ASSUME K8sInv, NEW b \in Observers, NEW k \in Slots, K8sNotifierStep(b, k),
           NEW o \in Observers, o # b
    PROVE  JoiningFor(o)' /\ ToldFor(o)'
  <1> DEFINE spec == SpecOf(o)
             up == notifier[b][k].up
  <1>1. /\ UNCHANGED <<hubVars, updaterVars, streamVars>>
        /\ K8sVarsStay /\ ObserversStay
        /\ Observed(o)' <=> Observed(o)
        /\ notifier'[o] = notifier[o]
        /\ up \in Updates /\ up.spec.svc = SpecOf(b).svc
    BY NotifierLeaves
  <1>2. /\ o[1] \in Streams /\ b[1] \in Streams /\ spec' = spec /\ spec.svc \in Services
    BY ObserverFacts DEF SpecOf, Specs
  <1>3. /\ Starting(o) => Starting(o)'
        /\ Working(o) => Working(o)'
    BY <1>1, <1>2 DEF Starting, Working, K8sVarsStay, updaterVars
  <1>4. \/ notifyCh' = notifyCh
        \/ notifyCh' = [notifyCh EXCEPT ![b[1]] = Append(@, up)]
    BY DEF K8sNotifierStep, TakeIdLate, NotifyTakeId, NotifySend, NotifyStop
  <1>5. \/ UNCHANGED excused
        \/ \E passed : Excuse(b[1], up.spec, passed)
    BY DEF K8sNotifierStep, TakeIdLate, k8sVars
  <1>6. CASE b[1] # o[1]
    <2>1. Elsewhere(o)
      BY <1>1, <1>2, <1>4, <1>6 DEF Elsewhere, streamVars, K8sInv, HubInv, TypeOK
    <2>2. <<o[1], spec>> \in excused => <<o[1], spec>> \in excused'
      BY <1>5, <1>6 DEF Excuse
    <2> QED
      BY <1>1, <1>3, <2>1, <2>2, OtherClient DEF streamVars
  <1>7. CASE b[1] = o[1] /\ AskedOnce(o)
    <2>1. up.spec # spec
      BY <1>1, <1>7, AnotherService
    <2>2. <<o[1], spec>> \in excused => <<o[1], spec>> \in excused'
      BY <1>5, <2>1 DEF Excuse
    <2>3. \A w : OnTheWay(o, w)' <=> OnTheWay(o, w)
      <3>1. notifyCh[o[1]] \in Seq(Updates)
        BY <1>2 DEF K8sInv, HubInv, TypeOK
      <3>2. notifyCh'[o[1]] = notifyCh[o[1]] \/ notifyCh'[o[1]] = Append(notifyCh[o[1]], up)
        BY <1>2, <1>4, <1>7 DEF K8sInv, HubInv, TypeOK
      <3>3. \A w : (\E i \in DOMAIN notifyCh'[o[1]] : w = notifyCh'[o[1]][i] /\ w.spec = spec)
                <=> (\E i \in DOMAIN notifyCh[o[1]] : w = notifyCh[o[1]][i] /\ w.spec = spec)
        <4> HIDE DEF spec, up
        <4>1. CASE notifyCh'[o[1]] = notifyCh[o[1]]
          BY <4>1
        <4>2. CASE notifyCh'[o[1]] = Append(notifyCh[o[1]], up)
          <5>1. \A i \in DOMAIN notifyCh[o[1]] :
                    i \in DOMAIN notifyCh'[o[1]] /\ notifyCh'[o[1]][i] = notifyCh[o[1]][i]
            BY <3>1, <4>2
          <5>2. \A i \in DOMAIN notifyCh'[o[1]] :
                    \/ i \in DOMAIN notifyCh[o[1]] /\ notifyCh'[o[1]][i] = notifyCh[o[1]][i]
                    \/ notifyCh'[o[1]][i] = up
            BY <1>1, <3>1, <4>2, AppendIndices
          <5> QED
            BY <2>1, <5>1, <5>2
        <4> QED
          BY <3>2, <4>1, <4>2
      <3> QED
        BY <1>1, <1>2, <3>3 DEF OnTheWay, AtNotify, streamVars
    <2>4. \A v : WillHave(o, v) => WillHave(o, v)'
      <3>1. LastGot(o)' = LastGot(o) /\ maxIds' = maxIds
        BY <1>1, <1>2 DEF LastGot, streamVars
      <3> QED
        BY <2>3, <3>1, WillHaveKept
    <2>5. JoiningFor(o) /\ ToldFor(o)
      BY DEF K8sInv, ClientInv
    <2>6. JoiningFor(o)'
      <3> SUFFICES ASSUME Joining(o)' PROVE WillHave(o, fetched[o[1]].ver)'
        BY DEF JoiningFor
      <3>1. Joining(o)
        BY <1>1, <1>2 DEF Joining, streamVars, AskedOnce
      <3>2. PICK v : v = fetched[o[1]].ver
        OBVIOUS
      <3>3. WillHave(o, v)'
        BY <2>4, <2>5, <3>1, <3>2 DEF JoiningFor
      <3> QED
        BY <1>1, <3>2, <3>3 DEF streamVars
    <2>7. Told(o)' => Told(o)
      BY <1>1, <2>2, ToldBefore DEF hubVars, streamVars, K8sVarsStay
    <2> QED
      BY <1>1, <1>3, <2>4, <2>5, <2>6, <2>7, ToldKept DEF K8sVarsStay
  <1>8. CASE ~AskedOnce(o)
    <2>1. ~AskedOnce(o)'
      BY <1>2, <1>8 DEF AskedOnce
    <2> QED
      BY <2>1 DEF JoiningFor, Joining, ToldFor, Told
  <1> QED
    BY <1>6, <1>7, <1>8
(* The list that draws the largest id is the newest, or excuses its client. *)
LEMMA OwnTakeId ==
    ASSUME K8sInv, NEW o \in Observers, NEW k \in Slots, TakeIdLate(o, k)
    PROVE  JoiningFor(o)' /\ ToldFor(o)'
  <1> DEFINE spec == SpecOf(o)
             s == spec.svc
             up == notifier[o][k].up
  <1>1. /\ UNCHANGED <<hubVars, streamVars, notifyCh, registry, told>>
        /\ nextUpdateId \in Nat
        /\ HubInv /\ TypeOK /\ K8sTypes
        /\ Excuse(o[1], up.spec, up.ver < told[up.spec.svc])
        /\ Carries(o, k)
        /\ notifier[o][k].pc = "start"
    BY DEF TakeIdLate, NotifyTakeId, etcdVars, K8sInv, HubInv, TypeOK, CarriedInv
  <1>2. /\ notifier[o][k] # Idle /\ up \in Updates
        /\ up.ver \in Nat
        /\ Observed(o) \/ o \in stopped
    BY <1>1 DEF Idle, TypeOK, Updates, Carries
  <1>3. /\ o[1] \in Streams /\ spec \in Specs /\ spec' = spec /\ s \in Services
        /\ services[s] # NoService
        /\ registry[s].ver \in Nat /\ told[s] \in Nat
    BY <1>1, <1>2, ObserverFacts, NotifierJoined DEF SpecOf, Specs, TypeOK, Contents, K8sTypes
  <1>4. JoiningFor(o)'
    BY <1>1, <1>2, NotifierJoined DEF JoiningFor, Joining, streamVars
  <1> PICK new : new = [up EXCEPT !.id = nextUpdateId + 1]
    OBVIOUS
  <1>5. /\ notifier'[o][k].pc = "send" /\ notifier'[o][k].up = new
        /\ \A j \in Slots \ {k} : notifier'[o][j] = notifier[o][j]
    <2>1. notifier \in [Observers -> [Slots -> {Idle} \cup [pc : {"start", "send"}, up : Updates]]]
      BY <1>1 DEF TypeOK
    <2>2. notifier[o][k] \in [pc : {"start", "send"}, up : Updates]
      BY <1>2, <2>1
    <2>3. notifier' = [notifier EXCEPT ![o][k].pc = "send", ![o][k].up.id = nextUpdateId + 1]
      BY DEF TakeIdLate, NotifyTakeId, DrawnId
    <2> QED
      BY <2>1, <2>2, <2>3 DEF Updates
  <1>6. new \in Updates /\ new.id = nextUpdateId + 1 /\ new.ver = up.ver
    BY <1>1, <1>2 DEF Updates
  <1>7. ASSUME Told(o)' PROVE WillHave(o, registry[s].ver)'
    <2>1. /\ services[s].spec = spec
          /\ told[s] = registry[s].ver
          /\ <<o[1], spec>> \notin excused'
      BY <1>1, <1>3, <1>7 DEF Told, hubVars
    <2>2. up.spec = spec /\ up.ver <= registry[s].ver
      BY <1>1, <1>2, <2>1 DEF Carries
    <2>3. up.ver = registry[s].ver
      BY <1>1, <1>2, <1>3, <2>1, <2>2 DEF Excuse
    <2>4. OnTheWay(o, new)'
      BY <1>5 DEF OnTheWay
    <2>5. maxIds'[o[1]][spec] <= nextUpdateId /\ maxIds'[o[1]][spec] \in Nat
      <3>1. UniqueFor(o[1])
        BY <1>1, <1>3 DEF HubInv, IdInv, IdsUnique
      <3>2. maxIds[o[1]][spec] <= nextUpdateId /\ maxIds[o[1]][spec] \in Nat
        BY <1>1, <1>3, <3>1 DEF UniqueFor, TypeOK
      <3> QED
        BY <1>1, <3>2 DEF streamVars
    <2>6. ASSUME NEW w \in Updates, OnTheWay(o, w)' PROVE w.id <= new.id
      <3>1. w = new \/ OnTheWay(o, w)
        BY <1>1, <1>3, <1>5, <2>6 DEF OnTheWay, AtNotify, streamVars
      <3>2. OnTheWay(o, w) => w.id \in Nat /\ w.id <= nextUpdateId
        BY <1>1, OnTheWayIds
      <3>3. new.id \in Nat /\ nextUpdateId < new.id
        BY <1>1, <1>6
      <3>4. CASE w = new
        BY <3>3, <3>4
      <3>5. CASE OnTheWay(o, w)
        BY <1>1, <3>2, <3>3, <3>5
      <3> QED
        BY <3>1, <3>4, <3>5
    <2> QED
      <3>1. new.ver = registry[s].ver' /\ new.id >= maxIds'[o[1]][spec]
        BY <1>1, <1>3, <1>6, <2>3, <2>5
      <3> QED
        BY <1>3, <1>6, <2>4, <2>6, <3>1 DEF WillHave
  <1> QED
    BY <1>3, <1>4, <1>7 DEF ToldFor

LEMMA OwnSend ==
    ASSUME K8sInv, NEW o \in Observers, NEW k \in Slots, NotifySend(o, k), UNCHANGED k8sVars
    PROVE  JoiningFor(o)' /\ ToldFor(o)'
  <1> DEFINE spec == SpecOf(o)
             s == spec.svc
             up == notifier[o][k].up
  <1>1. /\ UNCHANGED <<hubVars, updaterVars, streamVars, registry, told, excused>>
        /\ HubInv /\ TypeOK
        /\ Carries(o, k)
        /\ notifier[o][k].pc = "send"
    BY DEF NotifySend, etcdVars, K8sInv, HubInv, CarriedInv, k8sVars
  <1>2. /\ notifier[o][k] # Idle /\ up \in Updates
        /\ Observed(o) \/ o \in stopped
    BY <1>1 DEF Idle, TypeOK, Carries
  <1>3. /\ o[1] \in Streams /\ spec \in Specs /\ spec' = spec /\ s \in Services
    BY ObserverFacts DEF SpecOf, Specs
  <1>4. JoiningFor(o)'
    BY <1>1, <1>2, NotifierJoined DEF JoiningFor, Joining, streamVars
  <1>5. /\ notifier'[o][k] = Idle
        /\ \A j \in Slots \ {k} : notifier'[o][j] = notifier[o][j]
        /\ notifyCh[o[1]] \in Seq(Updates)
        /\ notifyCh'[o[1]] = Append(notifyCh[o[1]], up)
    BY <1>3 DEF NotifySend, K8sInv, HubInv, TypeOK
  <1>6. ASSUME Told(o)' PROVE Told(o) /\ up.spec = spec
    <2>1. Observed(o)' => Observed(o) /\ services' = services
      BY <1>1, <1>3 DEF Observed, hubVars
    <2>2. Told(o)
      BY <1>1, <1>6, <2>1, ToldBefore DEF streamVars
    <2> QED
      BY <1>1, <1>2, <2>2 DEF Told, Carries
  <1>7. ASSUME up.spec = spec PROVE \A w : OnTheWay(o, w)' <=> OnTheWay(o, w)
    <2> HIDE DEF up
    <2>1. \A i \in DOMAIN notifyCh[o[1]] :
              i \in DOMAIN notifyCh'[o[1]] /\ notifyCh'[o[1]][i] = notifyCh[o[1]][i]
      BY <1>2, <1>5
    <2>2. \E i \in DOMAIN notifyCh'[o[1]] : notifyCh'[o[1]][i] = up
      <3>1. Len(notifyCh[o[1]]) + 1 \in DOMAIN notifyCh'[o[1]]
        BY <1>2, <1>5
      <3>2. notifyCh'[o[1]][Len(notifyCh[o[1]]) + 1] = up
        BY <1>2, <1>5
      <3> QED
        BY <3>1, <3>2
    <2>3. \A i \in DOMAIN notifyCh'[o[1]] :
              \/ i \in DOMAIN notifyCh[o[1]] /\ notifyCh'[o[1]][i] = notifyCh[o[1]][i]
              \/ notifyCh'[o[1]][i] = up
      BY <1>2, <1>5, AppendIndices
    <2>4. AtNotify(o)' <=> AtNotify(o)
      BY <1>1 DEF AtNotify, streamVars
    <2> DEFINE InCh(w) == \E i \in DOMAIN notifyCh[o[1]] : w = notifyCh[o[1]][i] /\ w.spec = spec
               Held(w) == \E j \in Slots : notifier[o][j].pc = "send" /\ w = notifier[o][j].up
    <2>5. \A w : InCh(w)' <=> InCh(w) \/ w = up
      BY <1>3, <1>7, <2>1, <2>2, <2>3
    <2>6. \A w : Held(w) <=> Held(w)' \/ w = up
      BY <1>1, <1>5 DEF Idle, up
    <2>7. \A w : OnTheWay(o, w) <=> InCh(w) \/ Held(w) \/ (AtNotify(o) /\ w = cur[o[1]])
      BY DEF OnTheWay
    <2>8. \A w : OnTheWay(o, w)' <=> InCh(w)' \/ Held(w)' \/ (AtNotify(o)' /\ w = cur'[o[1]])
      BY DEF OnTheWay
    <2>9. cur' = cur
      BY <1>1 DEF streamVars
    <2> HIDE DEF InCh, Held
    <2> QED
      BY <2>4, <2>5, <2>6, <2>7, <2>8, <2>9
  <1>8. ASSUME Told(o)' PROVE ToldFor(o)'
    <2>1. Told(o) /\ \A w : OnTheWay(o, w)' <=> OnTheWay(o, w)
      BY <1>6, <1>7, <1>8
    <2>2. \A v : WillHave(o, v) => WillHave(o, v)'
      <3>1. LastGot(o)' = LastGot(o) /\ maxIds' = maxIds
        BY <1>1, <1>3 DEF LastGot, streamVars
      <3> QED
        BY <2>1, <3>1, WillHaveKept
    <2>3. ToldFor(o)
      BY DEF K8sInv, ClientInv
    <2>4. Starting(o) => Starting(o)'
      BY <1>1, <1>3, <1>5 DEF Starting
    <2>5. Working(o) => Working(o)'
      BY <1>1, <1>3 DEF Working, updaterVars
    <2> QED
      BY <1>1, <2>1, <2>2, <2>3, <2>4, <2>5, ToldKept
  <1> QED
    BY <1>4, <1>8 DEF ToldFor

(* Who is stopped does not observe any more. *)
LEMMA OwnStop ==
    ASSUME K8sInv, NEW o \in Observers, NEW k \in Slots, NotifyStop(o, k)
    PROVE  JoiningFor(o)' /\ ToldFor(o)'
  <1>1. UNCHANGED <<hubVars, streamVars>> /\ o \in stopped
    BY DEF NotifyStop
  <1>2. ~Observed(o)
    BY <1>1 DEF K8sInv, HubInv, JoinInv, Leaves
  <1>3. ~Observed(o)'
    BY <1>1, <1>2 DEF Observed, hubVars, SpecOf
  <1> QED
    BY <1>1, <1>3, NotifierJoined DEF JoiningFor, Joining, ToldFor, Told, streamVars

LEMMA K8sNotifier ==
    ASSUME K8sInv, NEW b \in Observers, NEW k \in Slots, K8sNotifierStep(b, k)
    PROVE  K8sTypes' /\ ReadInv' /\ CarriedInv' /\ GotInv' /\ ClientInv'
  <1>1. /\ UNCHANGED <<hubVars, streamVars>> /\ K8sVarsStay /\ ObserversStay
        /\ notifier[b][k] # Idle
        /\ \A o \in Observers \ {b} : notifier'[o] = notifier[o]
        /\ \A j \in Slots \ {k} : notifier'[b][j] = notifier[b][j]
        /\ K8sTypes' /\ ReadInv' /\ GotInv'
    BY NotifierLeaves
  <1>2. \/ notifier'[b][k] = Idle
        \/ /\ notifier'[b][k].up.spec = notifier[b][k].up.spec
           /\ notifier'[b][k].up.ver = notifier[b][k].up.ver
    <2>1. /\ notifier \in [Observers -> [Slots -> {Idle} \cup [pc : {"start", "send"}, up : Updates]]]
          /\ notifier[b][k] \in [pc : {"start", "send"}, up : Updates]
      BY <1>1 DEF K8sInv, HubInv, TypeOK
    <2>2. \/ notifier' = [notifier EXCEPT ![b][k].pc = "send", ![b][k].up.id = DrawnId]
          \/ notifier' = [notifier EXCEPT ![b][k] = Idle]
      BY DEF K8sNotifierStep, TakeIdLate, NotifyTakeId, NotifySend, NotifyStop
    <2> QED
      BY <2>1, <2>2 DEF Updates
  <1>3. \A o \in Observers, j \in Slots : Carries(o, j)'
    BY <1>1, <1>2, CarriesStays
  <1>4. CarriedInv'
    BY <1>1, <1>3 DEF K8sInv, CarriedInv, SpecAt, streamVars
  <1>5. JoiningFor(b)' /\ ToldFor(b)'
    BY OwnTakeId, OwnSend, OwnStop DEF K8sNotifierStep
  <1>6. ClientInv'
    BY <1>5, OtherNotifier DEF ClientInv
  <1> QED
    BY <1>1, <1>4, <1>6
-----------------------------------------------------------------------------
(* The handlers. *)

Handles(st) ==
    \/ (Resolve(st) \/ AutoDisconnect(st)) /\ UNCHANGED k8sVars
    \/ K8sHandlerStep(st)

(* The service objects a handler leaves: nobody but who joins in           *)
(* AddObserver becomes an observer, and who is removed is stopped.         *)
ServicesLeft(st) ==
    /\ ObserversStay
    /\ \A o \in Observers : Observed(o)' => Observed(o) \/ (ObserveLate(st) /\ o = <<st, at[st]>>)

LEMMA RegisterServices ==
    ASSUME TypeOK, NEW st \in Streams, AddRegister(st)
    PROVE  ServicesLeft(st)
  <1> DEFINE s == SpecAt(st).svc
             new == [spec |-> SpecAt(st),
                     endpoints |-> Select(SpecAt(st), fetched[st].insts),
                     observers |-> {}]
  <1>1. s \in Services
    BY SpecAtType DEF AddRegister
  <1>2. /\ services' = [services EXCEPT ![s] = IF @ = NoService THEN new ELSE @]
        /\ stopped' = stopped
    BY DEF AddRegister, ServiceFor
  <1>3. new.observers = {}
    OBVIOUS
  <1> HIDE DEF s, new
  <1>4. /\ services'[s] = (IF services[s] = NoService THEN new ELSE services[s])
        /\ \A t \in Services \ {s} : services'[t] = services[t]
    BY <1>1, <1>2 DEF TypeOK
  <1>5. \A o \in Observers : Observed(o)' <=> Observed(o)
    <2> TAKE o \in Observers
    <2>1. SpecOf(o)' = SpecOf(o) /\ SpecOf(o).svc \in Services
      BY ObserverFacts DEF SpecOf, Specs
    <2> QED
      BY <1>3, <1>4, <2>1 DEF Observed
  <1> QED
    BY <1>2, <1>4, <1>5 DEF ServicesLeft, ObserversStay

LEMMA ObserveServices ==
    ASSUME TypeOK, NEW st \in Streams, ObserveLate(st)
    PROVE  ServicesLeft(st) /\ services'[SpecAt(st).svc].spec = services[SpecAt(st).svc].spec
  <1> DEFINE s == SpecAt(st).svc
             new == <<st, at[st]>>
             so == [services[s] EXCEPT !.observers = @ \cup {new}]
  <1>1. /\ s \in Services /\ new \in Observers
        /\ services[s] # NoService
    BY SpecAtType DEF ObserveLate, AddObserve, TypeOK
  <1>2. services[s] \in ServiceObjects
    BY <1>1 DEF TypeOK
  <1>3. so \in ServiceObjects
    BY <1>1, <1>2 DEF ServiceObjects
  <1>4. /\ services' = [services EXCEPT ![s] = so]
        /\ stopped' = stopped
    BY DEF ObserveLate, AddObserve
  <1>5. /\ so.spec = services[s].spec
        /\ so.observers = services[s].observers \cup {new}
        /\ so # NoService
    BY <1>2, <1>3, NoServiceAssumption DEF ServiceObjects
  <1> HIDE DEF so, s, new
  <1>6. /\ services'[s] = so
        /\ \A t \in Services \ {s} : services'[t] = services[t]
    BY <1>1, <1>4 DEF TypeOK
  <1>7. ASSUME NEW o \in Observers
        PROVE  (Observed(o) => Observed(o)') /\ (Observed(o)' => Observed(o) \/ o = new)
    <2>1. SpecOf(o)' = SpecOf(o) /\ SpecOf(o).svc \in Services
      BY ObserverFacts DEF SpecOf, Specs
    <2> QED
      BY <1>1, <1>5, <1>6, <2>1 DEF Observed
  <1> QED
    BY <1>4, <1>5, <1>6, <1>7 DEF ServicesLeft, ObserversStay, s, new

LEMMA RemoveServices ==
    ASSUME TypeOK, NEW st \in Streams, Remove(st)
    PROVE  ServicesLeft(st)
  <1> DEFINE s == SpecAt(st).svc
             gone == Matching(services[s], SpecAt(st), AddrOf[st])
             so == [services[s] EXCEPT !.observers = @ \ gone]
  <1>1. s \in Services
    BY SpecAtType DEF Remove
  <1>2. CASE services[s] = NoService
    <2>1. UNCHANGED <<services, stopped>>
      BY <1>2 DEF Remove
    <2> QED
      BY <2>1 DEF ServicesLeft, ObserversStay, Observed, SpecOf
  <1>3. CASE services[s] # NoService
    <2>1. services[s] \in ServiceObjects
      BY <1>1, <1>3 DEF TypeOK
    <2>2. so \in ServiceObjects
      BY <2>1 DEF ServiceObjects
    <2>3. /\ services' = [services EXCEPT ![s] = so]
          /\ stopped' = stopped \cup gone
      BY <1>3 DEF Remove, Remaining
    <2>4. /\ so.spec = services[s].spec
          /\ so.observers = services[s].observers \ gone
          /\ so # NoService
      BY <2>1, <2>2, NoServiceAssumption DEF ServiceObjects
    <2> HIDE DEF so, s, gone
    <2>5. /\ services'[s] = so
          /\ \A t \in Services \ {s} : services'[t] = services[t]
      BY <1>1, <2>3 DEF TypeOK
    <2>6. ASSUME NEW o \in Observers
          PROVE  /\ Observed(o) \/ o \in stopped => Observed(o)' \/ o \in stopped'
                 /\ Observed(o)' => Observed(o)
      <3>1. SpecOf(o)' = SpecOf(o) /\ SpecOf(o).svc \in Services
        BY ObserverFacts DEF SpecOf, Specs
      <3> QED
        BY <1>1, <1>3, <2>3, <2>4, <2>5, <3>1 DEF Observed
    <2> QED
      BY <1>3, <2>4, <2>5, <2>6 DEF ServicesLeft, ObserversStay
  <1> QED
    BY <1>2, <1>3

(* A handler leaves alone the other streams, the notifiers, the informer. *)
LEMMA HandlesLeaves ==
    ASSUME TypeOK, NEW st \in Streams, Handles(st)
    PROVE  /\ K8sVarsStay
           /\ UNCHANGED <<updater, notifier>>
           /\ \A r \in Streams \ {st} :
                /\ notifyCh'[r] = notifyCh[r] /\ pc'[r] = pc[r] /\ at'[r] = at[r]
                /\ fetched'[r] = fetched[r] /\ cur'[r] = cur[r]
                /\ maxIds'[r] = maxIds[r] /\ sent'[r] = sent[r]
           /\ UNCHANGED excused \/ \E passed : ObserveLate(st) /\ Excuse(st, SpecAt(st), passed)
           /\ ServicesLeft(st)
  <1>1. K8sVarsStay /\ UNCHANGED <<updater, notifier>>
    BY DEF Handles, K8sHandlerStep, Resolve, AutoDisconnect, FetchK8s, FetchK8sError,
       ObserveLate, AddFetch, AddRegister, AddNotify, AddObserve, Receive, SendOk, SendFail,
       Remove, K8sVarsStay, k8sVars, etcdVars, updaterVars, notifyVars
  <1>2. UNCHANGED excused \/ \E passed : ObserveLate(st) /\ Excuse(st, SpecAt(st), passed)
    BY DEF Handles, K8sHandlerStep, FetchK8s, FetchK8sError, ObserveLate, k8sVars
  <1>3. ServicesLeft(st)
    <2>1. CASE UNCHANGED <<services, stopped>>
      BY <2>1 DEF ServicesLeft, ObserversStay, Observed, SpecOf
    <2> QED
      BY <2>1, RegisterServices, ObserveServices, RemoveServices
      DEF Handles, K8sHandlerStep, Resolve, AutoDisconnect, FetchK8s, FetchK8sError,
          AddFetch, AddNotify, Receive, SendOk, SendFail, hubVars
  <1>4. ASSUME NEW r \in Streams \ {st}
        PROVE  /\ notifyCh'[r] = notifyCh[r] /\ pc'[r] = pc[r] /\ at'[r] = at[r]
               /\ fetched'[r] = fetched[r] /\ cur'[r] = cur[r]
               /\ maxIds'[r] = maxIds[r] /\ sent'[r] = sent[r]
    <2>1. CASE \/ Resolve(st) \/ AutoDisconnect(st) \/ FetchK8s(st) \/ FetchK8sError(st)
               \/ ObserveLate(st) \/ Remove(st)
      BY <2>1 DEF Resolve, AutoDisconnect, FetchK8s, FetchK8sError, ObserveLate, AddFetch,
         AddObserve, Remove, GoTo, notifyVars, TypeOK
    <2>2. CASE AddRegister(st) \/ AddNotify(st) \/ Receive(st)
      BY <2>2 DEF AddRegister, AddNotify, Receive, GoTo, notifyVars, TypeOK
    <2>3. CASE SendOk(st) \/ SendFail(st)
      BY <2>3 DEF SendOk, SendFail, GoTo, notifyVars, TypeOK
    <2> QED
      BY <2>1, <2>2, <2>3 DEF Handles, K8sHandlerStep
  <1> QED
    BY <1>1, <1>2, <1>3, <1>4
(* The clients of other streams. *)
LEMMA HandlesOthers ==
    ASSUME K8sInv, NEW st \in Streams, Handles(st), NEW o \in Observers, o[1] # st
    PROVE  JoiningFor(o)' /\ ToldFor(o)'
  <1>1. TypeOK /\ o[1] \in Streams \ {st}
    BY ObserverFacts DEF K8sInv, HubInv
  <1>2. /\ K8sVarsStay /\ ObserversStay /\ UNCHANGED <<updater, notifier>>
        /\ Observed(o)' => Observed(o)
        /\ fetched'[o[1]] = fetched[o[1]]
    BY <1>1, HandlesLeaves DEF ServicesLeft
  <1>3. Elsewhere(o)
    BY <1>1, HandlesLeaves DEF Elsewhere
  <1>4. <<o[1], SpecOf(o)>> \in excused => <<o[1], SpecOf(o)>> \in excused'
    BY <1>1, HandlesLeaves DEF Excuse
  <1>5. /\ Starting(o) => Starting(o)'
        /\ Working(o) => Working(o)'
    BY <1>2 DEF Starting, Working, K8sVarsStay, SpecOf
  <1> QED
    BY <1>2, <1>3, <1>4, <1>5, OtherClient

LEMMA HandlesReads ==
    ASSUME K8sInv, NEW st \in Streams, Handles(st)
    PROVE  K8sTypes' /\ ReadInv'
  <1>1. TypeOK /\ K8sVarsStay /\ UNCHANGED <<updater, notifier>>
    BY HandlesLeaves DEF K8sInv, HubInv
  <1>2. K8sTypes'
    <2>1. ObserveLate(st) => SpecAt(st) \in Specs
      BY <1>1, SpecAtType DEF ObserveLate, AddObserve
    <2>2. UNCHANGED excused \/ \E passed : ObserveLate(st) /\ Excuse(st, SpecAt(st), passed)
      BY <1>1, HandlesLeaves
    <2> QED
      BY <1>1, <2>1, <2>2, ExcusedType
  <1>3. ASSUME NEW r \in Streams, pc'[r] \in {"register", "notify", "observe"}
        PROVE  /\ at'[r] = at[r]
               /\ \/ /\ pc[r] \in {"register", "notify", "observe"}
                     /\ fetched'[r] = fetched[r]
                  \/ /\ pc[r] = "fetch"
                     /\ fetched'[r] = registry[SpecAt(r).svc]
    <2>1. CASE r # st
      BY <1>1, <1>3, <2>1, HandlesLeaves
    <2>2. CASE r = st
      <3>1. CASE FetchK8s(st)
        BY <1>1, <2>2, <3>1 DEF FetchK8s, AddFetch, GoTo, TypeOK
      <3>2. CASE AddRegister(st) \/ AddNotify(st)
        BY <1>1, <2>2, <3>2 DEF AddRegister, AddNotify, GoTo, TypeOK
      <3>3. CASE \/ Resolve(st) \/ AutoDisconnect(st) \/ FetchK8sError(st) \/ ObserveLate(st)
                 \/ SendOk(st) \/ SendFail(st) \/ Remove(st)
        BY <1>1, <1>3, <2>2, <3>3 DEF Resolve, AutoDisconnect, FetchK8sError, ObserveLate,
           AddObserve, SendOk, SendFail, Remove, GoTo, TypeOK
      <3>4. CASE Receive(st)
        BY <1>1, <1>3, <2>2, <3>4 DEF Receive, GoTo, TypeOK
      <3> QED
        BY <3>1, <3>2, <3>3, <3>4 DEF Handles, K8sHandlerStep
    <2> QED
      BY <2>1, <2>2
  <1>4. ReadInv'
    BY <1>1, <1>3, HubStepsRead
  <1> QED
    BY <1>2, <1>4

LEMMA HandlesCarries ==
    ASSUME K8sInv, NEW st \in Streams, Handles(st)
    PROVE  CarriedInv'
  <1>1. TypeOK /\ K8sVarsStay /\ UNCHANGED <<updater, notifier>> /\ ObserversStay
    BY HandlesLeaves DEF K8sInv, HubInv, ServicesLeft
  <1>2. \A o \in Observers, k \in Slots : Carries(o, k)'
    BY <1>1, CarriesStays
  <1>3. ASSUME NEW r \in Streams, pc'[r] = "notify" PROVE cur'[r].spec = SpecAt(r)'
    <2>1. CASE r # st
      <3>1. pc[r] = "notify" /\ cur'[r] = cur[r] /\ SpecAt(r)' = SpecAt(r)
        BY <1>1, <1>3, <2>1, HandlesLeaves DEF SpecAt
      <3> QED
        BY <3>1 DEF K8sInv, CarriedInv
    <2>2. CASE r = st /\ AddRegister(st)
      <3>1. cur' = [cur EXCEPT ![st] = [id |-> DrawnId, spec |-> SpecAt(st),
                        insts |-> Select(SpecAt(st), fetched[st].insts), ver |-> fetched[st].ver]]
        BY <2>2 DEF AddRegister
      <3>2. SpecAt(st)' = SpecAt(st)
        BY <2>2 DEF AddRegister, SpecAt
      <3> QED
        BY <1>1, <2>2, <3>1, <3>2 DEF TypeOK
    <2>3. CASE r = st /\ ~AddRegister(st)
      <3>1. pc'[st] # "notify"
        <4>1. CASE Receive(st)
          BY <1>1, <4>1 DEF Receive, GoTo, TypeOK
        <4> QED
          BY <1>1, <2>3, <4>1 DEF Handles, K8sHandlerStep, Resolve, AutoDisconnect, FetchK8s,
             AddFetch, FetchK8sError, ObserveLate, AddNotify, AddObserve, SendOk, SendFail,
             Remove, GoTo, TypeOK
      <3> QED
        BY <1>3, <2>3, <3>1
    <2> QED
      BY <2>1, <2>2, <2>3
  <1> QED
    BY <1>2, <1>3 DEF CarriedInv

LEMMA HandlesGot ==
    ASSUME K8sInv, NEW st \in Streams, Handles(st)
    PROVE  GotInv'
  <1>1. TypeOK /\ IdInv /\ GotInv
    BY DEF K8sInv, HubInv
  <1> SUFFICES ASSUME NEW r \in Streams, NEW sp \in Specs PROVE Got(r, sp)'
    BY DEF GotInv
  <1>2. Got(r, sp)
    BY <1>1 DEF GotInv
  <1>3. CASE r # st
    BY <1>1, <1>2, <1>3, HandlesLeaves DEF Got
  <1>4. CASE r = st /\ Receive(st)
    <2> DEFINE up == Head(notifyCh[st])
    <2>1. /\ pc[st] = "serve" /\ sent'[st] = sent[st]
          /\ up \in Updates /\ up.spec \in Specs
      <3>1. up \in Updates
        BY <1>1, <1>4, TailIndices, ChannelType DEF Receive
      <3> QED
        BY <1>4, <3>1 DEF Receive, Updates
    <2>2. \/ UNCHANGED <<maxIds, cur, pc>>
          \/ /\ pc'[st] = "send" /\ cur'[st] = up
             /\ \A q \in Specs \ {up.spec} : maxIds'[st][q] = maxIds[st][q]
      <3> HIDE DEF up
      <3>1. \/ UNCHANGED <<maxIds, cur, pc>>
            \/ /\ maxIds' = [maxIds EXCEPT ![st][up.spec] = up.id]
               /\ cur' = [cur EXCEPT ![st] = up]
               /\ pc' = [pc EXCEPT ![st] = "send"]
        BY <1>4 DEF Receive, GoTo, up
      <3> QED
        BY <1>1, <3>1, <2>1 DEF TypeOK
    <2> QED
      BY <1>2, <1>4, <2>1, <2>2 DEF Got
  <1>5. CASE r = st /\ SendOk(st)
    <2>1. /\ pc[st] = "send" /\ Remembered(st) /\ cur[st].spec \in Specs
          /\ UNCHANGED maxIds
      BY <1>1, <1>5, IdTypes DEF SendOk, IdInv
    <2>2. sent'[st][sp] = (IF sp = cur[st].spec THEN cur[st] ELSE sent[st][sp])
      <3>1. sent' = [sent EXCEPT ![st][cur[st].spec] = cur[st]]
        BY <1>5 DEF SendOk
      <3>2. sent \in [Streams -> [Specs -> Updates \cup {NoUpdate}]]
        BY <1>1 DEF TypeOK
      <3> QED
        BY <2>1, <3>1, <3>2
    <2> QED
      BY <1>2, <1>5, <2>1, <2>2 DEF Got, Remembered
  <1>6. CASE r = st /\ (SendFail(st) \/ AutoDisconnect(st) \/ Remove(st))
    <2>1. pc'[st] \in {"remove", "ended"}
      BY <1>1, <1>6 DEF SendFail, AutoDisconnect, Remove, GoTo, TypeOK
    <2> QED
      BY <1>6, <2>1 DEF Got
  <1>7. CASE /\ r = st
             /\ \/ Resolve(st) \/ FetchK8s(st) \/ FetchK8sError(st) \/ ObserveLate(st)
                \/ AddRegister(st) \/ AddNotify(st)
    <2>1. /\ UNCHANGED <<maxIds, sent>>
          /\ pc[st] \notin {"remove", "ended", "send"}
      BY <1>7 DEF Resolve, FetchK8s, FetchK8sError, ObserveLate, AddFetch, AddRegister,
         AddNotify, AddObserve
    <2> QED
      BY <1>2, <1>7, <2>1 DEF Got
  <1> QED
    BY <1>3, <1>4, <1>5, <1>6, <1>7 DEF Handles, K8sHandlerStep
(* A client of the handler's stream, when the step leaves what is on its   *)
(* way and does not make it an observer.                                   *)
LEMMA OwnKept ==
    ASSUME K8sInv, NEW st \in Streams, Handles(st), NEW o \in Observers, o[1] = st,
           ~ObserveLate(st) \/ o # <<st, at[st]>>,
           pc[st] \in {"remove", "ended"} => pc'[st] \in {"remove", "ended"},
           AskedOnce(o) => \A v : WillHave(o, v) => WillHave(o, v)'
    PROVE  ToldFor(o)'
  <1>1. TypeOK /\ ToldFor(o) /\ SpecOf(o)' = SpecOf(o) /\ SpecOf(o).svc \in Services
    BY ObserverFacts DEF K8sInv, HubInv, ClientInv, SpecOf, Specs
  <1>2. /\ K8sVarsStay /\ ObserversStay /\ UNCHANGED <<updater, notifier>>
        /\ Observed(o)' => Observed(o)
    BY <1>1, HandlesLeaves DEF ServicesLeft
  <1>3. CASE ~AskedOnce(o)
    <2>1. ~AskedOnce(o)'
      BY <1>3 DEF AskedOnce, SpecOf
    <2> QED
      BY <2>1 DEF ToldFor, Told
  <1>4. CASE AskedOnce(o)
    <2>1. <<o[1], SpecOf(o)>> \in excused => <<o[1], SpecOf(o)>> \in excused'
      <3>1. CASE UNCHANGED excused
        BY <3>1
      <3>2. CASE \E passed : ObserveLate(st) /\ Excuse(st, SpecAt(st), passed)
        <4> DEFINE b == <<st, at[st]>>
        <4>1. b \in Observers /\ b[1] = st /\ b # o /\ SpecAt(st) = SpecOf(b)
          BY <1>1, <3>2, SpecAtType DEF ObserveLate, AddObserve, SpecAt, SpecOf
        <4> HIDE DEF b
        <4>2. SpecAt(st) # SpecOf(o)
          BY <1>4, <4>1, AnotherService
        <4> QED
          BY <3>2, <4>2 DEF Excuse
      <3> QED
        BY <1>1, <3>1, <3>2, HandlesLeaves
    <2>2. Observed(o)' => services'[SpecOf(o).svc].spec = services[SpecOf(o).svc].spec
      BY <1>1, <1>2 DEF Observed, ObserversStay
    <2>3. Told(o)' => Told(o)
      BY <1>2, <2>1, <2>2, ToldBefore DEF K8sVarsStay
    <2>4. (Starting(o) => Starting(o)') /\ (Working(o) => Working(o)')
      BY <1>1, <1>2 DEF Starting, Working, K8sVarsStay
    <2> QED
      BY <1>1, <1>2, <1>4, <2>3, <2>4, ToldKept DEF K8sVarsStay
  <1> QED
    BY <1>3, <1>4

(* Nothing on its way moves, and nothing is received or sent. *)
LEMMA StillOnTheWay ==
    ASSUME NEW o \in Observers, NEW v, WillHave(o, v),
           notifyCh'[o[1]] = notifyCh[o[1]], notifier' = notifier,
           ~AtNotify(o), ~AtNotify(o)',
           LastGot(o)' = LastGot(o), maxIds'[o[1]] = maxIds[o[1]]
    PROVE  WillHave(o, v)'
  <1>1. \A w : OnTheWay(o, w)' <=> OnTheWay(o, w)
    BY DEF OnTheWay, SpecOf
  <1> QED
    BY <1>1, WillHaveKept

(* The handler begins, reads the service, or leaves its loop. *)
LEMMA OwnQuiet ==
    ASSUME K8sInv, NEW st \in Streams, Handles(st), NEW o \in Observers, o[1] = st,
           \/ Resolve(st) \/ FetchK8s(st) \/ FetchK8sError(st)
           \/ AutoDisconnect(st) \/ SendFail(st) \/ Remove(st)
    PROVE  JoiningFor(o)' /\ ToldFor(o)'
  <1>1. TypeOK
    BY DEF K8sInv, HubInv
  <1>2. CASE AutoDisconnect(st) \/ SendFail(st) \/ Remove(st)
    <2>1. pc'[st] \in {"remove", "ended"}
      BY <1>1, <1>2 DEF AutoDisconnect, SendFail, Remove, GoTo, TypeOK
    <2> QED
      BY <2>1 DEF JoiningFor, Joining, ToldFor, Told
  <1>3. CASE Resolve(st) \/ FetchK8s(st) \/ FetchK8sError(st)
    <2>1. /\ pc[st] \in {"idle", "fetch"}
          /\ pc'[st] \in {"fetch", "register", "failed"}
          /\ UNCHANGED <<notifyCh, notifier, cur, maxIds, sent>>
      BY <1>1, <1>3 DEF Resolve, FetchK8s, FetchK8sError, AddFetch, GoTo, TypeOK, notifyVars
    <2>2. JoiningFor(o)'
      BY <2>1 DEF JoiningFor, Joining
    <2>3. ~AtNotify(o) /\ ~AtNotify(o)' /\ LastGot(o)' = LastGot(o)
      BY <2>1 DEF AtNotify, LastGot, SpecOf
    <2>4. \A v : WillHave(o, v) => WillHave(o, v)'
      BY <2>1, <2>3, StillOnTheWay
    <2>5. ~ObserveLate(st)
      BY <2>1 DEF ObserveLate, AddObserve
    <2> QED
      BY <2>1, <2>2, <2>4, <2>5, OwnKept
  <1> QED
    BY <1>2, <1>3

(* The first update draws the largest id. *)
LEMMA OwnRegister ==
    ASSUME K8sInv, NEW st \in Streams, AddRegister(st), UNCHANGED k8sVars,
           NEW o \in Observers, o[1] = st
    PROVE  JoiningFor(o)' /\ ToldFor(o)'
  <1> DEFINE spec == SpecOf(o)
  <1>1. /\ TypeOK /\ HubInv /\ nextUpdateId \in Nat
        /\ spec \in Specs /\ spec' = spec
        /\ pc[st] = "register" /\ pc'[st] = "notify"
        /\ UNCHANGED <<notifier, notifyCh, at, fetched, maxIds, sent>>
    BY ObserverFacts DEF K8sInv, HubInv, TypeOK, AddRegister, GoTo, SpecOf
  <1>2. Handles(st) /\ ~ObserveLate(st)
    BY <1>1 DEF Handles, K8sHandlerStep, ObserveLate, AddObserve
  <1> PICK up : up = [id |-> nextUpdateId + 1, spec |-> SpecAt(st),
                      insts |-> Select(SpecAt(st), fetched[st].insts), ver |-> fetched[st].ver]
    OBVIOUS
  <1>3. /\ cur'[st] = up
        /\ up \in Updates /\ up.id = nextUpdateId + 1 /\ up.ver = fetched[st].ver
    <2>1. SpecAt(st) \in Specs
      BY <1>1, SpecAtType
    <2>2. fetched[st] \in Contents
      BY <1>1 DEF TypeOK
    <2>3. Select(SpecAt(st), fetched[st].insts) \in SUBSET Instances
      BY <2>2, SelectType DEF Contents
    <2>4. cur' = [cur EXCEPT ![st] = up]
      BY DEF AddRegister, DrawnId
    <2> QED
      BY <1>1, <2>1, <2>2, <2>3, <2>4 DEF TypeOK, Updates, Contents
  <1>4. JoiningFor(o)'
    <2> SUFFICES ASSUME at'[st] = o[2] PROVE WillHave(o, fetched[st].ver)'
      BY DEF JoiningFor, Joining
    <2>1. OnTheWay(o, up)'
      BY <1>1, <1>3 DEF OnTheWay, AtNotify
    <2>2. maxIds[st][spec] <= nextUpdateId /\ maxIds[st][spec] \in Nat
      <3>1. UniqueFor(st)
        BY <1>1 DEF HubInv, IdInv, IdsUnique
      <3> QED
        BY <1>1, <3>1 DEF UniqueFor, TypeOK
    <2>3. ASSUME NEW w \in Updates, OnTheWay(o, w)' PROVE w.id <= up.id
      <3>1. w = up \/ OnTheWay(o, w)
        BY <1>1, <1>3, <2>3 DEF OnTheWay
      <3>2. OnTheWay(o, w) => w.id \in Nat /\ w.id <= nextUpdateId
        BY <1>1, OnTheWayIds
      <3>3. up.id \in Nat /\ nextUpdateId < up.id
        BY <1>1, <1>3
      <3>4. CASE w = up
        BY <3>3, <3>4
      <3>5. CASE OnTheWay(o, w)
        BY <1>1, <3>2, <3>3, <3>5
      <3> QED
        BY <3>1, <3>4, <3>5
    <2>4. up.id >= maxIds'[o[1]][spec] /\ up.ver = fetched'[st].ver
      BY <1>1, <1>3, <2>2
    <2> QED
      BY <1>1, <1>3, <2>1, <2>3, <2>4 DEF WillHave
  <1>5. CASE at[st] = o[2]
    <2>1. ~Observed(o)
      <3>1. Joins(o) /\ at[st] \in Nat
        BY <1>1 DEF HubInv, JoinInv, TypeOK
      <3> QED
        BY <1>1, <1>5, <3>1 DEF Joins, HasJoined
    <2>2. ~Observed(o)'
      BY <1>1, <1>2, <2>1, HandlesLeaves DEF ServicesLeft
    <2> QED
      BY <1>4, <2>2 DEF ToldFor, Told
  <1>6. CASE at[st] # o[2]
    <2>1. ~AtNotify(o) /\ ~AtNotify(o)' /\ LastGot(o)' = LastGot(o)
      BY <1>1, <1>6 DEF AtNotify, LastGot
    <2>2. \A v : WillHave(o, v) => WillHave(o, v)'
      BY <1>1, <2>1, StillOnTheWay
    <2> QED
      BY <1>1, <1>2, <1>4, <2>2, OwnKept
  <1> QED
    BY <1>5, <1>6
(* The first update goes into the channel. *)
LEMMA OwnAddNotify ==
    ASSUME K8sInv, NEW st \in Streams, AddNotify(st), UNCHANGED k8sVars,
           NEW o \in Observers, o[1] = st
    PROVE  JoiningFor(o)' /\ ToldFor(o)'
  <1> DEFINE spec == SpecOf(o)
             up == cur[st]
  <1>1. /\ TypeOK /\ spec \in Specs /\ spec' = spec
        /\ pc[st] = "notify" /\ pc'[st] = "observe"
        /\ UNCHANGED <<notifier, at, fetched, maxIds, sent>>
        /\ notifyCh[st] \in Seq(Updates)
        /\ notifyCh'[st] = Append(notifyCh[st], up)
    BY ObserverFacts DEF K8sInv, HubInv, TypeOK, AddNotify, FirstUpdate, GoTo, SpecOf
  <1>2. Handles(st) /\ ~ObserveLate(st)
    BY <1>1 DEF Handles, K8sHandlerStep, ObserveLate, AddObserve
  <1>3. up \in Updates /\ up.spec = SpecAt(st)
    BY <1>1 DEF TypeOK, K8sInv, CarriedInv
  <1>4. at[st] = o[2] => up.spec = spec
    BY <1>3 DEF SpecAt, SpecOf
  <1>5. at[st] # o[2] /\ AskedOnce(o) => up.spec # spec
    <2> DEFINE b == <<st, at[st]>>
    <2>1. b \in Observers /\ b[1] = st /\ b[2] = at[st] /\ SpecAt(st) = SpecOf(b)
      BY <1>1, SpecAtType DEF SpecAt, SpecOf
    <2> HIDE DEF b
    <2> QED
      BY <1>3, <2>1, AnotherService
  <1>6. ASSUME AskedOnce(o) PROVE \A w : OnTheWay(o, w)' <=> OnTheWay(o, w)
    <2> HIDE DEF up, spec
    <2>1. \A i \in DOMAIN notifyCh[st] :
              i \in DOMAIN notifyCh'[st] /\ notifyCh'[st][i] = notifyCh[st][i]
      BY <1>1, <1>3
    <2>2. \E i \in DOMAIN notifyCh'[st] : notifyCh'[st][i] = up
      <3>1. /\ Len(notifyCh[st]) + 1 \in DOMAIN notifyCh'[st]
            /\ notifyCh'[st][Len(notifyCh[st]) + 1] = up
        BY <1>1, <1>3
      <3> QED
        BY <3>1
    <2>3. \A i \in DOMAIN notifyCh'[st] :
              \/ i \in DOMAIN notifyCh[st] /\ notifyCh'[st][i] = notifyCh[st][i]
              \/ notifyCh'[st][i] = up
      BY <1>1, <1>3, AppendIndices
    <2> DEFINE InCh(w) == \E i \in DOMAIN notifyCh[st] : w = notifyCh[st][i] /\ w.spec = spec
               Held(w) == \E k \in Slots : notifier[o][k].pc = "send" /\ w = notifier[o][k].up
    <2>4. \A w : InCh(w)' <=> InCh(w) \/ (w = up /\ up.spec = spec)
      BY <1>1, <2>1, <2>2, <2>3
    <2>5. \A w : Held(w)' <=> Held(w)
      BY <1>1
    <2>6. \A w : OnTheWay(o, w) <=> InCh(w) \/ Held(w) \/ (at[st] = o[2] /\ w = up)
      BY <1>1 DEF OnTheWay, AtNotify, up, spec
    <2>7. \A w : OnTheWay(o, w)' <=> InCh(w)' \/ Held(w)'
      BY <1>1 DEF OnTheWay, AtNotify, up, spec
    <2> HIDE DEF InCh, Held
    <2> QED
      BY <1>4, <1>5, <1>6, <2>4, <2>5, <2>6, <2>7
  <1>7. LastGot(o)' = LastGot(o)
    BY <1>1 DEF LastGot
  <1>8. AskedOnce(o) => \A v : WillHave(o, v) => WillHave(o, v)'
    BY <1>1, <1>6, <1>7, WillHaveKept
  <1>9. ToldFor(o)'
    BY <1>1, <1>2, <1>8, OwnKept
  <1>10. JoiningFor(o)'
    <2> SUFFICES ASSUME Joining(o)' PROVE WillHave(o, fetched[st].ver)'
      BY DEF JoiningFor
    <2>1. Joining(o) /\ AskedOnce(o)
      BY <1>1 DEF Joining, AskedOnce, SpecOf
    <2>2. PICK v : v = fetched[st].ver
      OBVIOUS
    <2>3. WillHave(o, v)'
      BY <1>8, <2>1, <2>2 DEF K8sInv, ClientInv, JoiningFor
    <2> QED
      BY <1>1, <2>2, <2>3
  <1> QED
    BY <1>9, <1>10

(* Who joins has the list AddObserver has read on its way; if the informer *)
(* has been told of a newer one meanwhile, that is the excuse.             *)
LEMMA OwnObserve ==
    ASSUME K8sInv, NEW st \in Streams, ObserveLate(st), NEW o \in Observers, o[1] = st
    PROVE  JoiningFor(o)' /\ ToldFor(o)'
  <1> DEFINE spec == SpecOf(o)
             s == spec.svc
  <1>1. /\ TypeOK /\ K8sTypes /\ spec \in Specs /\ spec' = spec /\ s \in Services
        /\ pc[st] = "observe" /\ pc'[st] \in {"fetch", "serve"}
        /\ UNCHANGED <<notifier, notifyCh, cur, maxIds, sent, registry, told>>
    BY ObserverFacts DEF K8sInv, HubInv, TypeOK, ObserveLate, AddObserve, GoTo, SpecOf, Specs,
       notifyVars, etcdVars
  <1>2. Handles(st)
    BY DEF Handles, K8sHandlerStep
  <1>3. JoiningFor(o)'
    BY <1>1 DEF JoiningFor, Joining
  <1>4. ~AtNotify(o) /\ ~AtNotify(o)' /\ LastGot(o)' = LastGot(o)
    BY <1>1 DEF AtNotify, LastGot
  <1>5. \A v : WillHave(o, v) => WillHave(o, v)'
    BY <1>1, <1>4, StillOnTheWay
  <1>6. CASE o # <<st, at[st]>>
    BY <1>1, <1>2, <1>3, <1>5, <1>6, OwnKept
  <1>7. CASE o = <<st, at[st]>>
    <2> SUFFICES ASSUME Told(o)' PROVE WillHave(o, registry[s].ver)'
      BY <1>1, <1>3 DEF ToldFor
    <2>1. SpecAt(st) = spec /\ at[st] = o[2]
      BY <1>7 DEF SpecAt, SpecOf
    <2>2. AskedOnce(o) /\ told[s] = registry[s].ver /\ <<st, spec>> \notin excused'
      BY <1>1 DEF Told, AskedOnce
    <2>3. ~(told[s] > fetched[st].ver)
      BY <1>1, <2>1, <2>2 DEF ObserveLate, Excuse
    <2>4. fetched[st].ver <= registry[s].ver
      BY <1>1, <2>1 DEF K8sInv, ReadInv, HandlerRead
    <2>5. fetched[st].ver = registry[s].ver
      BY <1>1, <2>2, <2>3, <2>4 DEF TypeOK, Contents
    <2>6. WillHave(o, fetched[st].ver)
      BY <1>1, <2>1, <2>2 DEF K8sInv, ClientInv, JoiningFor, Joining
    <2>7. PICK v : v = registry[s].ver
      OBVIOUS
    <2>8. WillHave(o, v)'
      BY <1>5, <2>5, <2>6, <2>7
    <2> QED
      BY <1>1, <2>7, <2>8
  <1> QED
    BY <1>6, <1>7

(* An update that is skipped is not the last one; one that is let through  *)
(* is the one the stream has had last.                                     *)
LEMMA ReceiveKeeps ==
    ASSUME K8sInv, NEW st \in Streams, Receive(st), NEW o \in Observers, o[1] = st,
           NEW v, WillHave(o, v)
    PROVE  WillHave(o, v)'
  <1> DEFINE spec == SpecOf(o)
             q == notifyCh[st]
             last == LastGot(o)
  <1>1. /\ TypeOK /\ HubInv /\ UniqueFor(st)
        /\ spec \in Specs /\ spec' = spec
        /\ pc[st] = "serve" /\ q # <<>> /\ notifyCh'[st] = Tail(q)
        /\ UNCHANGED <<notifier, at, sent>>
        /\ maxIds[st][spec] \in Nat
        /\ last = sent[st][spec]
        /\ ~AtNotify(o)
    BY ObserverFacts DEF K8sInv, HubInv, IdInv, IdsUnique, TypeOK, Receive, SpecOf, LastGot,
       AtNotify
  <1>2. last.id = maxIds[st][spec]
    BY <1>1 DEF K8sInv, GotInv, Got
  <1> PICK got : got = Head(q)
    OBVIOUS
  <1>3. /\ 1 \in DOMAIN q /\ got = q[1] /\ got \in Updates /\ got.id \in Nat /\ got.spec \in Specs
        /\ \A i \in DOMAIN Tail(q) : i + 1 \in DOMAIN q /\ i + 1 # 1 /\ Tail(q)[i] = q[i + 1]
        /\ \A i \in DOMAIN q : i # 1 => i - 1 \in DOMAIN Tail(q) /\ Tail(q)[i - 1] = q[i]
    <2>1. q \in Seq(Updates)
      BY <1>1 DEF TypeOK
    <2>2. got \in Updates
      BY <1>1, <2>1
    <2> QED
      <3> HIDE DEF q
      <3>1. got.id \in Nat /\ got.spec \in Specs
        BY <2>2 DEF Updates
      <3>2. /\ 1 \in DOMAIN q /\ got = q[1]
            /\ \A i \in DOMAIN Tail(q) : i + 1 \in DOMAIN q /\ i + 1 # 1 /\ Tail(q)[i] = q[i + 1]
        BY <1>1, <2>1, TailIndices
      <3>3. \A i \in DOMAIN q : i # 1 => i - 1 \in DOMAIN Tail(q) /\ Tail(q)[i - 1] = q[i]
        BY <1>1, <2>1
      <3> QED
        BY <2>2, <3>1, <3>2, <3>3
  <1>4. \/ /\ got.id >= maxIds[st][got.spec]
           /\ pc'[st] = "send" /\ cur'[st] = got
           /\ maxIds'[st][got.spec] = got.id
           /\ \A sp \in Specs \ {got.spec} : maxIds'[st][sp] = maxIds[st][sp]
        \/ /\ ~(got.id >= maxIds[st][got.spec])
           /\ UNCHANGED <<maxIds, cur, pc>>
    <2>1. \/ /\ got.id >= maxIds[st][got.spec]
             /\ maxIds' = [maxIds EXCEPT ![st][got.spec] = got.id]
             /\ cur' = [cur EXCEPT ![st] = got]
             /\ pc' = [pc EXCEPT ![st] = "send"]
          \/ /\ ~(got.id >= maxIds[st][got.spec])
             /\ UNCHANGED <<maxIds, cur, pc>>
      BY DEF Receive, IsFresh, GoTo
    <2> QED
      BY <1>1, <1>3, <2>1 DEF TypeOK
  <1>5. ~AtNotify(o)'
    BY <1>1, <1>4 DEF AtNotify
  <1>6. \A w : OnTheWay(o, w)' => OnTheWay(o, w)
    BY <1>1, <1>3, <1>5 DEF OnTheWay
  <1>7. \A w : OnTheWay(o, w) => OnTheWay(o, w)' \/ (w = got /\ got.spec = spec)
    <2> TAKE w
    <2> HAVE OnTheWay(o, w)
    <2>1. CASE \E i \in DOMAIN q : w = q[i] /\ w.spec = spec
      <3>1. PICK i \in DOMAIN q : w = q[i] /\ w.spec = spec
        BY <2>1
      <3>2. CASE i = 1
        BY <1>3, <3>1, <3>2
      <3>3. CASE i # 1
        <4>1. i - 1 \in DOMAIN notifyCh'[st] /\ w = notifyCh'[st][i - 1]
          BY <1>1, <1>3, <3>1, <3>3
        <4> QED
          BY <1>1, <3>1, <4>1 DEF OnTheWay
      <3> QED
        BY <3>2, <3>3
    <2>2. CASE \E k \in Slots : notifier[o][k].pc = "send" /\ w = notifier[o][k].up
      BY <1>1, <2>2 DEF OnTheWay
    <2> QED
      BY <1>1, <2>1, <2>2 DEF OnTheWay
  <1>8. PICK up \in Updates : /\ up.ver = v
                              /\ OnTheWay(o, up) \/ up = last
                              /\ up.id >= maxIds[st][spec]
                              /\ \A w \in Updates : OnTheWay(o, w) => w.id <= up.id
    BY <1>1 DEF WillHave
  <1>9. up.id \in Nat
    BY <1>8 DEF Updates
  <1>10. got.spec = spec => OnTheWay(o, got) /\ got.id # maxIds[st][spec]
    <2>1. got.id # maxIds[st][spec]
      BY <1>1, <1>3 DEF UniqueFor
    <2> QED
      BY <1>1, <1>3, <2>1 DEF OnTheWay
  <1> HIDE DEF q, last
  <1>11. OnTheWay(o, up)' \/ up = LastGot(o)'
    <2>1. CASE got.spec = spec /\ got.id >= maxIds[st][spec]
      <3>1. LastGot(o)' = got
        BY <1>1, <1>4, <2>1 DEF LastGot
      <3>2. got.id <= up.id /\ got.id # maxIds[st][spec]
        BY <1>3, <1>8, <1>10, <2>1
      <3>3. up # last
        BY <1>1, <1>2, <1>3, <1>9, <2>1, <3>2
      <3> QED
        BY <1>7, <1>8, <3>1, <3>3
    <2>2. CASE ~(got.spec = spec /\ got.id >= maxIds[st][spec])
      <3>1. LastGot(o)' = last
        BY <1>1, <1>4, <2>2 DEF LastGot
      <3>2. CASE up = last
        BY <3>1, <3>2
      <3>3. CASE OnTheWay(o, up)
        <4>1. ~(up = got /\ got.spec = spec)
          BY <1>8, <2>2
        <4> QED
          BY <1>7, <3>3, <4>1
      <3> QED
        BY <1>8, <3>2, <3>3
    <2> QED
      BY <2>1, <2>2
  <1>12. up.id >= maxIds'[st][spec]
    <2>1. CASE maxIds'[st][spec] = maxIds[st][spec]
      BY <1>8, <2>1
    <2>2. CASE got.spec = spec /\ maxIds'[st][spec] = got.id
      BY <1>3, <1>8, <1>9, <1>10, <2>2
    <2> QED
      BY <1>1, <1>4, <2>1, <2>2
  <1>13. \A w \in Updates : OnTheWay(o, w)' => w.id <= up.id
    BY <1>6, <1>8
  <1> QED
    BY <1>1, <1>8, <1>11, <1>12, <1>13 DEF WillHave

LEMMA OwnReceive ==
    ASSUME K8sInv, NEW st \in Streams, Receive(st), UNCHANGED k8sVars,
           NEW o \in Observers, o[1] = st
    PROVE  JoiningFor(o)' /\ ToldFor(o)'
  <1>1. pc[st] = "serve" /\ pc'[st] \in {"serve", "send"}
    <2>1. \/ pc' = pc
          \/ pc' = [pc EXCEPT ![st] = "send"]
      BY DEF Receive, GoTo
    <2> QED
      BY <2>1 DEF K8sInv, HubInv, TypeOK, Receive
  <1>2. Handles(st) /\ ~ObserveLate(st)
    BY <1>1 DEF Handles, K8sHandlerStep, ObserveLate, AddObserve
  <1>3. \A v : WillHave(o, v) => WillHave(o, v)'
    BY ReceiveKeeps
  <1> QED
    BY <1>1, <1>2, <1>3, OwnKept DEF JoiningFor, Joining

LEMMA OwnSendOk ==
    ASSUME K8sInv, NEW st \in Streams, SendOk(st), UNCHANGED k8sVars,
           NEW o \in Observers, o[1] = st
    PROVE  JoiningFor(o)' /\ ToldFor(o)'
  <1>1. /\ pc[st] = "send" /\ pc'[st] = "serve"
        /\ UNCHANGED <<notifyCh, notifier, maxIds>>
        /\ SpecOf(o) \in Specs /\ SpecOf(o)' = SpecOf(o)
    BY ObserverFacts DEF K8sInv, HubInv, TypeOK, SendOk, GoTo, notifyVars, SpecOf
  <1>2. Handles(st) /\ ~ObserveLate(st)
    BY <1>1 DEF Handles, K8sHandlerStep, ObserveLate, AddObserve
  <1>3. LastGot(o)' = LastGot(o)
    <2>1. sent' = [sent EXCEPT ![st][cur[st].spec] = cur[st]]
      BY DEF SendOk
    <2>2. cur[st].spec \in Specs
      BY <1>1, IdTypes DEF K8sInv, HubInv
    <2>3. sent \in [Streams -> [Specs -> Updates \cup {NoUpdate}]]
      BY DEF K8sInv, HubInv, TypeOK
    <2>4. sent'[st][SpecOf(o)] =
            IF cur[st].spec = SpecOf(o) THEN cur[st] ELSE sent[st][SpecOf(o)]
      BY <1>1, <2>1, <2>2, <2>3
    <2> QED
      BY <1>1, <2>4 DEF LastGot
  <1>4. ~AtNotify(o) /\ ~AtNotify(o)'
    BY <1>1 DEF AtNotify
  <1>5. \A v : WillHave(o, v) => WillHave(o, v)'
    BY <1>1, <1>3, <1>4, StillOnTheWay
  <1> QED
    BY <1>1, <1>2, <1>5, OwnKept DEF JoiningFor, Joining

LEMMA K8sHandler ==
    ASSUME K8sInv, NEW st \in Streams, Handles(st)
    PROVE  K8sTypes' /\ ReadInv' /\ CarriedInv' /\ GotInv' /\ ClientInv'
  <1>1. ASSUME NEW o \in Observers, o[1] = st PROVE JoiningFor(o)' /\ ToldFor(o)'
    BY <1>1, OwnQuiet, OwnRegister, OwnAddNotify, OwnObserve, OwnReceive, OwnSendOk
    DEF Handles, K8sHandlerStep
  <1>2. ClientInv'
    BY <1>1, HandlesOthers DEF ClientInv
  <1> QED
    BY <1>2, HandlesReads, HandlesCarries, HandlesGot
LEMMA K8sInvNext == K8sInv /\ [K8sNext]_allVars => K8sInv'
  <1> SUFFICES ASSUME K8sInv, [K8sNext]_allVars PROVE K8sInv'
    OBVIOUS
  <1>1. TypeOK /\ HubInv /\ K8sTypes
    BY DEF K8sInv, HubInv
  <1>2. HubInv'
    BY <1>1, HubKeeps
  <1> SUFFICES K8sTypes' /\ ReadInv' /\ CarriedInv' /\ GotInv' /\ ClientInv'
    BY <1>2 DEF K8sInv
  <1>3. CASE Feeds
    BY <1>3, FeedsRead, FeedsCarry, FeedsClients
  <1>4. ASSUME NEW s \in Services,
               \/ \E insts \in SUBSET Instances : PutObject(s, insts)
               \/ DeleteObject(s) \/ Relist(s) \/ Resync(s)
        PROVE  Feeds
    <2>1. CASE (\E insts \in SUBSET Instances : PutObject(s, insts)) \/ DeleteObject(s)
      BY <2>1 DEF PutObject, DeleteObject, Feeds
    <2>2. CASE Relist(s) \/ Resync(s)
      BY <1>1, <2>2, RelistSees, ResyncSees DEF Feeds
    <2> QED
      BY <1>4, <2>1, <2>2
  <1>5. CASE InformerStep
    BY <1>3, <1>5, K8sApply DEF InformerStep, Feeds
  <1>6. CASE \E o \in Observers, k \in Slots : K8sNotifierStep(o, k)
    BY <1>6, K8sNotifier
  <1>7. CASE \E st \in Streams : Handles(st)
    BY <1>7, K8sHandler
  <1>8. CASE K8sSettled \/ UNCHANGED allVars
    <2>1. UNCHANGED <<vars, k8sVars>>
      BY <1>8 DEF K8sSettled, Settled, allVars
    <2>2. K8sTypes' /\ ReadInv' /\ GotInv'
      BY <2>1 DEF K8sInv, K8sTypes, ReadInv, StoreRead, InformerRead, HandlerRead, ReadOf,
         GotInv, Got, SpecAt, vars, k8sVars
    <2>3. CarriedInv'
      BY <2>1 DEF K8sInv, CarriedInv, Carries, Observed, SpecAt, SpecOf, vars
    <2>4. ASSUME NEW o \in Observers PROVE JoiningFor(o)' /\ ToldFor(o)'
      <3>1. K8sVarsStay /\ Elsewhere(o) /\ UNCHANGED <<services, stopped, fetched, excused, updater, notifier>>
        BY <2>1 DEF K8sVarsStay, Elsewhere, vars, k8sVars
      <3>2. \A b \in Observers : Observed(b)' <=> Observed(b)
        BY <3>1 DEF Observed, SpecOf
      <3>3. ObserversStay
        BY <3>1, <3>2 DEF ObserversStay
      <3>4. (Starting(o) => Starting(o)') /\ (Working(o) => Working(o)')
        BY <3>1 DEF Starting, Working, K8sVarsStay, SpecOf
      <3>5. fetched'[o[1]] = fetched[o[1]] /\ (Observed(o)' => Observed(o))
        BY <3>1, <3>2
      <3>6. <<o[1], SpecOf(o)>> \in excused => <<o[1], SpecOf(o)>> \in excused'
        BY <3>1
      <3> QED
        BY <3>1, <3>3, <3>4, <3>5, <3>6, OtherClient
    <2>5. ClientInv'
      BY <2>4 DEF ClientInv
    <2> QED
      BY <2>2, <2>3, <2>5
  <1> QED
    BY <1>3, <1>4, <1>5, <1>6, <1>7, <1>8 DEF K8sNext, Handles

(* When nothing is on its way any more, the last one has been sent. *)
LEMMA QuietIsExplained == K8sInv => StaleIsExplained
  <1> SUFFICES ASSUME K8sInv, NEW o \in Observers,
                      Quiet(o), Observed(o), AskedOnce(o),
                      services[SpecOf(o).svc].spec = SpecOf(o),
                      Select(SpecOf(o), registry[SpecOf(o).svc].insts) # {},
                      told[SpecOf(o).svc] = registry[SpecOf(o).svc].ver,
                      <<o[1], SpecOf(o)>> \notin excused
               PROVE  sent[o[1]][SpecOf(o)].ver = registry[SpecOf(o).svc].ver
    BY DEF StaleIsExplained
  <1>1. /\ pc[o[1]] = "serve" /\ notifyCh[o[1]] = <<>>
        /\ \A k \in Slots : notifier[o][k] = Idle
        /\ updater[Watcher].pc = "idle"
    BY DEF Quiet
  <1>2. Told(o) /\ ToldFor(o)
    BY <1>1 DEF Told, K8sInv, ClientInv
  <1>3. ~Starting(o) /\ ~Working(o)
    BY <1>1 DEF Starting, Working, Idle
  <1>4. \A w : ~OnTheWay(o, w)
    BY <1>1 DEF OnTheWay, AtNotify, Idle
  <1>5. LastGot(o) = sent[o[1]][SpecOf(o)]
    BY <1>1 DEF LastGot
  <1> QED
    BY <1>2, <1>3, <1>4, <1>5 DEF ToldFor, WillHave

LEMMA K8sInvHolds == K8sSpec => []K8sInv
  BY K8sInvInit, K8sInvNext, PTL DEF K8sSpec

(* Within Kubernetes a client that asks for its service once, and whose    *)
(* list is old though nothing is under way, has not been told because the  *)
(* object came as an addition, or because the update passed it in          *)
(* AddObserver or was overtaken: no list gets lost in the informer, the    *)
(* hub, a notifier, a channel or the handler.                              *)
THEOREM StaleIsAlwaysExplained == K8sSpec => []StaleIsExplained
  BY K8sInvHolds, QuietIsExplained, PTL

(* The hub's own promises do not depend on where the lists come from: its  *)
(* types, its ids, and what a Resolve leaves behind, within Kubernetes.    *)
THEOREM HubHoldsWithinK8s ==
    K8sSpec => [](TypeOK /\ IdsUnique /\ EndedLeavesNothing /\ ServedIsObserved)
  <1>1. K8sInv => TypeOK /\ IdsUnique /\ EndedLeavesNothing /\ ServedIsObserved
    BY DEF K8sInv, HubInv, IdInv, JoinInv, Joins, Leaves, HasJoined, EndedLeavesNothing,
       ServedIsObserved
  <1> QED
    BY K8sInvHolds, <1>1, PTL

(* Nor does Resolve within Kubernetes send an update whose id is not       *)
(* larger: the informer hands out ids by the same counter.                 *)
THEOREM SentIdsIncreaseWithinK8s == K8sSpec => SentIdsIncrease
  <1>1. ASSUME K8sInv, [K8sNext]_allVars PROVE [SentRise]_vars
    <2>1. HubInv /\ IdInv /\ TypeOK /\ K8sTypes
      BY <1>1 DEF K8sInv, HubInv
    <2>2. CASE [Next]_vars
      BY <2>1, <2>2, SentRises
    <2>3. CASE Feeds \/ ReadFails
      <3>1. UNCHANGED sent
        BY <2>3, FeedsLeave DEF ReadFails, FetchK8sError, streamVars
      <3> QED
        BY <3>1 DEF SentRise
    <2> QED
      BY <1>1, <2>1, <2>2, <2>3, K8sStep
  <1>2. K8sInv /\ [K8sNext]_allVars => [SentRise]_vars
    BY <1>1
  <1>3. K8sSpec => [][SentRise]_vars
    BY K8sInvHolds, <1>2, PTL DEF K8sSpec
  <1> QED
    BY <1>3 DEF SentRise, SentIdsIncrease
=============================================================================
