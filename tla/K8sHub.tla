------------------------------- MODULE K8sHub -------------------------------
(***************************************************************************)
(* The endpoints hub within Kubernetes (hub/k8s.go, --within-k8s).         *)
(*                                                                         *)
(* Lists come from the Endpoints objects of the API server instead of      *)
(* etcd.  There is no main watcher and no rectifier: one goroutine, the    *)
(* informer of the Kubernetes library, keeps a store of the objects and    *)
(* calls UpdateFunc for an object that was in it before.  AddFunc and      *)
(* DeleteFunc are empty.  Every 60 seconds it calls UpdateFunc for all of  *)
(* the store.                                                              *)
(*                                                                         *)
(* From applyEndpoints on everything is that of EndpointsHub.  registry is *)
(* what the API server has, Watcher is the informer.                       *)
(***************************************************************************)
EXTENDS EndpointsHub

CONSTANT NoObject  \* there is no Endpoints object of a service

ASSUME NoObjectAssumption == NoObject \notin Contents

VARIABLES
    objects,  \* the services that have an object in the API server
    store,    \* per service, the object in the informer's store
    deltas,   \* per service, what the informer will see, oldest first
    told,     \* per service, the version UpdateFunc got last (history)
    excused   \* streams and specs an update has passed by (history)

apiVars == <<objects, deltas>>
historyVars == <<told, excused>>
k8sVars == <<objects, store, deltas, told, excused>>
allVars == <<vars, k8sVars>>

K8sInit ==
    /\ Init
    /\ objects = {}
    /\ store = [s \in Services |-> NoObject]
    /\ deltas = [s \in Services |-> <<>>]
    /\ told = [s \in Services |-> 0]
    /\ excused = {}

-----------------------------------------------------------------------------
(* The API server and the part of the informer that listens to it.         *)

ObjectChange(s, insts, exists) ==
    /\ registry[s].ver < MaxVersion
    /\ registry' = [registry EXCEPT ![s] = [insts |-> insts, ver |-> @.ver + 1]]
    /\ objects' = IF exists THEN objects \cup {s} ELSE objects \ {s}
    /\ deltas' = [deltas EXCEPT ![s] = Append(@, IF exists THEN registry'[s] ELSE NoObject)]
    /\ UNCHANGED <<events, updaterVars, hubVars, notifyVars, streamVars, store, historyVars>>

PutObject(s, insts) == ObjectChange(s, insts, TRUE)
DeleteObject(s) == s \in objects /\ ObjectChange(s, {}, FALSE)

(* What the informer is to see changes without a change of the object. *)
SeeAgain(s, seen) ==
    /\ ticks[s] < MaxTicks
    /\ ticks' = [ticks EXCEPT ![s] = @ + 1]
    /\ deltas' = [deltas EXCEPT ![s] = seen]
    /\ UNCHANGED <<etcdVars, updater, hubVars, notifyVars, streamVars, objects, store,
                   historyVars>>

(* The watch breaks: changes not received yet are replaced by what there   *)
(* is when the objects are listed again.                                   *)
Relist(s) ==
    /\ EventsMayBeLost
    /\ \E n \in 0..Len(deltas[s]) :
            SeeAgain(s, SubSeq(deltas[s], 1, n)
                        \o <<IF s \in objects THEN registry[s] ELSE NoObject>>)

(* resyncPeriod: the object of the store once more. *)
Resync(s) == store[s] # NoObject /\ SeeAgain(s, <<store[s]>> \o deltas[s])

-----------------------------------------------------------------------------
(* The informer's goroutine. *)

OldObject(s) == store[s]  \* mutant: oldObj
(* newObj *)
NewObject(s) == Head(deltas[s])

(* The object gets into the store or out of it; AddFunc and DeleteFunc do  *)
(* nothing with it.                                                        *)
AddOrDelete(s) ==
    /\ updater[Watcher].pc = "idle"
    /\ deltas[s] # <<>>
    /\ NoObject \in {store[s], Head(deltas[s])}
    /\ store' = [store EXCEPT ![s] = Head(deltas[s])]
    /\ deltas' = [deltas EXCEPT ![s] = Tail(@)]
    /\ UNCHANGED <<vars, objects, historyVars>>

(* UpdateFunc. *)
Update(s) ==
    /\ updater[Watcher].pc = "idle"
    /\ deltas[s] # <<>>
    /\ NoObject \notin {store[s], Head(deltas[s])}
    /\ store' = [store EXCEPT ![s] = Head(deltas[s])]
    /\ deltas' = [deltas EXCEPT ![s] = Tail(@)]
    /\ updater' = [updater EXCEPT ![Watcher] =
                        [pc |-> "lookup", svc |-> s, reg |-> NewObject(s)]]
    /\ told' = [told EXCEPT ![s] = Head(deltas[s]).ver]
    /\ UNCHANGED <<etcdVars, ticks, hubVars, notifyVars, streamVars, objects, excused>>

AfterK8sLookup(so) == IF so = NoService THEN "idle" ELSE "apply"

(* applyK8sEndpoints looks the service up under the hub's read lock. *)
ApplyK8sEndpoints ==
    /\ updater[Watcher].pc = "lookup"
    /\ hubLock = NoStream
    /\ updater' = [updater EXCEPT ![Watcher].pc =
                        AfterK8sLookup(services[updater[Watcher].svc])]
    /\ UNCHANGED <<etcdVars, ticks, hubVars, notifyVars, streamVars, k8sVars>>

InformerStep ==
    \/ \E s \in Services : AddOrDelete(s) \/ Update(s)
    \/ ApplyK8sEndpoints
    \/ Apply(Watcher) /\ UNCHANGED k8sVars

-----------------------------------------------------------------------------
(* AddObserver, and the notifiers with what is remembered of them.         *)

(* fetchK8sEndpoints lists the namespace and looks for the service.        *)
FetchK8s(st) ==
    /\ SpecAt(st).svc \in objects
    /\ AddFetch(st)
    /\ UNCHANGED k8sVars

(* The list fails, or has no such service: AddObserver returns an error.   *)
FetchK8sError(st) ==
    /\ pc[st] = "fetch"
    /\ FetchMayFail \/ SpecAt(st).svc \notin objects
    /\ GoTo(st, "failed")
    /\ UNCHANGED <<etcdVars, updaterVars, hubVars, notifyVars, at, fetched, cur,
                   maxIds, sent, k8sVars>>

Excuse(st, spec, passed) ==
    excused' = IF passed THEN excused \cup {<<st, spec>>} ELSE excused \ {<<st, spec>>}

(* An update came between the read and this step: there was nobody for it. *)
ObserveLate(st) ==
    /\ AddObserve(st)
    /\ Excuse(st, SpecAt(st), told[SpecAt(st).svc] > fetched[st].ver)
    /\ UNCHANGED <<objects, store, deltas, told>>

(* An older list draws a larger id than a newer one. *)
TakeIdLate(o, k) ==
    LET up == notifier[o][k].up
    IN  /\ NotifyTakeId(o, k)
        /\ Excuse(o[1], up.spec, up.ver < told[up.spec.svc])
        /\ UNCHANGED <<objects, store, deltas, told>>

K8sNotifierStep(o, k) ==
    \/ TakeIdLate(o, k)
    \/ (NotifySend(o, k) \/ NotifyStop(o, k)) /\ UNCHANGED k8sVars

K8sHandlerStep(st) ==
    \/ FetchK8s(st) \/ FetchK8sError(st) \/ ObserveLate(st)
    \/ /\ \/ AddRegister(st) \/ AddNotify(st)
          \/ Receive(st) \/ SendOk(st) \/ SendFail(st) \/ Remove(st)
       /\ UNCHANGED k8sVars

K8sSettled ==
    /\ Settled
    /\ \A s \in Services : deltas[s] = <<>>
    /\ UNCHANGED k8sVars

K8sNext ==
    \/ \E s \in Services :
        \/ \E insts \in SUBSET Instances : PutObject(s, insts)
        \/ DeleteObject(s) \/ Relist(s) \/ Resync(s)
    \/ InformerStep
    \/ \E o \in Observers, k \in Slots : K8sNotifierStep(o, k)
    \/ \E st \in Streams :
        \/ (Resolve(st) \/ AutoDisconnect(st)) /\ UNCHANGED k8sVars
        \/ K8sHandlerStep(st)
    \/ K8sSettled

K8sSpec == K8sInit /\ [][K8sNext]_allVars

(* As in EndpointsHub; the informer is a goroutine like the others. *)
K8sFairSpec ==
    /\ K8sSpec
    /\ WF_allVars(InformerStep)
    /\ \A o \in Observers, k \in Slots : WF_allVars(K8sNotifierStep(o, k))
    /\ \A st \in Streams : WF_allVars(K8sHandlerStep(st))

-----------------------------------------------------------------------------
(* Properties. *)

(* Nothing that was read or noticed is still on its way to a client. *)
Quiet(o) ==
    /\ pc[o[1]] = "serve"
    /\ notifyCh[o[1]] = <<>>
    /\ \A b \in Observers, k \in Slots : b[1] = o[1] => notifier[b][k] = Idle
    /\ updater[Watcher].pc = "idle"
    /\ deltas[SpecOf(o).svc] = <<>>

(* The observer's stream asks for its service once. *)
AskedOnce(o) ==
    \A i \in DOMAIN Request[o[1]] : Request[o[1]][i].svc = SpecOf(o).svc => i = o[2]

(* A client whose list is old though nothing is under way has been told    *)
(* nothing of the newest object because it came to the informer as an      *)
(* addition (AddFunc is empty), or because the update passed AddObserver   *)
(* between its read and the append of the observer, or was overtaken by    *)
(* an older one.  Nothing else gets lost; the next resync tells it.        *)
(* This is about a client that asks for the service once: the lists it     *)
(* would get twice overtake each other in more ways.                       *)
StaleIsExplained ==
    \A o \in Observers :
        LET spec == SpecOf(o)
            s == spec.svc
        IN  /\ Quiet(o)
            /\ Observed(o)
            /\ AskedOnce(o)
            /\ services[s].spec = spec
            /\ Select(spec, registry[s].insts) # {}
            => \/ sent[o[1]][spec].ver = registry[s].ver
               \/ told[s] # registry[s].ver
               \/ <<o[1], spec>> \in excused

(* UpdateFunc has been called for an observed service with the object the  *)
(* API server has, and no older list is waiting for an id.                 *)
Updating(o, v) ==
    LET s == SpecOf(o).svc
    IN  /\ updater[Watcher].pc = "apply"
        /\ updater[Watcher].svc = s
        /\ updater[Watcher].reg.ver = v
        /\ registry[s].ver = v
        /\ Observed(o)
        /\ services[s].spec = SpecOf(o)
        /\ \A k \in Slots : notifier[o][k].pc = "start" => notifier[o][k].up.ver >= v

(* Without a rectifier it is the resync that makes up for what was missed: *)
(* a call of UpdateFunc that nothing disturbs brings every observer that   *)
(* is still there a list at least as new, unless the list is empty.        *)
UpdateDelivers ==
    \A o \in Observers, v \in 1..MaxVersion :
        Updating(o, v) /\ Select(SpecOf(o), updater[Watcher].reg.insts) # {}
            ~> Knows(o, v) \/ Left(o)
=============================================================================
