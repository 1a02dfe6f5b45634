# SkyLB in TLA+

Specifications of SkyLB, the external load balancer and name service of the
repository: servers report themselves to SkyLB over gRPC, SkyLB keeps them in
etcd with a TTL, and tells gRPC clients which instances of a service are alive.

## 1. The system

| Component | Code | State it keeps | Operations | Module |
|---|---|---|---|---|
| Endpoints hub | `hub/hub.go`, `hub/observer.go`, `hub/endpoints.go` | `services` (spec, endpoints, observers of each service), `nextUpdateId`, one channel and one `stopCh` per observer | main watcher, rectifiers, `AddObserver`, `RemoveObserver`, `applyEndpoints` | `EndpointsHub` |
| Resolve handler | `rpc/server.go` 136-275 | `maxIds`, timers, the stream | subscribe, forward updates, time out, disconnect | `EndpointsHub` |
| Load reports | `rpc/server.go` 277-347, `hub/hub.go` 129-155, `hub/key.go` | one `first` flag per stream; keys with TTL in etcd | insert, refresh, re-set, lame duck mask | `LoadReport` |
| Graph tracking | `hub/hub.go` 334-391 | `graphKeys`; keys with TTL in etcd | track, untrack, periodic refresh | `GraphTracking` |
| Service graph | `hub/svcgraph.go`, `cmd/webserver/svclist/etcdop.go` 87-120 | `latestCallers`, `callingMap`, `SimpleCallingMap` | record, finish, build, roots, walk | `CallGraph` |
| Kubernetes mode | `hub/k8s.go` | the informer's store | update handler, list | `K8sHub`, which extends `EndpointsHub` |
| Observer objects | `hub/model/*.go` | service object with lock, observers with lock, rectifier goroutine | add, remove, set, notify, close | `ModelService` |
| Bridge | `cmd/skybridge/bridge.go` | none of its own; a copy of one etcd in another | initial copy, watch | `SkyBridge` |
| Command line tool | `cmd/skylb-command`, `cmd/etcdloader` | per shell: current service, port name, the listings it was last shown | list, select, add, remove after a prompt | `SkylbCommand` |
| Dashboard users | `dashboard/db/users.go`, `dashboard/users.go`, `dashboard/login.go` | user rows with a version, sessions | log in, merge roles, upsert, log out | `Dashboard` |
| Dashboard views | `dashboard/instance.go`, `lameduck.go`, `services.go` | none | mark endpoints; read etcd and render | `Dashboard` (what changes something) |
| Dashboard database helpers | `dashboard/db/logs.go`, `tx.go`, `conf.go` | log rows | transaction, insert, list | `Dashboard` (log and transactions) |
| Dashboard scripts | `dashboard/scripts` | none | render in the browser | not modelled |
| Web server | `cmd/webserver`, `cmd/webserver/svclist` | none | list services, dependencies, lame duck | `Dashboard` (marks), `CallGraph` (dependencies) |
| Health checker | `cmd/grpchealth`, `cmd/healthcmd` | none | probe, exit code | not modelled |
| Metrics, flags, logging, start-up | `cmd/skylb/main.go`, prometheus code | counters | - | not modelled: no control depends on it |

`Directory` is not a component: it is the abstract specification of what the
hub and `Resolve` promise together.

External, and modelled only as far as this code relies on it: etcd v2 (keys,
directories, TTLs, watchers whose history can be cleared), the Kubernetes API,
gRPC streams, LDAP and SQL, the `skylb-api` library (lame duck set, prefixes).

How they interact. `ReportLoad` and the command line tool write keys
`<endpoints>/<namespace>/<service>/<host>_<port>` in etcd. etcd raises watch
events; the hub's main watcher turns each into a full read of the service's
directory and hands the list to every observer of the service. A rectifier
goroutine per service does the same every `--auto-rectify-interval`. Each
`Resolve` stream registers one observer per requested spec and forwards what
comes through its channel. Lame duck marks live in etcd too; a second watcher
mirrors them for `ReportLoad`. `Resolve` also records who calls whom; the
dashboard and the web server read that graph. The command line tool edits the
registry by hand; the dashboard and the web server set lame duck marks.

What is hard. Several goroutines apply updates of one service with no order
between them; update ids are drawn by goroutines that may run in any order;
`AddObserver` sends to a channel while it holds the hub's write lock and reads
etcd before it registers; observers are removed by address rather than by
identity; keys expire while somebody still wants them; watchers lose events;
an operator acts on a listing nobody refreshes, a session on the rights it had
when it began.
`PROJECT.json` lists every such place under `hazards`, with the properties
that watch it or the reason why none does yet. Where the code goes wrong and
no run shows it, the property of that place excepts the case and says that
there is no other; the hazard's `note` tells which case.

What makes each component correct:

- hub and `Resolve`: update ids are unique and a client gets them in increasing
  order; a client is told of the newest list after an undisturbed rectification;
  a stream that has ended leaves no observer and no goroutine; a stream that
  serves is observed; whatever a client is told was read from the registry, for
  a service it asked for;
- load reports: the key of a reporting server stays alive unless it is a lame
  duck, and is gone a TTL after the last report;
- graph tracking: the key of a caller that is connected stays alive;
- service graph: the graph is that of the newest records (if they come in order),
  roots are never called;
- observer objects: a rectifier while there are observers, none otherwise (which
  the code does not keep, see 8); the newest list is offered to every observer and
  nothing to a closed one;
- bridge: the copy converges to the original while it is connected, but for the
  changes the bridge misses;
- command line tool: a server's key is not deleted unless the server set it after
  the look at its TTL (the tool does not look again after the prompt); an index
  into a listing selects what the listing showed; an operator's "add" replaces
  nothing;
- dashboard: nobody gives himself the right to save users; the log names
  administrators only and claims nothing that was not done.

## 2. Plan

1. `EndpointsHub`: the hub and `Resolve`; `EndpointsHubProofs` (types, ids). Done.
2. `LoadReport`: report streams, TTL, lame duck marks and their watcher;
   `LoadReportProofs`. Done.
3. `GraphTracking`: tracked keys, refresh loop, TTL; `GraphTrackingProofs`. Done.
4. `CallGraph`: recording, roots and walk against a definition of the graph
   that the documentation asks for; `CallGraphProofs`. Done.
5. `SkyBridge`: the copy of one etcd in another; `SkyBridgeProofs`. Done.
6. `ModelService`: the observer objects of `hub/model` with their two locks;
   `ModelServiceProofs`. Done.
7. `SkylbCommand` and `Dashboard`, each with its proofs. Done.
8. `Directory`, which `EndpointsHub` implements under a refinement mapping; the
   observer invariants and the refinement in `EndpointsHubProofs`. Done.
9. `K8sHub`: the hub with the informer of Kubernetes in place of the main watcher
   and the rectifiers; its theorems are in `EndpointsHubProofs` too, because they
   rest on those of the hub. Done.
10. Left: the composition of `LoadReport` with the hub through the registry of
   etcd; a directory that `K8sHub` implements.

No module to prove about declares a `RECURSIVE` operator.

## 3. EndpointsHub

State: `registry` (per service, the instances in its etcd directory and the
directory's modification index `ver`), `events` (watch events the watcher has
not read), `updater` (per watcher and rectifier: `idle`, `lookup`, `fetch`,
`apply` and what it has read), `services` (the map `eh.services`), `hubLock`
(who holds the hub's write lock across a blocking step), `nextUpdateId`,
`notifier` (the goroutines of `applyEndpoints`: `start` before the id is
drawn, `send` while it waits at its `select`), `notifyCh`, `stopped` (closed
`stopCh`s), and per stream the place of its handler (`pc`, `at`), what
`AddObserver` has read (`fetched`), the update in its hands (`cur`), `maxIds`
and `sent`, the last update the client got per spec.

| Action | Code |
|---|---|
| `SetKey`, `DropKey` | a server's key is set (again), expires or is deleted; one watch event |
| `LoseEvents` | `ErrorCodeEventIndexCleared`: a new watcher starts from now |
| `WatchNext` | `startMainWatcher`, `extractUpdates` |
| `RectifyTick` | the ticker goroutine `AddObserver` starts with a service object |
| `Lookup`, `Fetch`, `FetchError`, `Apply` | `updateEndpoints`, `fetchEndpoints`, `applyEndpoints` |
| `NotifyTakeId`, `NotifySend`, `NotifyStop` | the goroutine of `applyEndpoints` |
| `Resolve`, `AddFetch`, `AddFetchError`, `AddRegister`, `AddNotify`, `AddObserve` | `Resolve` up to its loop and `AddObserver`, one iteration per spec |
| `Receive`, `SendOk`, `SendFail`, `AutoDisconnect`, `Remove` | the loop of `Resolve` and the deferred `RemoveObserver` |
| `Settled` | no code: a stutter that marks the orderly end of a bounded run, so that TLC's deadlock check finds stuck goroutines |

Abstractions. An endpoint is a member of `Instances`; `PortOf` gives the port
name it registers under, and `Select` is what `skypbEndpointsToMap` and
`skypbEndpointsToSlice` keep for a spec. Weights and labels are left out: a
server that comes back with another weight is a `SetKey` of a member, which
raises an event and a new `ver`. `ver` travels with every list as a ghost. The
first update of `AddObserver` goes through `diffEndpoints(spec, nil, m)`, which
returns all of `m`. The locks of service objects, and the read lock of the
hub, are held over one step each; only `AddObserver` blocks with a lock in
hand, and `hubLock` shows it. A notifier that finds its list empty returns at
once and is not modelled. `Send` that times out may still reach the client
after the handler is gone; nobody looks at that client again. Graph tracking,
called at both ends of `Resolve`, shares no state with the hub and is a
component of its own.

Bounds: `MaxVersion` (changes per service), `MaxTicks` (rectifications per
service), `Slots` (notifiers per observer; as many as there can be updates, so
it never binds), and `ChanCapMultiplication`, 10 in the code and 1 or 2 here so
that channels fill up.

Fairness: every goroutine that can run eventually does (Go's scheduler), etcd
requests and `Send` come back (with a result or an error). No fairness for the
registry, client calls, ticks, the auto-disconnect timer, or losing events.

### Runs

| Run | Instance | Shows |
|---|---|---|
| `hub_updates` | 1 stream, 2 instances, 2 changes, 1 tick, channel for one, failing reads, lost events | `TypeOK`; `NotifiersExit` (a full channel and an ended stream do not strand a notifier); `RequestAnswered` (a request for one spec gets its first answer or ends); `RectifyDelivers` (whatever was lost or reordered, one undisturbed tick brings a non-empty list to the client) |
| `hub_streams` | 2 streams on one connection, one of them asks for two port names of the service, an instance under each, 1 change, channel for two | `ImplementsDirectory`, growing ids included; `EndedLeavesNothing` (nothing is left of an ended stream, and no `stopCh` is closed twice); `ServedIsObserved` |

| `hub_old_list` | 1 stream, 1 instance, 2 changes, 1 tick | violation of `NoOlderListSent` |

One run ends in a violation, a disagreement between the code and what the
repository says of it (see `findings`): `hub_old_list`. "Skip the old updates"
compares ids, and ids are drawn when notifiers run, not when lists are read: an
older list can replace a newer one at the client until the next rectification.

`RequestAnswered` is checked for a request of one spec. `AddObserver` for several
specs can block on its own channel with the hub's write lock held, once updates of
the first specs have filled it; nobody reads the channel before it returns, so the
hub is stuck for good. With the 20 places the code gives two specs it takes 19
updates while etcd answers the second read. The model has the step (`AddNotify`
waits with `hubLock` taken), and an instance with two specs and a channel for two
refutes `RequestAnswered`.

`hub_updates`' `RectifyDelivers` assumes what `Rectifying` says: no older list
is waiting for an id, and the service object was created for the observer's
spec. It says nothing of empty lists: `applyEndpoints` does not start a
notifier for one (`hub.go:318`), so that a client whose service has lost its
last instance keeps the list it had, whatever the rectifier does.

`ServedIsObserved` excepts a stream whose connection has another stream that
asked for the same spec and is ending: observers are removed by address and
spec, so that one takes both off the hub, and the stream that stays serves on
and learns nothing until it disconnects.

### Directory

`Directory` says what a client may rely on, without goroutines, locks or
channels: `registry` changes; `Read` puts lists of a service, as they are, under
way, for any spec somebody asked for; `Deliver` gives a client one of them, of a
service it asked for, with a larger id for that spec; `Forget` loses any. So a
list may be late, lost or older than one the client has (see `hub_old_list`), but
it is never made up, mixed of two reads, or of a foreign service.

`ImplementsDirectory == D!Spec` maps `registry` to itself, `known` to `sent`, and
`underway` to `UnderWay`, the lists that wait in an updater about to apply, in
`AddObserver`, in notifiers, channels and the hands of handlers. `SetKey` and
`DropKey` are a `Change`; `Fetch` and `AddFetch` a `Read`; `SendOk` a `Deliver`;
all other steps forget something or stutter.

A list is delivered for its own spec, which need not be the client's:
`serviceMap` is keyed by namespace and name and its object keeps the spec of its
first observer (`so.spec`), for which every later list is made. An observer of
another port name gets its first list for its own port and the lists of events
and rectifiers for the first observer's. `Deliver` allows it, and `hub_streams`,
with two port names of one service, reaches it: that a client is told only of specs
it asked for does not hold.

### K8sHub

With `--within-k8s` the hub has neither main watcher nor rectifiers. Lists come
from the Endpoints objects of the API server, by a list request in `AddObserver`
and from the informer of the Kubernetes library, a goroutine that keeps a `store`
of the objects. `K8sHub` extends `EndpointsHub` and takes over everything from
`applyEndpoints` on; `registry` is what the API server has, with `objects` for
the services that have an object at all, and `deltas` is what the informer will
see. `told` and `excused` are history.

| Action | Code |
|---|---|
| `PutObject`, `DeleteObject`, `Relist`, `Resync` | external: Kubernetes changes an object; the watch breaks and the reflector lists; the resync of every 60 seconds puts an object of the store before what is still to come |
| `AddOrDelete` | the store changes; `AddFunc` and `DeleteFunc` are empty |
| `Update`, `ApplyK8sEndpoints` | `UpdateFunc`, then `applyEndpoints` (`Apply`) |
| `FetchK8s`, `FetchK8sError` | `fetchK8sEndpoints`, which fails for a service without an object |
| `ObserveLate`, `TakeIdLate` | `AddObserve` and `NotifyTakeId` with their history |

| Run | Instance | Shows |
|---|---|---|
| `k8s_informer` | 1 client, 1 instance, 3 changes, a resync or a broken watch, channel for one | `StaleIsExplained`; `UpdateDelivers` |

Three changes let an object be made, deleted and made again. An update reaches
the hub only as the second version of an object the informer has seen, so that a
client can be left with an old list in a way that etcd does not know: the newest
version is an addition to the store. `StaleIsExplained` says that this, an update
that passes `AddObserver`, and notifiers that overtake each other are all; when
nothing is under way, every other client has the newest list that is not empty.
It is about clients whose request names the service once (`AskedOnce`). A stream
may also ask for two port names of a service, or for one twice; the lists that
its two observers are sent share a spec and overtake each other in more ways.
The informer may also be behind the list `AddObserver` has read, in which case
the client goes back for a while. Fairness is that of `EndpointsHub`, with the
informer as one more goroutine; none for the API server, relists and resyncs.

A failed read inside `AddObserver` for the second spec leaves the observer of
the first one registered for ever (no `RemoveObserver` was deferred); the runs
reach it as `failed`, and `EndedLeavesNothing` is stated for `ended` only.

## 4. LoadReport

State: `ttl` and `weight` of each key in etcd, `marks` (lame duck marks in
etcd), `events` (changes of marks not yet read), `watcher` (whether
`startLameDuckWatcher` is to read the marks, has read them, or watches) and
`lameducks`, the copy `ReportLoad` looks at; per stream the place of its
handler, `first` and the last report `req`, and `due`, the ticks until its
server must report again. `inserted` and `blind` are history.

| Action | Code |
|---|---|
| `Tick`, `Drop` | time: keys lose a tick and expire; a key is deleted by hand |
| `Mark`, `Unmark` | web server and tools set and clear marks in etcd |
| `LoadMarks`, `StartWatch`, `WatchMark`, `AbandonWatcher` | `startLameDuckWatcher`: the read, the first `w.Next`, an event, a cleared event index |
| `ReportLoad`, `Recv`, `RecvError` | the stream and its loop |
| `Insert`, `Check`, `Refresh`, `SetMissing`, `WriteError` | `InsertEndpoint` for the first report, the lame duck check, `UpsertEndpoint` in its two requests |

Time is relative: a key and a report have a number of ticks left. What may go
wrong is chosen at the start of a behaviour (`faults`): reports or handlers that
are late, two streams for one key, refused requests, keys deleted by hand, lost
events. Properties name the faults they do not withstand, and one run covers
all sets of them in `FaultSets`. Left out: the fixed wait before the first
report is handled and the reverse look-up of a host name. `--etcd-key-ttl` is
read in `init`, before flags are parsed, so that in the program the TTL is
always 10 seconds; here it is any number above the report interval.

| Run | Instance | Shows |
|---|---|---|
| `report_lives` | 2 streams of one server with two weights, TTL 3, a report every 2 ticks, five sets of faults, from none to all | `AliveWhileReporting`, `WeightIsNewest`, `MarksFollowed`, `LameDuckLeaves`, `ReporterReturns` |

`WeightIsNewest` holds only while streams of one key do not overlap: with two,
the older one may find the key expired and set it, with its old weight, after
the newer one has inserted it. It is also about servers that keep to one report
while they are connected (`Steady`): only the first report of a stream is
inserted, so that a server which changes its weight later goes on with the old
one until its key happens to be missing and `UpsertEndpoint` sets it.
`MarksFollowed` excepts marks that change while nobody watches (`blind`):
`startLameDuckWatcher` reads the marks once and does not read them again when it
has to start a new watcher.

The order of the first report and the check matters: `Insert` comes before
`Check`, so the first report of a stream brings the key of a lame duck back for
a TTL, though `rpc/server.go:333` says "Block the heart beat if the server is
lame duck". `LameDuckLeaves` says that it
goes again: the instance has finitely many streams, so reconnecting ends.

Fairness: the watcher and handlers run, a server whose report is due reports or
hangs up, and time passes. `[]<><<Tick>>_vars` says the last: it is a
statement about behaviours (no infinite number of steps between two ticks), not
a demand on the scheduler, and a tick in a model without lateness waits for
reports and handlers as the TTL of the code presumes.

## 5. GraphTracking

State: `ttl` of each record in etcd, `graphKeys`, `copy` (what the refresh loop
has still to write in this round), `next` (ticks to its next round), and per
stream its place in the loops of `Resolve`, the failed attempts at the key and
`gone`, a history of who had ended when it began.

| Action | Code |
|---|---|
| `TrackAdd`, `TrackWrite`, `TrackRefused` | `TrackServiceGraph`: the set under its lock, then up to three attempts to write |
| `Untrack` | `UntrackServiceGraph`, in the deferred loop of `Resolve` |
| `RefreshStart`, `RefreshKey` | `startGraphTracking`: the clone, then one key after the other |
| `Resolve`, `Leave`, `Tick` | begin and end of the stream; time |

Between `Resolve` and `Leave` the stream is in `EndpointsHub`; the two modules
share no state. The 50 ms between two keys are a step between two writes.
`late` says whether writes and rounds may take any time. `LifeAssumption`
(the TTL outlasts the refusals) is 24 hours against rounds of 2 hours.

| Run | Instance | Shows |
|---|---|---|
| `graph_lives` | 2 streams of one caller sharing a key, 2 refused writes, TTL 4, rounds of 1 | `TrackedStaysAlive`, `TrackedUnlessNamesake`, `TrackedComesBack`, `ObsoleteVanishes` |

`TrackedUnlessNamesake` is the statement that holds: processes of one service
have one caller name, hence one key, and the first of them to leave stops the
refresh for all. The others are still connected when their record expires.

## 6. CallGraph

State: `tree`, the records in etcd, and `format`, where they have their time;
the three tables of `svcgraph.go`; and the place of `GetDependencies`: the
records read (`data`), those still to be recorded (`todo`), `roots` and `stack`
of the walk and what it has `shown`. `latestCallers` is a list whose order
matters (the search for older entries ends at an equal one); it is modelled as
a set and the relation `ahead`, and an entry marked for removal is removed at
once, because nothing looks at it again. Callees are sets, so a callee that is
listed twice (one name in two namespaces) is listed once.

| Action | Code |
|---|---|
| `Write`, `Expire`, `Tick` | records in etcd, see `GraphTracking` |
| `Build`, `BuildError`, `Record`, `Finish` | `BuildDependencies`, `recordCallPairs`, `finishRecording` |
| `StartWalk`, `WalkRoot`, `WalkCallee`, `Return`, `Finished` | `GetDependencies`, `FindRoots`, `traverseCalls` |
| `Restart` | the program died of a full stack and starts again |

Calls of `GetDependencies` follow each other, as in its tests, the only callers
(the web server's `listdep` is not implemented yet). Its maps are replaced
outside their lock; two calls at once would meet half-built tables.

| Run | Instance | Shows |
|---|---|---|
| `calls_shown` | 3 services, 5 possible calls with a cycle and a self-call, 2 times, any number of builds | `OneTimeShown`, `OldestFirstShowsNewest`, `WalkIsSafe` (the walk dies only of a cycle of several services, and shows all of a graph without cycles) |
| `calls_tracked` | 3 services, 4 possible calls, 2 times | violation: `TrackServiceGraph` writes the time into the key, `BuildDependencies` looks for it in a child; nothing SkyLB records is found |

Since the program as it is writes no record that this reader finds, the other
properties are about records in the format the reader and the documentation
("`<clientServiceName1>/timestamp1`") expect. Three names are enough for a
cycle below a root and for two callers of one callee, and two times for an old
and a new record; `OneTimeShown` is proved for all numbers of both.
`OldestFirstShowsNewest` needs tables that were empty: with entries of an
earlier build the search for older ones may end too early. It also needs the
records in the order of their times: a record older than one already kept is
kept too, and the order of a map decides which is shown, where
`docs/service-dependency-graph.md:57` promises the latest.

## 7. SkyBridge

State: `from` and `to`, what the two etcds have at each key, with a version
that counts the changes of the key in `from`; `pc` (`connect`, `copy`, `copied`,
`watch`), `read` and `todo` of the initial copy, `events` the watcher has not
read; `missed`, a history of the keys whose last change does not get through.

| Action | Code |
|---|---|
| `SetFrom`, `DeleteFrom`, `CompareAndDelete` | Kubernetes changes a key, by action |
| `Load`, `CopyKey`, `CopyError`, `CopyDone` | `initialCopy` |
| `StartWatch`, `Follow`, `FollowError` | `watchChanges`, `setKey`, `deleteKey` |
| `StartAgain` | the watch fails and `startBridge` loops, or the program dies |

An event is about one key: an event about a directory that is deleted lists no
keys and `walkNodes` does nothing with it, so that its keys stay in the copy;
`watchChanges` ignores the action `update`. Kubernetes is taken to do neither. A failed connection ends the program
(`glog.Fatalf`), which like a failed read means to begin again in `connect`.
`watchChanges` handles `compareAndDelete` with the sets: it writes the event's
node, a key with an empty value, where the key should go.

| Run | Instance | Shows |
|---|---|---|
| `bridge_follows` | 2 keys, 3 changes of each, 2 events waiting | `NoOtherGap`, `NeverGoesBack`, `CatchesUp` |

`docs/design.md` says the bridge "copies all endpoints changes". It does not,
and without any failure too: two steps, the read of the keys and a change of one,
lead to a gap. `NoOtherGap` lists what it does not copy: changes between the read and the first request of
the watcher, writes that failed, and keys deleted while the bridge was not
connected or by compareAndDelete, which stay in SkyLB's etcd. Fairness is that of a program that runs
and whose requests come back, with a result or an error; `CatchesUp` is about a
bridge that stays connected.

## 8. ModelService

State: the service object (`endpoints`, `observers`, whether `RemoveObservers`
holds its lock, and whom it has still to close), the observers (`closed`, what
the holder of the lock is `sending`, the channel `notifyCh`), the goroutines that
are to notify (`pending`), and the rectifier goroutines, one for each `stopCh`
ever made, with the channel they wait for. `added` and `ended` are history.

| Action | Code |
|---|---|
| `AddObserver`, `SetEndpoints` | the methods of `serviceObject`; each runs with the lock held and does not wait |
| `StartRemove`, `Close`, `FinishRemove` | `RemoveObservers`, which waits for the lock of each observer it closes |
| `StartNotify`, `Send`, `GiveUp` | `clientObserver.Notify`: lock, room in the channel, timer |
| `Select`, `Stop`, `Tick`, `Listened` | `startAutoRectify`, which reads `so.stopCh` without the lock |
| `Receive` | the reader of the channel, outside the package |

| Run | Instance | Shows |
|---|---|---|
| `model_observers` | 2 observers at 2 addresses, 2 updates, channels for one | `NewestIsOffered`, `ObservedIsRectified`, `ClosedIsSilent`, `CallsReturn` (removals and notifiers end) |

A rectifier that begins its `select` after `RemoveObservers` has set `so.stopCh`
to nil waits for a channel nobody closes, and rectifies a service without
observers for ever, where its comment says "Exit to avoid goroutine leak".
The model has it: the only observer leaves before `Select`, and the rectifier ticks
and reads nil again and again. No property forbids it; `ObservedIsRectified` says
that there are never too few rectifiers, not that there are never too many.

Two observers make two generations of rectifiers, so that the older one can
read the younger one's channel. Two updates can overtake each other in the
notifiers. An observer of another port name (`OtherPort`) is never removed;
the instances have none. Goroutines that can run do, and the timer of `Notify`
fires; nobody has to read a channel. Go hands a mutex on to each that waits;
that `Close` gets its turn follows here because the lock of the service keeps
new notifications away.

## 9. SkylbCommand

State of etcd: `dirs`, the service directories, `value` and `ttl` of the keys
that are set, and `index`, counted up by each change. Per operator: `pc`, the
services and instances of his last listings (`services`, `endpoints`),
`currentService`, `portName` and the key he is asked about (`target`).
`modified`, `checked` and `listed` are history: when a key last changed, when the
key to delete was read, when and for which port name a listing was made.

| Action | Code |
|---|---|
| `Register`, `Expire`, `LoadKey` | a server's `InsertEndpoint`, the end of its TTL, the development loader |
| `ListServices`, `ListServicesFails`, `ListInstances` | `ls` |
| `SelectService`, `Unselect`, `SetPortname` | `select`, `portname` |
| `AddService`, `AddInstance`, `AddMalformed` | `new`, `add` |
| `DeleteInstance`, `DeleteMissing` | `rm` up to the prompt |
| `DeleteConfirmed`, `DeleteNothing` | the answer |
| `Start`, `Exit` | the shell |

A command is one request, so it is a step; only `rm` is three (read, ask,
delete), with every other operator and server in between. Keys are numbers in
the order in which etcd lists them, and an index into a listing is modelled by
the instance it selects. `Parsed` is what becomes of a key whose port goes
through `strconv.Atoi` on its way into the value: `add h:080` sets the key `h:080`
and is listed as `h:80`, and `rm` of that entry looks for the key `h:80`. A value
that is not JSON ends a listing, as in the code. Three commands use the response
of a request that failed, or the second half of an address without a colon; the
shell then dies (`Crash`) and may be started again. Etcd never removes a
directory here: nothing in the program does.

| Run | Instance | Shows |
|---|---|---|
| `command_edits` | 2 operators, a service, 2 keys, one an odd spelling of the other, 2 port names, 4 changes of etcd | `RemovesTheListed`, `StaticKept`, `LiveKept` |

Four changes let a key be listed, deleted by the other operator, set again and
expire before the answer; nothing has to happen, so no fairness is assumed.

A prompt can be answered late. "Make sure the endpoint is static (without TTL)"
is done before the question and not after it: a server that registers meanwhile
loses its key to the operator's yes. So an operator does delete keys with a TTL, on
the strength of an older look. `LiveKept` says that it is the only way: a key that had its TTL when
the operator was asked, and was not set again since, is not deleted by him, and
"add" makes none static. `StaticKept` is the same for static keys, which a server
may take over and an operator who was asked about them delete. `RemovesTheListed`
is about the index: the key in question is what the listing showed, unless it has
changed since or another spelling of its port is behind the entry. `ReadsMayFail` is false in the run and free in
the proofs; with it `rm` dies in more states.

## 10. Dashboard

State: `users`, per name a list of rows; `logs`, per operation its operators;
`marks` in etcd; `session` of each browser, a copy of a user made at log-in; and
per worker (the goroutine of a request) where it is and what it holds. `done`,
`admins` and `given`, the versions a name's rows were inserted with, are history.

| Action | Code |
|---|---|
| `LoginRead`, `LoginFindsNone`, `LoginInsert`, `LoginInsertFails`, `LoginCommitFails`, `LoginSetsSession`, `Logout` | `Authenticate`, `MergeUserRoles` in its two transactions, the session |
| `UpsertUser`, `InsertUser`, `UpdateRead`, `UpdateWrite`, `SaveFails` | `upsertUserHandler`, `UpsertUser`, `updateUser` |
| `ToggleLameduck`, `Mark`, `MarkFails`, `CreateLog`, `CreateLogFails` | `toggleLameduckHandler`, `addInstanceHandler` |
| `WebOffline`, `WebOnline` | the lame duck commands of the web server, without log-in or log |

A step is a transaction, or a statement of one that another can precede, a
request to etcd, or an access to a session. `withTx` ignores the error of
`Commit`, and the handlers that of `CreateLog`; a request whose commit fails has
changed nothing and says it has. The schema of the tables is not in the
repository, so that two first log-ins of one name may leave two rows, and an
`UPDATE` writes all rows of the name. Two saves that read one version both
write it counted up: the later one wins.

The version of a row is an `int32` that wraps (`Counted`). A save carries a version
too (`Grants`): `FromUserInfo` copies it from the request, and `insertUser` stores
it with a new user. The page sends 0 for one, but the handler does not look at it;
`updateUser` counts up the row's own. `RoleOperation` gives no right that the
handlers ask for and is left out; so is the debug mode, in which everybody is
logged in.

| Run | Instance | Shows |
|---|---|---|
| `dashboard_rights` | an administrator and a newcomer, 2 browsers, 2 requests at once, 1 endpoint, 2 writes, versions -4 to 3 | `PowerIsGiven`, `OperatorWasAdmin`, `LogIsTrue` |

With two names, one can take the rights of the other while both have requests
under way, and two writes are enough for two rows, for a lost save, and for a
save by a session whose user was disabled meanwhile. `PowerIsGiven` is about
somebody whose sessions and requests are over: a session keeps the rights of its
log-in, so that a user who has been disabled may go on saving users, himself
included, until he logs out.

`LogIsTrue` relates the rows to the log: each row was inserted by a logged request,
or was there at the start, and it is no more saves away from a version inserted
under its name than the log has saves of that name. It may be fewer, by saves that
overwrite each other. The instance stands for `int32` with `MaxInt32 = 3`, and one of
its grants has the version 3, so that a user inserted with the largest version is
saved once and wraps. Requests may all fail, and no fairness is assumed.

## 11. Proofs

All from the named assumptions about the constants, which TLC evaluates in
the runs. Each theorem rests on an invariant proved with one case per action.

`EndpointsHubProofs` holds for all services, ports, instances, streams,
addresses, requests, slots and bounds, from the assumptions named in
`EndpointsHub` (types of the parameters, `Watcher`, `NoStream` and `NoService`
are not services, streams and service objects).

- `TypeCorrect`: `Spec => []TypeOK`. `TypeOK` is inductive; besides types it
  says that an updater past its lookup and a handler past `AddRegister` have a
  service object (services are never removed), and that a handler stays within
  its request.
- `IdsAreUnique`: `Spec => []IdsUnique`. Not inductive by itself: `IdInv` adds
  that no id on its way is ahead of the counter (`Bounded`), so that an id just
  drawn is new, and that the update in the hands of `Send` is the one `maxIds`
  remembers and newer than what was sent (`Remembered`).
- `SentIdsDoIncrease`: `Spec => SentIdsIncrease`, an action property that
  `ImplementsDirectory` contains, from the same invariant: `maxIds` never equals
  an id on its way, so `>=` in `Resolve` lets through only larger ones.
- `EndedHasLeftNothing`: `Spec => []EndedLeavesNothing`, and
  `ServedIsAlwaysObserved`: `Spec => []ServedIsObserved`. Both are about the ends
  of a handler's life; `JoinInv` follows an observer through it. Once
  `AddObserver` is through with its spec (`HasJoined`), it is on its service or
  has been stopped, and it is stopped only by a namesake that is ending, which
  goes through its specs in order.
- `HubImplementsDirectory`: `Spec => ImplementsDirectory`. That no step makes a
  list up follows from the actions; that a list reaches only streams which asked
  for its service needs `AskedInv`: service objects, notifiers, channels and
  handlers hold lists of services their streams asked for. Growing ids come from
  `IdInv`.

The proofs have one lemma per action or group of actions that leaves the
variables concerned alone (`IdFrame`, `JoinFrame`).

The last part is about `K8sHub`, with the same assumptions. A step of it is a step of
the hub, or feeds the updater (`Feeds`), or is a failed read (`K8sStep`), so that
the invariants of the hub are kept (`HubKeeps`) and its proofs are used again:

- `HubHoldsWithinK8s`: `K8sSpec => []` of `TypeOK`, `IdsUnique`,
  `EndedLeavesNothing` and `ServedIsObserved`; and `SentIdsIncreaseWithinK8s`.
- `StaleIsAlwaysExplained`: `K8sSpec => []StaleIsExplained`. The property speaks of
  quiet states only, and `K8sInv` of all: a list on its way is no newer than what
  the API server has (`ReadInv`); a notifier works for an observer that joined,
  with the spec of the service object (`CarriedInv`); the client has the update
  `maxIds` remembers, or it is in the hands of `Send` (`GotInv`). On these rests
  `ClientInv`. While `AddObserver` registers an observer, what the client will
  have in the end is the list it has read (`JoiningFor`). From then on, if the
  informer was told of the newest object and nothing excuses the client, that
  list will be its last (`WillHave`: it is the update of the largest id on its
  way), or a notifier or the informer is about to send it (`ToldFor`).

`LoadReportProofs`, for all keys, weights, streams and faults, and any TTL above
the report interval:

- `TypeCorrect`: `Spec => []TypeOK`.
- `KeysOutliveReports`: `Spec => []AliveWhileReporting`. The invariant says
  how long a key lives: a key whose handler waits outlives the next report
  (`Outlives`), whichever request wrote it last.
- `WeightIsAlwaysNewest`: `Spec => []WeightIsNewest`. `WeightInv` follows the first
  report of a stream: streams that are open at once have no key in common, and
  past `Insert` the report in hand is the one inserted.
- `MarksAreFollowed`: `Spec => []MarksFollowed`. Inductive per endpoint
  (`Followed`): the last event that waits for it, or the copy if there is none,
  has its mark.

`GraphTrackingProofs`, for all callers, requests and times within
`LifeAssumption`:

- `TypeCorrect`: `Spec => []TypeOK`.
- `TrackedKeysLive`: `Spec => []TrackedStaysAlive`, if etcd refuses fewer writes
  than `TrackServiceGraph` attempts. `LifeInv` keeps account of time: a key
  lives until the next round and through an interval for each refusal still to
  come (`Reserve`).
- `TrackedUntilNamesakeLeaves`: `Spec => []TrackedUnlessNamesake`, without any
  assumption about refusals and lateness. `TrackInv` says it of each key a handler
  has gone past in its loop, and that who was gone when it began stays gone.

`CallGraphProofs`, for all services, calls and times:

- `TypeCorrect`: `Spec => []TypeOK`.
- `OneTimeIsShown`: `Spec => []OneTimeShown`. The property speaks of finished
  graphs; `RecordInv` says of the tables being filled that the entry of the
  newest time so far is whole, that older entries have no callees too many, and
  that no caller is without an entry.
- `NewestIsShown`: `Spec => []OldestFirstShowsNewest`. `OrderInv` says that, with
  the records in order, there is nothing at a time of which a newer record has
  been recorded.
- `WalkIsAlwaysSafe`: `Spec => []WalkIsSafe`. `WalkInv` says of a walk that what it
  has printed are nodes, that the callees of a printed node are printed or left
  to a frame of the stack, and that the frames are a path. No induction over
  paths is needed. A stack with more frames than there are names has one name
  twice (the pigeonhole principle), and the names in between form a cycle. The
  nodes not printed at the end would each be called by another of them, which is
  what `Acyclic` rules out.

`SkyBridgeProofs`, for all keys, numbers of changes and of events that wait:

- `TypeCorrect`: `Spec => []TypeOK`.
- `OnlyMarkedGaps`: `Spec => []NoOtherGap`, inductive with the types and the fact
  that among the events that wait for a key there is a last one (`HasNewest`).
- `VersionsOnlyRise`: `Spec => NeverGoesBack`. `VersionsRise` puts the versions of a
  key in order: the copy, what the initial copy still has to write, the events in
  their order, the original.

`ModelServiceProofs`, for all observers, addresses, capacities and numbers of
updates:

- `TypeCorrect`: `Spec => []TypeOK`. The strengthening counts: no more stopChs
  are made than observers added, so a new one has a number.
- `SilentOnceClosed`: `Spec => ClosedIsSilent`. Nobody holds the lock of a
  closed observer to send (`ClosedIsUnlocked`).
- `NewestIsAlwaysOffered`: `Spec => []NewestIsOffered`, inductive with the types
  and "nothing is offered before the first `SetEndpoints`".
- `ObservedIsAlwaysRectified`: `Spec => []ObservedIsRectified`. `RectifierOK`
  says that a rectifier waits for its own stopCh, a later one or none, so that
  the youngest cannot have read one that is closed.

`SkylbCommandProofs`, for all operators, services, keys, spellings and numbers of
changes, with reads that may fail:

- `TypeCorrect`: `Spec => []TypeOK`.
- `LiveKeysStay`: `Spec => LiveKept`. `CheckedOK` says of a key an operator is
  asked about that it is static or was set since he was; it rests on
  `TouchedIsNewer`: whatever a step changes in etcd gets an index larger than all
  before.
- `RemovedWasListed`: `Spec => []RemovesTheListed`. `ListingOK` says of every
  listing of every operator, not only of the key in question, that its entries
  are backed by the key, by a later change, or by a namesake.
- `StaticKeysStay`: `Spec => StaticKept`.

`DashboardProofs`, for all names, grants, browsers and endpoints and any finite set
of workers:

- `TypeCorrect`: `Spec => []TypeOK`.
- `OperatorsWereAdmins`: `Spec => []OperatorWasAdmin`, and `PowerIsAlwaysGiven`:
  `Spec => PowerIsGiven`. `RightsInv` follows the role from a row into a session
  and from there into a worker: wherever it is, it was given.
- `LogIsAlwaysTrue`: `Spec => []LogIsTrue`. `LogInv` counts the workers between a
  mark and its log entry, and says of rows, and of a save between its read and its
  write, that their versions are `Reached` from an inserted one by as many saves
  as were logged at most, around the end of `int32` if need be (`ReachedFacts`).

Model-checked only: liveness (`NotifiersExit`, `RectifyDelivers`,
`RequestAnswered`, `LameDuckLeaves`, `ReporterReturns`, `TrackedComesBack`,
`ObsoleteVanishes`, `CatchesUp`, `CallsReturn`, `UpdateDelivers`), which the prover
does not reach. Every invariant and every action property of the runs has a
theorem. `NoOlderListSent` and `TrackedIsShown` do not hold.

Two properties were corrected by their proofs. `WeightIsNewest` had been stated of
all streams and `StaleIsExplained` of all requests; both were false outside the
instances of their runs, where every stream keeps to one report and asks for its
service once, and TLC refutes the old statements on larger instances.

## 12. Not modelled

- The health checker: a probe with a timeout that writes a metric; it keeps no
  state and nothing reads what it does.
- Pages, listings and scripts of the dashboard and the web server: they turn one
  read into text. Queries of the log and the configuration likewise.
- The debug mode of the dashboard, line editing, connecting to etcd.
- Start-up, flags, metrics and logging, on which no control modelled here
  depends.
- Data races on Go maps (the walk of `GetDependencies` reads a map without the
  lock) have no place in models whose steps are whole map operations.
