----------------------------- MODULE LoadReport -----------------------------
(***************************************************************************)
(* Load reports: the gRPC handler ReportLoad (rpc/server.go), the etcd     *)
(* keys it keeps alive (hub/hub.go, InsertEndpoint and UpsertEndpoint;     *)
(* hub/key.go), and the lame duck marks that make it let a key expire      *)
(* (hub/hub.go, startLameDuckWatcher).                                     *)
(*                                                                         *)
(* Time is a number of ticks left: of a key until it expires, of a server  *)
(* until its next report is due.  What may go wrong in a behaviour is      *)
(* chosen at its start, so that a property can name the faults it does not *)
(* withstand:                                                              *)
(*   late     reports are overdue, or ticks pass while handlers work;      *)
(*            without it time waits for both, as --etcd-key-ttl assumes    *)
(*   overlap  a key has more than one stream at once                       *)
(*   refused  reads and writes of etcd return an error                     *)
(*   deleted  keys are deleted by hand                                     *)
(*   lost     etcd clears its event index                                  *)
(***************************************************************************)
EXTENDS Integers, Sequences

CONSTANTS
    Keys,             \* namespace, service, host and port: the keys in etcd
    Endpoints,        \* host:port pairs, what is marked as lame duck
    EpOf,             \* the endpoint of a key
    Weights,          \* weights a server reports
    NoWeight,         \* a key that never was set
    Streams,          \* ReportLoad calls; each one runs once
    Reports,          \* the reports a stream may send
    TTL,              \* life of a key in ticks, etcdKeyTtl
    Interval,         \* the most ticks between two reports of a server
    FaultSets,        \* the sets of faults to consider together
    MaxEvents         \* bound: mark changes the watcher has not seen

Faults == {"late", "overlap", "refused", "deleted", "lost"}

Report == [key : Keys, weight : Weights]

ASSUME EpAssumption == EpOf \in [Keys -> Endpoints]
ASSUME ReportAssumption == Reports \in [Streams -> SUBSET Report]
ASSUME WeightAssumption == NoWeight \notin Weights
ASSUME TimeAssumption ==
    /\ TTL \in Nat \ {0}
    /\ Interval \in Nat \ {0}
    /\ Interval < TTL
ASSUME FaultAssumption == FaultSets \subseteq SUBSET Faults
ASSUME BoundAssumption == MaxEvents \in Nat

NoReport == [key |-> "none"]

(* A watch event: a mark set, or cleared. *)
Change == [ep : Endpoints, on : BOOLEAN]

VARIABLES
    faults,     \* what may go wrong in this behaviour
    ttl,        \* per key, the ticks it has left in etcd; 0: there is none
    weight,     \* per key, the weight in its value
    inserted,   \* per key, the weight of its last first report (history)
    marks,      \* the lame duck marks in etcd
    events,     \* changes of marks the watcher has not read yet
    watcher,    \* where startLameDuckWatcher is
    lameducks,  \* the marks SkyLB knows of
    blind,      \* endpoints whose last change the watcher missed (history)
    pc,         \* per stream, where its handler is
    first,      \* per stream, whether no report has been inserted yet
    req,        \* per stream, the last report received
    due         \* per stream, the ticks until its next report is due

keyVars == <<ttl, weight, inserted>>
markVars == <<marks, events, watcher, lameducks, blind>>
streamVars == <<pc, first, req, due>>
vars == <<faults, ttl, weight, inserted, marks, events, watcher, lameducks, blind,
          pc, first, req, due>>

Alive(k) == ttl[k] > 0
(* A handler between two reports: the last one was kept or masked. *)
Waiting(st) == pc[st] \in {"recv", "masked"}
Open(st) == pc[st] \notin {"idle", "ended"}
KeysOf(st) == {r.key : r \in Reports[st]}

-----------------------------------------------------------------------------
Init ==
    /\ faults \in FaultSets
    /\ ttl = [k \in Keys |-> 0]
    /\ weight = [k \in Keys |-> NoWeight]
    /\ inserted = [k \in Keys |-> NoWeight]
    /\ marks \in SUBSET Endpoints
    /\ events = <<>>
    /\ watcher = "load"
    /\ lameducks = {}
    /\ blind = {}
    /\ pc = [st \in Streams |-> "idle"]
    /\ first = [st \in Streams |-> TRUE]
    /\ req = [st \in Streams |-> NoReport]
    /\ due = [st \in Streams |-> Interval]

-----------------------------------------------------------------------------
(* Time and etcd. *)

Quiet(st) == Waiting(st) /\ due[st] > 0
LessByOne(n) == n - 1  \* mutant
Less(n) == IF n = 0 THEN 0 ELSE n - 1

(* A key that has no tick left is gone. *)
Tick ==
    /\ "late" \notin faults => \A st \in Streams : Open(st) => Quiet(st)
    /\ ttl' = [k \in Keys |-> Less(ttl[k])]
    /\ due' = [st \in Streams |-> IF Open(st) THEN Less(due[st]) ELSE due[st]]
    /\ UNCHANGED <<faults, weight, inserted, markVars, pc, first, req>>

(* A key is deleted by hand: "the key might be dropped or expired". *)
Drop(k) ==
    /\ "deleted" \in faults
    /\ Alive(k)
    /\ ttl' = [ttl EXCEPT ![k] = 0]
    /\ UNCHANGED <<faults, weight, inserted, markVars, streamVars>>

SetKeyUnlessThere(r) ==  \* mutant: the weight of a listed server stays
    /\ ttl' = [ttl EXCEPT ![r.key] = TTL]
    /\ weight' = [weight EXCEPT ![r.key] = IF Alive(r.key) THEN @ ELSE r.weight]
(* etcd Set with setOpts: the key gets a new value and a new life. *)
SetKey(r) ==
    /\ ttl' = [ttl EXCEPT ![r.key] = TTL]
    /\ weight' = [weight EXCEPT ![r.key] = r.weight]

RefreshedNot(k) == ttl[k]  \* mutant: refreshOpts without the TTL
Refreshed(k) == TTL

-----------------------------------------------------------------------------
(* Lame duck marks and startLameDuckWatcher. *)

Changed(ep, on) ==
    IF watcher = "watch"
    THEN /\ Len(events) < MaxEvents
         /\ events' = Append(events, [ep |-> ep, on |-> on])
         /\ blind' = blind \ {ep}
    ELSE /\ events' = events
         /\ blind' = IF watcher = "loaded" THEN blind \cup {ep} ELSE blind

(* Web server, dashboard and command line tool set and clear marks. *)
Mark(ep) ==
    /\ marks' = marks \cup {ep}
    /\ Changed(ep, TRUE)
    /\ UNCHANGED <<faults, keyVars, watcher, lameducks, streamVars>>

Unmark(ep) ==
    /\ ep \in marks
    /\ marks' = marks \ {ep}
    /\ Changed(ep, FALSE)
    /\ UNCHANGED <<faults, keyVars, watcher, lameducks, streamVars>>

LoadedIgnored == {}  \* mutant
Loaded == marks

(* The marks of now are read; a failed read is only logged. *)
LoadMarks ==
    /\ watcher = "load"
    /\ watcher' = "loaded"
    /\ \/ /\ lameducks' = Loaded
          /\ blind' = {}
       \/ /\ "refused" \in faults
          /\ lameducks' = lameducks
          /\ blind' = marks
    /\ UNCHANGED <<faults, keyVars, marks, events, streamVars>>

(* The first w.Next reaches etcd: from here on no change is missed. *)
StartWatch ==
    /\ watcher = "loaded"
    /\ watcher' = "watch"
    /\ UNCHANGED <<faults, keyVars, marks, events, lameducks, blind, streamVars>>

(* w.Next and ExtractLameduckChange. *)
WatchMark ==
    LET e == Head(events)
    IN  /\ watcher = "watch"
        /\ events # <<>>
        /\ events' = Tail(events)
        /\ lameducks' = IF e.on THEN lameducks \cup {e.ep} ELSE lameducks \ {e.ep}
        /\ UNCHANGED <<faults, keyVars, marks, watcher, blind, streamVars>>

(* The event index is cleared: a new watcher, but no new read. *)
AbandonWatcher ==
    /\ "lost" \in faults
    /\ watcher = "watch"
    /\ watcher' = "loaded"
    /\ blind' = blind \cup {events[i].ep : i \in DOMAIN events}
    /\ events' = <<>>
    /\ UNCHANGED <<faults, keyVars, marks, lameducks, streamVars>>

-----------------------------------------------------------------------------
(* ReportLoad. *)

GoTo(st, where) == pc' = [pc EXCEPT ![st] = where]

ReportLoad(st) ==
    /\ pc[st] = "idle"
    /\ "overlap" \in faults
        \/ \A other \in Streams : Open(other) => KeysOf(other) \cap KeysOf(st) = {}
    /\ GoTo(st, "recv")
    /\ UNCHANGED <<faults, keyVars, markVars, first, req, due>>

AfterRecv(st) == IF first[st] THEN "insert" ELSE "check"

Recv(st, r) ==
    /\ Waiting(st)
    /\ req' = [req EXCEPT ![st] = r]
    /\ due' = [due EXCEPT ![st] = Interval]
    /\ GoTo(st, AfterRecv(st))
    /\ UNCHANGED <<faults, keyVars, markVars, first>>

(* The stream breaks or the server stops. *)
RecvError(st) ==
    /\ Waiting(st)
    /\ GoTo(st, "ended")
    /\ UNCHANGED <<faults, keyVars, markVars, first, req, due>>

(* InsertEndpoint: the first report of a stream sets the key in any case,  *)
(* so that a server restarted with another weight is listed with it.       *)
Insert(st) ==
    /\ pc[st] = "insert"
    /\ SetKey(req[st])
    /\ inserted' = [inserted EXCEPT ![req[st].key] = req[st].weight]
    /\ first' = [first EXCEPT ![st] = FALSE]
    /\ GoTo(st, "check")
    /\ UNCHANGED <<faults, markVars, req, due>>

(* A write that fails ends the stream. *)
WriteError(st) ==
    /\ "refused" \in faults
    /\ pc[st] \in {"insert", "refresh", "set"}
    /\ GoTo(st, "ended")
    /\ UNCHANGED <<faults, keyVars, markVars, first, req, due>>

MaskedNever(ep) == FALSE  \* mutant
(* IsLameduckMode *)
Masked(ep) == ep \in lameducks

(* The report of a lame duck is not passed on. *)
Check(st) ==
    /\ pc[st] = "check"
    /\ GoTo(st, IF Masked(EpOf[req[st].key]) THEN "masked" ELSE "refresh")
    /\ UNCHANGED <<faults, keyVars, markVars, first, req, due>>

NotFoundIgnored(st) == GoTo(st, "recv")  \* mutant: no case for KeyNotFound
NotFound(st) == GoTo(st, "set")

(* UpsertEndpoint: a key that is there gets a new life and keeps its       *)
(* value, one that is not is set in a second request.                      *)
Refresh(st) ==
    LET k == req[st].key
    IN  /\ pc[st] = "refresh"
        /\ IF Alive(k)
           THEN /\ ttl' = [ttl EXCEPT ![k] = Refreshed(k)]
                /\ GoTo(st, "recv")
           ELSE /\ NotFound(st)
                /\ ttl' = ttl
        /\ UNCHANGED <<faults, weight, inserted, markVars, first, req, due>>

SetMissing(st) ==
    /\ pc[st] = "set"
    /\ SetKey(req[st])
    /\ GoTo(st, "recv")
    /\ UNCHANGED <<faults, inserted, markVars, first, req, due>>

-----------------------------------------------------------------------------
Handler(st) ==
    \/ Insert(st)
    \/ WriteError(st)
    \/ Check(st)
    \/ Refresh(st)
    \/ SetMissing(st)

(* What the server at the other end does. *)
Server(st) == RecvError(st) \/ \E r \in Reports[st] : Recv(st, r)

Watch == LoadMarks \/ StartWatch \/ WatchMark

Operators ==
    \/ \E k \in Keys : Drop(k)
    \/ \E ep \in Endpoints : Mark(ep) \/ Unmark(ep)

Next ==
    \/ Tick
    \/ Operators
    \/ Watch
    \/ AbandonWatcher
    \/ \E st \in Streams : ReportLoad(st) \/ Server(st) \/ Handler(st)

(* Time passes, whatever happens between two ticks; goroutines run, etcd   *)
(* answers, and a server whose report is due sends it or goes away.        *)
Fairness ==
    /\ []<><<Tick>>_vars
    /\ WF_vars(Watch)
    /\ \A st \in Streams :
        /\ WF_vars(Handler(st))
        /\ WF_vars(due[st] = 0 /\ Server(st))

Spec == Init /\ [][Next]_vars
FairSpec == Spec /\ Fairness

-----------------------------------------------------------------------------
(* The values of every variable; a handler at work has a report.           *)
TypeOK ==
    /\ faults \subseteq Faults
    /\ ttl \in [Keys -> 0..TTL]
    /\ weight \in [Keys -> Weights \cup {NoWeight}]
    /\ inserted \in [Keys -> Weights \cup {NoWeight}]
    /\ marks \subseteq Endpoints
    /\ events \in Seq(Change)
    /\ watcher \in {"load", "loaded", "watch"}
    /\ lameducks \subseteq Endpoints
    /\ blind \subseteq Endpoints
    /\ pc \in [Streams -> {"idle", "recv", "masked", "insert", "check", "refresh",
                           "set", "ended"}]
    /\ first \in [Streams -> BOOLEAN]
    /\ req \in [Streams -> Report \cup {NoReport}]
    /\ \A st \in Streams :
            /\ pc[st] \in {"masked", "insert", "check", "refresh", "set"} \/ ~first[st]
                => req[st] \in Reports[st]
            /\ pc[st] = "idle" => first[st]
    /\ due \in [Streams -> 0..Interval]

(* The key of a server that reports in time is there from its first report *)
(* on, as long as its reports are not masked and nobody deletes it: a key  *)
(* outlives the interval between two reports, whichever of Insert, Refresh *)
(* and SetMissing wrote it last.                                           *)
AliveWhileReporting ==
    faults \cap {"late", "deleted"} = {} =>
        \A st \in Streams : pc[st] = "recv" /\ ~first[st] => Alive(req[st].key)

(* A stream that always sends the same report, as a server does that has   *)
(* one address and does not change its weight while it runs.               *)
Steady(st) == \A r, q \in Reports[st] : r = q

(* What "When the service with weights is turned off, the service is       *)
(* restarted in less than 10 seconds [...] purely Just to prevent this     *)
(* issue" in ReportLoad is for: a listed server has the weight it reported *)
(* first when it last came up, and not that of an earlier life.  Not so    *)
(* with two streams at once: the older one may find the key missing and    *)
(* set it after the newer one has inserted it.  Nor if a stream changes    *)
(* its report: only the first one is inserted, so that a new weight is     *)
(* written when the key happens to be missing, and not before.             *)
WeightIsNewest ==
    "overlap" \notin faults =>
        \A k \in Keys : (\A st \in Streams : k \in KeysOf(st) => Steady(st)) =>
            (Alive(k) => weight[k] = inserted[k])

(* The mark of an endpoint with the events that wait applied. *)
Pending(ep) == {i \in DOMAIN events : events[i].ep = ep}
Latest(ep) == CHOOSE i \in Pending(ep) : \A j \in Pending(ep) : j <= i
Foreseen(ep) == IF Pending(ep) = {} THEN ep \in lameducks ELSE events[Latest(ep)].on

(* The watcher ends up with the marks of etcd for each endpoint whose last *)
(* change came neither while nobody watched, between the read and the      *)
(* first watch or between two watches, nor in lost events.                 *)
MarksFollowed ==
    watcher # "load" =>
        \A ep \in Endpoints \ blind : Foreseen(ep) <=> ep \in marks

(* A server that SkyLB holds for a lame duck loses its key for good, though *)
(* it goes on reporting and may reconnect.                                 *)
LameDuckLeaves ==
    \A k \in Keys : <>[](EpOf[k] \in lameducks) => <>[]~Alive(k)

(* A server that reports and is no lame duck is listed again and again,    *)
(* whoever deletes its key and however late it or SkyLB is.                *)
ReporterReturns ==
    \A st \in Streams, k \in Keys :
        KeysOf(st) = {k} =>
            (<>[](Open(st) /\ ~first[st] /\ EpOf[k] \notin lameducks) => []<>Alive(k))
=============================================================================
