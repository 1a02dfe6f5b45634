-------------------------- MODULE LoadReportProofs --------------------------
(***************************************************************************)
(* Theorems about LoadReport, for all keys, streams, reports and times.    *)
(***************************************************************************)
EXTENDS LoadReport, TLAPS

USE DEF keyVars, markVars, streamVars

-----------------------------------------------------------------------------
(* Types. *)

LEMMA ReportType == ASSUME NEW st \in Streams, NEW r \in Reports[st]
                    PROVE  r \in Report /\ r.key \in Keys /\ r.weight \in Weights
  BY ReportAssumption DEF Report

(* The report a handler works on. *)
LEMMA RequestType ==
  ASSUME TypeOK, NEW st \in Streams,
         pc[st] \in {"masked", "insert", "check", "refresh", "set"} \/ ~first[st]
  PROVE  req[st] \in Reports[st] /\ req[st].key \in Keys /\ req[st].weight \in Weights
  BY ReportType DEF TypeOK

LEMMA TypeInit == Init => TypeOK
  BY TimeAssumption, FaultAssumption DEF Init, TypeOK

(* Steps that change neither a stream nor a key, and steps of time. *)
LEMMA TypeWorld ==
  ASSUME TypeOK,
         \/ Tick
         \/ Operators
         \/ Watch
         \/ AbandonWatcher
  PROVE  TypeOK'
<1>1. CASE Tick
  BY <1>1, TimeAssumption DEF Tick, Less, TypeOK
<1>2. CASE Operators
  <2>1. ASSUME NEW k \in Keys, Drop(k) PROVE TypeOK'
    BY <2>1, TimeAssumption DEF Drop, TypeOK
  <2>2. ASSUME NEW ep \in Endpoints, Mark(ep) PROVE TypeOK'
    <3>0. [ep |-> ep, on |-> TRUE] \in Change
      BY DEF Change
    <3>t. events \in Seq(Change)
      BY DEF TypeOK
    <3>1. events' \in Seq(Change)
      BY <2>2, <3>0, <3>t DEF Mark, Changed
    <3>2. blind' \subseteq Endpoints /\ marks' \subseteq Endpoints
      BY <2>2 DEF Mark, Changed, TypeOK
    <3>3. UNCHANGED <<faults, keyVars, watcher, lameducks, streamVars>>
      BY <2>2 DEF Mark
    <3> QED  BY <3>1, <3>2, <3>3 DEF TypeOK
  <2>3. ASSUME NEW ep \in Endpoints, Unmark(ep) PROVE TypeOK'
    <3>0. [ep |-> ep, on |-> FALSE] \in Change
      BY DEF Change
    <3>t. events \in Seq(Change)
      BY DEF TypeOK
    <3>1. events' \in Seq(Change)
      BY <2>3, <3>0, <3>t DEF Unmark, Changed
    <3>2. blind' \subseteq Endpoints /\ marks' \subseteq Endpoints
      BY <2>3 DEF Unmark, Changed, TypeOK
    <3>3. UNCHANGED <<faults, keyVars, watcher, lameducks, streamVars>>
      BY <2>3 DEF Unmark
    <3> QED  BY <3>1, <3>2, <3>3 DEF TypeOK
  <2> QED  BY <1>2, <2>1, <2>2, <2>3 DEF Operators
<1>3. CASE Watch
  <2>1. CASE LoadMarks
    BY <2>1 DEF LoadMarks, Loaded, TypeOK
  <2>2. CASE StartWatch
    BY <2>2 DEF StartWatch, TypeOK
  <2>3. CASE WatchMark
    <3>1. Head(events) \in Change
      BY <2>3 DEF WatchMark, TypeOK
    <3>2. events' \in Seq(Change)
      BY <2>3 DEF WatchMark, TypeOK
    <3>3. lameducks' \subseteq Endpoints
      BY <2>3, <3>1 DEF WatchMark, Change, TypeOK
    <3>4. UNCHANGED <<faults, keyVars, marks, watcher, blind, streamVars>>
      BY <2>3 DEF WatchMark
    <3> QED  BY <3>2, <3>3, <3>4 DEF TypeOK
  <2> QED  BY <1>3, <2>1, <2>2, <2>3 DEF Watch
<1>4. CASE AbandonWatcher
  <2>0. \A i \in DOMAIN events : events[i] \in Change
    BY DEF TypeOK
  <2>1. \A i \in DOMAIN events : events[i].ep \in Endpoints
    BY <2>0 DEF Change
  <2>2. blind' \subseteq Endpoints
    BY <1>4, <2>1 DEF AbandonWatcher, TypeOK
  <2> QED  BY <1>4, <2>2 DEF AbandonWatcher, TypeOK
<1> QED  BY <1>1, <1>2, <1>3, <1>4

(* Steps of a stream. *)
LEMMA TypeStream ==
  ASSUME TypeOK, NEW st \in Streams,
         ReportLoad(st) \/ Server(st) \/ Handler(st)
  PROVE  TypeOK'
<1>1. CASE ReportLoad(st)
  BY <1>1 DEF ReportLoad, GoTo, TypeOK
<1>2. CASE RecvError(st)
  BY <1>2 DEF RecvError, GoTo, TypeOK
<1>3. ASSUME NEW r \in Reports[st], Recv(st, r) PROVE TypeOK'
  BY <1>3, ReportType, TimeAssumption DEF Recv, AfterRecv, GoTo, TypeOK
<1>4. CASE Insert(st)
  <2>1. pc[st] = "insert"  BY <1>4 DEF Insert
  <2>2. req[st].key \in Keys /\ req[st].weight \in Weights /\ req[st] \in Reports[st]
    BY <2>1, RequestType
  <2> QED  BY <1>4, <2>2, TimeAssumption DEF Insert, SetKey, GoTo, TypeOK
<1>5. CASE WriteError(st)
  BY <1>5 DEF WriteError, GoTo, TypeOK
<1>6. CASE Check(st)
  BY <1>6 DEF Check, GoTo, TypeOK
<1>7. CASE Refresh(st)
  <2>1. pc[st] = "refresh"  BY <1>7 DEF Refresh
  <2>2. req[st].key \in Keys /\ req[st] \in Reports[st]
    BY <2>1, RequestType
  <2>3. CASE Alive(req[st].key)
    <3>1. ttl' = [ttl EXCEPT ![req[st].key] = TTL] /\ pc' = [pc EXCEPT ![st] = "recv"]
      BY <1>7, <2>3 DEF Refresh, Refreshed, GoTo
    <3>2. ttl' \in [Keys -> 0..TTL]
      <4>1. TTL \in 0..TTL
        BY TimeAssumption
      <4>2. ttl \in [Keys -> 0..TTL]
        BY DEF TypeOK
      <4> QED  BY <3>1, <4>1, <4>2
    <3>3. UNCHANGED <<faults, weight, inserted, markVars, first, req, due>>
      BY <1>7 DEF Refresh
    <3> QED  BY <2>1, <3>1, <3>2, <3>3 DEF TypeOK
  <2>4. CASE ~Alive(req[st].key)
    BY <1>7, <2>2, <2>4 DEF Refresh, NotFound, GoTo, TypeOK
  <2> QED  BY <2>3, <2>4
<1>8. CASE SetMissing(st)
  <2>1. pc[st] = "set"  BY <1>8 DEF SetMissing
  <2>2. req[st].key \in Keys /\ req[st].weight \in Weights /\ req[st] \in Reports[st]
    BY <2>1, RequestType
  <2> QED  BY <1>8, <2>2, TimeAssumption DEF SetMissing, SetKey, GoTo, TypeOK
<1> QED  BY <1>1, <1>2, <1>3, <1>4, <1>5, <1>6, <1>7, <1>8 DEF Server, Handler

LEMMA TypeStep == TypeOK /\ [Next]_vars => TypeOK'
<1> SUFFICES ASSUME TypeOK, [Next]_vars PROVE TypeOK'
  OBVIOUS
<1>1. CASE Next
  BY <1>1, TypeWorld, TypeStream DEF Next
<1>2. CASE UNCHANGED vars
  BY <1>2 DEF vars, TypeOK
<1> QED  BY <1>1, <1>2

(* ReportLoad and the watcher of marks keep every variable in its type,    *)
(* and a handler past Recv has a report of its own stream.                 *)
THEOREM TypeCorrect == Spec => []TypeOK
  BY TypeInit, TypeStep, PTL DEF Spec

-----------------------------------------------------------------------------
(* Keys outlive the interval between two reports. *)

(* At any time the key of a server between two reports has more ticks left *)
(* than the server until its next report.  AliveWhileReporting alone is    *)
(* not inductive: it does not say that the next tick leaves the key alive. *)
Outlives ==
  faults \cap {"late", "deleted"} = {} =>
    \A st \in Streams : pc[st] = "recv" /\ ~first[st] => ttl[req[st].key] > due[st]

LEMMA OutlivesInit == Init => Outlives
  BY DEF Init, Outlives

LEMMA OutlivesStep ==
  ASSUME TypeOK, Outlives, [Next]_vars
  PROVE  Outlives'
<1>f. faults' = faults
  BY DEF Next, vars, Tick, Operators, Watch, Drop, Mark, Unmark, LoadMarks, StartWatch,
         WatchMark, AbandonWatcher, ReportLoad, Server, Handler, Recv, RecvError, Insert,
         WriteError, Check, Refresh, SetMissing
<1> SUFFICES ASSUME "late" \notin faults, "deleted" \notin faults,
                    NEW st \in Streams, pc'[st] = "recv", ~first'[st]
             PROVE  ttl'[req'[st].key] > due'[st]
  BY <1>f DEF Outlives
<1>a. TypeOK'
  BY TypeStep
<1>b. req'[st].key \in Keys
  BY <1>a, ReportType DEF TypeOK
(* No step but Tick takes life from a key. *)
<1> DEFINE NoLoss == \A k \in Keys : ttl'[k] >= ttl[k]
<1>1. ASSUME NoLoss, pc'[st] = pc[st], first'[st] = first[st], req'[st] = req[st], due'[st] = due[st]
      PROVE  ttl'[req'[st].key] > due'[st]
  <2>1. ttl[req[st].key] > due[st]
    BY <1>1 DEF Outlives
  <2>2. ttl'[req[st].key] >= ttl[req[st].key]
    BY <1>1, <1>b
  <2>3. ttl[req[st].key] \in Int /\ ttl'[req[st].key] \in Int /\ due[st] \in Int
    BY <1>1, <1>a, <1>b DEF TypeOK
  <2> QED  BY <1>1, <2>1, <2>2, <2>3
<1>2. CASE Tick
  <2>1. pc[st] = "recv" /\ ~first[st] /\ req' = req
    BY <1>2 DEF Tick
  <2>2. due[st] > 0
    BY <1>2, <2>1 DEF Tick, Open, Quiet
  <2>3. ttl[req[st].key] > due[st]
    BY <2>1 DEF Outlives
  <2>4. due'[st] = due[st] - 1 /\ ttl'[req[st].key] = ttl[req[st].key] - 1
    BY <1>2, <1>b, <2>1, <2>2, <2>3 DEF Tick, Open, Less, TypeOK
  <2>5. ttl[req[st].key] \in Int /\ due[st] \in Int
    BY <1>b, <2>1 DEF TypeOK
  <2> QED  BY <2>1, <2>3, <2>4, <2>5
<1>3. CASE Operators \/ Watch \/ AbandonWatcher
  <2>1. UNCHANGED <<faults, keyVars, streamVars>>
    BY <1>3 DEF Operators, Watch, Drop, Mark, Unmark, LoadMarks, StartWatch, WatchMark,
                AbandonWatcher
  <2>2. NoLoss
    BY <2>1 DEF TypeOK
  <2> QED  BY <1>1, <2>1, <2>2
<1>4. ASSUME NEW u \in Streams, ReportLoad(u) \/ Server(u) \/ Handler(u)
      PROVE  ttl'[req'[st].key] > due'[st]
  <2>1. NoLoss
    <3>1. CASE Insert(u) \/ SetMissing(u)
      <4>1. req[u].key \in Keys /\ ttl' = [ttl EXCEPT ![req[u].key] = TTL]
        BY <3>1, RequestType DEF Insert, SetMissing, SetKey
      <4> QED  BY <4>1, TimeAssumption DEF TypeOK
    <3>2. CASE Refresh(u)
      <4>1. req[u].key \in Keys
        BY <3>2, RequestType DEF Refresh
      <4>2. ttl' = ttl \/ ttl' = [ttl EXCEPT ![req[u].key] = TTL]
        BY <3>2 DEF Refresh, Refreshed
      <4>3. ttl \in [Keys -> 0..TTL] /\ TTL \in Nat
        BY TimeAssumption DEF TypeOK
      <4> QED  BY <4>1, <4>2, <4>3
    <3>3. CASE ReportLoad(u) \/ Server(u) \/ WriteError(u) \/ Check(u)
      BY <3>3 DEF ReportLoad, Server, Recv, RecvError, WriteError, Check, TypeOK
    <3> QED  BY <1>4, <3>1, <3>2, <3>3 DEF Handler
  <2>2. CASE u # st
    <3>1. pc'[st] = pc[st] /\ first'[st] = first[st] /\ req'[st] = req[st] /\ due'[st] = due[st]
      BY <1>4, <2>2 DEF ReportLoad, Server, Handler, Recv, RecvError, Insert, WriteError,
                       Check, Refresh, NotFound, SetMissing, GoTo, TypeOK
    <3> QED  BY <1>1, <2>1, <3>1
  <2>3. CASE u = st
    (* Only a handler that has just written the key gets to "recv". *)
    <3>1. due[st] \in 0..Interval /\ TTL > Interval /\ TTL \in Int
      BY TimeAssumption DEF TypeOK
    <3>2. CASE Refresh(st)
      <4>1. ttl'[req'[st].key] = TTL /\ due'[st] = due[st]
        BY <3>2, <1>b DEF Refresh, Refreshed, NotFound, GoTo, TypeOK
      <4> QED  BY <4>1, <3>1, TimeAssumption
    <3>3. CASE SetMissing(st)
      <4>1. ttl'[req'[st].key] = TTL /\ due'[st] = due[st]
        BY <3>3, <1>b DEF SetMissing, SetKey, TypeOK
      <4> QED  BY <4>1, <3>1, TimeAssumption
    <3>4. CASE ReportLoad(st)
      (* A new stream has inserted nothing. *)
      BY <3>4 DEF ReportLoad, TypeOK
    <3>5. CASE Server(st) \/ Insert(st) \/ WriteError(st) \/ Check(st)
      <4>1. pc'[st] # "recv"
        BY <3>5 DEF Server, Recv, RecvError, AfterRecv, Insert, WriteError, Check, GoTo, TypeOK
      <4> QED  BY <4>1
    <3> QED  BY <1>4, <2>3, <3>2, <3>3, <3>4, <3>5 DEF Handler
  <2> QED  BY <2>2, <2>3
<1>5. CASE UNCHANGED vars
  <2>1. NoLoss
    BY <1>5 DEF vars, TypeOK
  <2> QED  BY <1>1, <1>5, <2>1 DEF vars
<1> QED  BY <1>2, <1>3, <1>4, <1>5 DEF Next

(* If handlers and reports are in time and nobody deletes keys, the key of *)
(* a server that reports and is not masked never expires: AliveWhileReporting *)
(* for every number of servers and services, and every TTL above the       *)
(* report interval.                                                        *)
THEOREM KeysOutliveReports == Spec => []AliveWhileReporting
<1>1. TypeOK /\ Outlives => AliveWhileReporting
  <2> SUFFICES ASSUME TypeOK, Outlives, faults \cap {"late", "deleted"} = {},
                      NEW st \in Streams, pc[st] = "recv", ~first[st]
               PROVE  Alive(req[st].key)
    BY DEF AliveWhileReporting
  <2>1. req[st].key \in Keys
    BY RequestType
  <2>2. ttl[req[st].key] \in Int /\ due[st] \in 0..Interval
    BY <2>1 DEF TypeOK
  <2>3. ttl[req[st].key] > due[st]
    BY DEF Outlives
  <2> QED  BY <2>2, <2>3, TimeAssumption DEF Alive
<1>2. TypeOK /\ Outlives /\ [Next]_vars => Outlives'
  BY OutlivesStep
<1> QED  BY <1>1, <1>2, OutlivesInit, TypeCorrect, PTL DEF Spec
-----------------------------------------------------------------------------
(* The weight of a key. *)

(* What the streams of a key that never overlap know of it. *)
SteadyKey(k) == \A st \in Streams : k \in KeysOf(st) => Steady(st)

(* An open stream shares its keys with no other one; once it has inserted  *)
(* a report its key was inserted by nobody later; and a handler that may   *)
(* write the key again has inserted it.  WeightIsNewest is not inductive:  *)
(* it does not say which weight SetMissing will write.                     *)
WeightInv ==
  "overlap" \notin faults =>
    /\ \A st, other \in Streams :
          st # other /\ Open(st) /\ Open(other) => KeysOf(other) \cap KeysOf(st) = {}
    /\ \A st \in Streams : pc[st] \in {"masked", "check", "refresh", "set"} => ~first[st]
    /\ \A st \in Streams :
          Open(st) /\ ~first[st] /\ SteadyKey(req[st].key) =>
            inserted[req[st].key] = req[st].weight
    /\ \A k \in Keys : SteadyKey(k) /\ Alive(k) => weight[k] = inserted[k]

LEMMA WeightInit == Init => WeightInv
  BY DEF Init, WeightInv, Open, Alive

LEMMA FaultsStay == [Next]_vars => faults' = faults
  BY DEF Next, vars, Tick, Operators, Watch, Drop, Mark, Unmark, LoadMarks, StartWatch,
         WatchMark, AbandonWatcher, ReportLoad, Server, Handler, Recv, RecvError, Insert,
         WriteError, Check, Refresh, SetMissing

(* Steps after which no key is there that was not, and no handler further. *)
LEMMA WeightFrame ==
  ASSUME TypeOK, WeightInv, UNCHANGED <<faults, weight, inserted, req, first>>,
         \A k \in Keys : Alive(k)' => Alive(k),
         \A st \in Streams :
            \/ pc'[st] = pc[st]
            \/ pc'[st] = "ended"
            \/ Open(st) /\ pc'[st] \in {"recv", "insert"}
            \/ Open(st) /\ ~first[st]
  PROVE  WeightInv'
<1>1. \A st \in Streams : Open(st)' => Open(st)
  BY DEF Open
<1>2. \A k : SteadyKey(k)' <=> SteadyKey(k)
  BY DEF SteadyKey
<1> QED  BY <1>1, <1>2 DEF WeightInv

(* A stream's report is its only one if its key is steady. *)
LEMMA SteadyReport ==
  ASSUME NEW st \in Streams, NEW r \in Reports[st], NEW q \in Reports[st], SteadyKey(r.key)
  PROVE  r = q
  BY DEF SteadyKey, Steady, KeysOf

LEMMA WeightStream ==
  ASSUME TypeOK, WeightInv, NEW st \in Streams,
         ReportLoad(st) \/ Server(st) \/ Handler(st)
  PROVE  WeightInv'
<1>f. faults' = faults
  BY FaultsStay DEF Next
<1> SUFFICES ASSUME "overlap" \notin faults PROVE WeightInv'
  BY <1>f DEF WeightInv
<1>s. \A k : SteadyKey(k)' <=> SteadyKey(k)
  BY DEF SteadyKey
<1>1. CASE ReportLoad(st)
  <2>1. pc[st] = "idle" /\ first[st] /\ pc' = [pc EXCEPT ![st] = "recv"]
    BY <1>1 DEF ReportLoad, GoTo, TypeOK
  <2>2. UNCHANGED <<ttl, weight, inserted, first, req>>
    BY <1>1 DEF ReportLoad
  <2>3. \A other \in Streams : Open(other) => KeysOf(other) \cap KeysOf(st) = {}
    BY <1>1 DEF ReportLoad
  <2>4. \A s \in Streams : s # st => pc'[s] = pc[s]
    BY <2>1 DEF TypeOK
  <2>5. pc'[st] = "recv"
    BY <2>1 DEF TypeOK
  <2> QED  BY <1>f, <1>s, <2>1, <2>2, <2>3, <2>4, <2>5 DEF WeightInv, Open, Alive
<1>2. CASE RecvError(st) \/ WriteError(st)
  <2>1. pc' = [pc EXCEPT ![st] = "ended"] /\ UNCHANGED <<ttl, weight, inserted, first, req>>
    BY <1>2 DEF RecvError, WriteError, GoTo
  <2> QED  BY <1>f, <2>1, WeightFrame DEF Alive, TypeOK
<1>3. ASSUME NEW r \in Reports[st], Recv(st, r) PROVE WeightInv'
  <2>1. Open(st) /\ pc' = [pc EXCEPT ![st] = IF first[st] THEN "insert" ELSE "check"]
    BY <1>3 DEF Recv, AfterRecv, GoTo, Open, Waiting
  <2>2. UNCHANGED <<ttl, weight, inserted, first>> /\ req' = [req EXCEPT ![st] = r]
    BY <1>3 DEF Recv
  <2>3. ASSUME ~first[st], SteadyKey(r.key) PROVE req' = req
    <3>1. req[st] = r
      BY <2>3, RequestType, SteadyReport
    <3> QED  BY <2>2, <3>1 DEF TypeOK
  <2>4. \A s \in Streams : s # st => pc'[s] = pc[s] /\ req'[s] = req[s]
    BY <2>1, <2>2 DEF TypeOK
  <2>5. req'[st] = r /\ pc'[st] = IF first[st] THEN "insert" ELSE "check"
    BY <2>1, <2>2 DEF TypeOK
  <2> QED  BY <1>f, <1>s, <2>1, <2>2, <2>3, <2>4, <2>5 DEF WeightInv, Open, Alive
<1>4. CASE Insert(st)
  <2> DEFINE k == req[st].key
  <2>1. pc[st] = "insert" /\ Open(st)
    BY <1>4 DEF Insert, Open
  <2>2. req[st] \in Reports[st] /\ k \in Keys /\ k \in KeysOf(st)
    BY <2>1, RequestType DEF KeysOf
  <2>3. /\ weight' = [weight EXCEPT ![k] = req[st].weight]
        /\ inserted' = [inserted EXCEPT ![k] = req[st].weight]
        /\ ttl' = [ttl EXCEPT ![k] = TTL]
        /\ first' = [first EXCEPT ![st] = FALSE]
        /\ pc' = [pc EXCEPT ![st] = "check"]
        /\ req' = req
    BY <1>4 DEF Insert, SetKey, GoTo
  <2>4. \A o \in Keys : o # k => Alive(o)' = Alive(o) /\ weight'[o] = weight[o] /\ inserted'[o] = inserted[o]
    BY <2>2, <2>3 DEF Alive, TypeOK
  <2>5. weight'[k] = req[st].weight /\ inserted'[k] = req[st].weight
    BY <2>2, <2>3 DEF TypeOK
  <2>6. \A s \in Streams : s # st => pc'[s] = pc[s] /\ first'[s] = first[s]
    BY <2>3 DEF TypeOK
  <2>7. pc'[st] = "check" /\ ~first'[st]
    BY <2>3 DEF TypeOK
  (* Nobody else has the key. *)
  <2>8. ASSUME NEW s \in Streams, s # st, Open(s), ~first[s] PROVE req[s].key # k /\ req[s].key \in Keys
    <3>1. req[s].key \in KeysOf(s) /\ req[s].key \in Keys
      BY <2>8, RequestType DEF KeysOf
    <3> QED  BY <2>1, <2>2, <2>8, <3>1 DEF WeightInv
  <2> QED  BY <1>f, <1>s, <2>1, <2>3, <2>4, <2>5, <2>6, <2>7, <2>8 DEF WeightInv, Open
<1>5. CASE Check(st) \/ Refresh(st)
  <2>1. Open(st) /\ ~first[st] /\ UNCHANGED <<weight, inserted, first, req>>
    BY <1>5 DEF Check, Refresh, Open, WeightInv
  <2>2. \A s \in Streams : s # st => pc'[s] = pc[s]
    BY <1>5 DEF Check, Refresh, NotFound, GoTo, TypeOK
  <2>3. \A k \in Keys : Alive(k)' => Alive(k)
    <3>1. CASE ttl' = ttl
      BY <3>1 DEF Alive
    <3>2. CASE Alive(req[st].key) /\ ttl' = [ttl EXCEPT ![req[st].key] = TTL]
      BY <3>2 DEF Alive, TypeOK
    <3> QED  BY <1>5, <3>1, <3>2 DEF Check, Refresh, Refreshed
  <2> QED  BY <1>f, <2>1, <2>2, <2>3, WeightFrame
<1>6. CASE SetMissing(st)
  <2> DEFINE k == req[st].key
  <2>1. pc[st] = "set" /\ Open(st) /\ ~first[st]
    BY <1>6 DEF SetMissing, Open, WeightInv
  <2>2. k \in Keys
    BY <2>1, RequestType
  <2>3. /\ weight' = [weight EXCEPT ![k] = req[st].weight]
        /\ ttl' = [ttl EXCEPT ![k] = TTL]
        /\ pc' = [pc EXCEPT ![st] = "recv"]
        /\ UNCHANGED <<inserted, first, req>>
    BY <1>6 DEF SetMissing, SetKey, GoTo
  <2>4. \A o \in Keys : o # k => Alive(o)' = Alive(o) /\ weight'[o] = weight[o]
    BY <2>2, <2>3 DEF Alive, TypeOK
  <2>5. SteadyKey(k) => weight'[k] = inserted[k]
    BY <2>1, <2>2, <2>3 DEF WeightInv, TypeOK
  <2>6. \A s \in Streams : (Open(s)' <=> Open(s)) /\ (s # st => pc'[s] = pc[s])
    BY <2>1, <2>3 DEF Open, TypeOK
  <2> QED  BY <1>f, <1>s, <2>1, <2>3, <2>4, <2>5, <2>6 DEF WeightInv
<1> QED  BY <1>1, <1>2, <1>3, <1>4, <1>5, <1>6 DEF Server, Handler

LEMMA WeightStep == TypeOK /\ WeightInv /\ [Next]_vars => WeightInv'
<1> SUFFICES ASSUME TypeOK, WeightInv, [Next]_vars PROVE WeightInv'
  OBVIOUS
<1>1. CASE Tick \/ Operators \/ Watch \/ AbandonWatcher \/ UNCHANGED vars
  <2>1. UNCHANGED <<faults, weight, inserted, req, first, pc>>
    BY <1>1 DEF Tick, Operators, Watch, Drop, Mark, Unmark, LoadMarks, StartWatch, WatchMark,
                AbandonWatcher, vars
  <2>2. \A k \in Keys : Alive(k)' => Alive(k)
    <3>1. CASE ttl' = ttl
      BY <3>1 DEF Alive
    <3>2. CASE Tick
      BY <3>2 DEF Tick, Less, Alive, TypeOK
    <3>3. ASSUME NEW d \in Keys, Drop(d) PROVE \A k \in Keys : Alive(k)' => Alive(k)
      BY <3>3 DEF Drop, Alive, TypeOK
    <3> QED  BY <1>1, <3>1, <3>2, <3>3 DEF Operators, Watch, Mark, Unmark, LoadMarks, StartWatch,
                WatchMark, AbandonWatcher, vars
  <2> QED  BY <2>1, <2>2, WeightFrame
<1> QED  BY <1>1, WeightStream DEF Next

(* If no key has two streams at once, each listed server whose streams do  *)
(* not change their report has the weight it came up with last: whatever   *)
(* expires, is deleted, masked or refused in between.                      *)
THEOREM WeightIsAlwaysNewest == Spec => []WeightIsNewest
<1>1. WeightInv => WeightIsNewest
  BY DEF WeightInv, WeightIsNewest, SteadyKey
<1> QED  BY <1>1, WeightInit, WeightStep, TypeCorrect, PTL DEF Spec

-----------------------------------------------------------------------------
(* The marks SkyLB knows of. *)

IsLatest(ep, i) == i \in Pending(ep) /\ \A j \in Pending(ep) : j <= i

(* Of the events of an endpoint one is the latest, and it says what etcd   *)
(* has; without events SkyLB knows what etcd has.  That there is a latest  *)
(* one is part of the invariant, so that no induction over events is       *)
(* needed.                                                                 *)
Followed(ep) ==
  /\ Pending(ep) = {} => (ep \in lameducks <=> ep \in marks)
  /\ Pending(ep) # {} => \E i \in Pending(ep) : IsLatest(ep, i)
  /\ \A i \in Pending(ep) : IsLatest(ep, i) => (events[i].on <=> ep \in marks)

MarkInv ==
  /\ watcher # "watch" => events = <<>>
  /\ watcher = "load" => lameducks = {}
  /\ watcher # "load" => \A ep \in Endpoints \ blind : Followed(ep)

LEMMA MarkInit == Init => MarkInv
  BY DEF Init, MarkInv

LEMMA EventsType ==
  ASSUME TypeOK
  PROVE  /\ Len(events) \in Nat
         /\ DOMAIN events = 1..Len(events)
         /\ \A i \in 1..Len(events) : events[i] \in Change
  BY DEF TypeOK

LEMMA PendingType ==
  ASSUME TypeOK, NEW ep, NEW i \in Pending(ep)
  PROVE  i \in 1..Len(events) /\ i \in Int /\ events[i].ep = ep
  BY EventsType DEF Pending

(* Steps that leave what etcd and SkyLB know alone. *)
LEMMA MarkFrame ==
  ASSUME MarkInv, UNCHANGED <<events, marks, lameducks, blind>>,
         watcher' = watcher \/ (watcher = "loaded" /\ watcher' = "watch")
  PROVE  MarkInv'
<1>1. \A ep : Pending(ep)' = Pending(ep)
  BY DEF Pending
<1>2. \A ep : Followed(ep)' <=> Followed(ep)
  BY <1>1 DEF Followed, IsLatest
<1> QED  BY <1>2 DEF MarkInv

(* A mark that is set or cleared. *)
LEMMA MarkChanged ==
  ASSUME TypeOK, MarkInv, NEW ep \in Endpoints, NEW on \in BOOLEAN,
         Changed(ep, on), UNCHANGED <<watcher, lameducks>>,
         ep \in marks' <=> on, \A o \in Endpoints : o # ep => (o \in marks' <=> o \in marks)
  PROVE  MarkInv'
<1>1. CASE watcher # "watch"
  <2>1. events' = events /\ events = <<>> /\ watcher' = watcher
    BY <1>1 DEF Changed, MarkInv
  <2>2. watcher = "loaded" => blind' = blind \cup {ep}
    BY <1>1 DEF Changed
  <2>3. watcher \in {"load", "loaded", "watch"}
    BY DEF TypeOK
  <2>4. ASSUME NEW o \in Endpoints \ blind', watcher = "loaded" PROVE Followed(o)'
    <3>1. o \notin blind /\ o # ep
      BY <2>2, <2>4
    <3>2. Followed(o) /\ Pending(o) = {} /\ Pending(o)' = {}
      BY <2>1, <2>4, <3>1 DEF MarkInv, Pending
    <3> QED  BY <2>1, <3>1, <3>2 DEF Followed
  <2> QED  BY <1>1, <2>1, <2>3, <2>4 DEF MarkInv
<1>2. CASE watcher = "watch"
  <2> DEFINE e == [ep |-> ep, on |-> on]
             n == Len(events) + 1
  <2>1. /\ events' = Append(events, e) /\ blind' = blind \ {ep} /\ watcher' = watcher
        /\ e \in Change /\ events \in Seq(Change)
    BY <1>2 DEF Changed, Change, TypeOK
  <2>2. n \in Nat /\ Len(events') = n /\ events' \in Seq(Change)
    BY <2>1
  <2>3. \A i \in 1..Len(events) : events'[i] = events[i]
    BY <2>1
  <2>4. events'[n] = e
    BY <2>1
  <2>5. DOMAIN events' = 1..n /\ DOMAIN events = 1..Len(events) /\ Len(events) \in Nat
    BY <2>1, <2>2
  <2>6. ASSUME NEW o
        PROVE  Pending(o)' = Pending(o) \cup (IF o = ep THEN {n} ELSE {})
    BY <2>3, <2>4, <2>5 DEF Pending
  <2>7. Followed(ep)'
    <3>1. n \in Pending(ep)' /\ \A j \in Pending(ep)' : j <= n /\ j \in Int
      BY <2>2, <2>5, <2>6 DEF Pending
    <3>2. \A i \in Pending(ep)' : IsLatest(ep, i)' => i = n
      BY <3>1, <2>2 DEF IsLatest
    <3> QED  BY <2>4, <3>1, <3>2 DEF Followed, IsLatest
  <2>8. ASSUME NEW o \in Endpoints \ blind, o # ep PROVE Followed(o)'
    <3>1. Pending(o)' = Pending(o) /\ \A i \in Pending(o) : events'[i] = events[i]
      BY <2>3, <2>6, <2>8, PendingType
    <3>2. Followed(o)
      BY <1>2, <2>8 DEF MarkInv
    <3> QED  BY <2>8, <3>1, <3>2 DEF Followed, IsLatest
  <2> QED  BY <1>2, <2>1, <2>7, <2>8 DEF MarkInv
<1> QED  BY <1>1, <1>2

LEMMA MarkLoad ==
  ASSUME TypeOK, MarkInv, LoadMarks
  PROVE  MarkInv'
<1>1. watcher = "load" /\ watcher' = "loaded" /\ events' = <<>> /\ marks' = marks
  BY DEF LoadMarks, MarkInv
<1>2. \A ep : Pending(ep)' = {}
  BY <1>1 DEF Pending
<1>3. \A ep \in Endpoints \ blind' : ep \in lameducks' <=> ep \in marks
  BY DEF LoadMarks, Loaded, MarkInv
<1> QED  BY <1>1, <1>2, <1>3 DEF MarkInv, Followed

(* The first event is taken: the positions of the others move by one. *)
LEMMA MarkWatch ==
  ASSUME TypeOK, MarkInv, WatchMark
  PROVE  MarkInv'
<1> DEFINE e == events[1]
<1>1. /\ watcher = "watch" /\ watcher' = watcher /\ UNCHANGED <<marks, blind>>
      /\ events # <<>> /\ events' = Tail(events) /\ events \in Seq(Change)
      /\ lameducks' = IF e.on THEN lameducks \cup {e.ep} ELSE lameducks \ {e.ep}
  <2>1. events \in Seq(Change) /\ events # <<>>
    BY DEF WatchMark, TypeOK
  <2>2. Head(events) = e
    BY <2>1
  <2> QED  BY <2>1, <2>2 DEF WatchMark
<1>2. /\ Len(events') = Len(events) - 1
      /\ Len(events) \in Nat \ {0}
      /\ DOMAIN events' = 1..(Len(events) - 1)
      /\ DOMAIN events = 1..Len(events)
      /\ \A i \in 1..(Len(events) - 1) : events'[i] = events[i + 1]
  BY <1>1
<1> SUFFICES ASSUME NEW ep \in Endpoints \ blind PROVE Followed(ep)'
  BY <1>1 DEF MarkInv
<1>3. Followed(ep)
  BY <1>1 DEF MarkInv
<1>4. \A i \in Pending(ep) : i \in Int /\ i >= 1 /\ (i # 1 => i - 1 \in Pending(ep)')
  BY <1>2 DEF Pending
<1>5. \A i \in Pending(ep)' : i + 1 \in Pending(ep) /\ i \in Int /\ i >= 1 /\ events'[i] = events[i + 1]
  BY <1>2 DEF Pending
<1>6. CASE Pending(ep)' = {}
  <2>1. CASE 1 \in Pending(ep)
    <3>1. IsLatest(ep, 1) /\ e.ep = ep
      BY <1>4, <1>6, <2>1 DEF IsLatest, Pending
    <3>2. e.on <=> ep \in marks
      BY <1>3, <2>1, <3>1 DEF Followed
    <3>3. ep \in lameducks' <=> e.on
      BY <1>1, <3>1
    <3> QED  BY <1>1, <1>6, <3>2, <3>3 DEF Followed
  <2>2. CASE 1 \notin Pending(ep)
    <3>1. Pending(ep) = {}
      BY <1>4, <1>6, <2>2
    <3>2. e.ep # ep
      BY <1>2, <2>2 DEF Pending
    <3>3. ep \in lameducks' <=> ep \in lameducks
      BY <1>1, <3>2
    <3> QED  BY <1>1, <1>3, <1>6, <3>1, <3>3 DEF Followed
  <2> QED  BY <2>1, <2>2
<1>7. CASE Pending(ep)' # {}
  <2>1. PICK i \in Pending(ep) : IsLatest(ep, i)
    BY <1>3, <1>5, <1>7 DEF Followed
  <2>2. i - 1 \in Pending(ep)' /\ \A j \in Pending(ep)' : j <= i - 1
    <3>1. \A j \in Pending(ep)' : j + 1 <= i /\ j >= 1 /\ j \in Int
      BY <1>5, <2>1 DEF IsLatest
    <3>2. i # 1 /\ i \in Int
      BY <1>4, <1>7, <2>1, <3>1
    <3> QED  BY <1>4, <2>1, <3>1, <3>2
  <2>3. IsLatest(ep, i - 1)'
    BY <2>2 DEF IsLatest
  <2>4. ASSUME NEW j \in Pending(ep)', IsLatest(ep, j)' PROVE events'[j].on <=> ep \in marks
    <3>1. j = i - 1 /\ i \in Int
      BY <1>4, <1>5, <2>1, <2>2, <2>4 DEF IsLatest
    <3>2. events'[j] = events[i]
      BY <1>5, <2>4, <3>1
    <3> QED  BY <1>3, <2>1, <3>2 DEF Followed
  <2> QED  BY <1>1, <1>7, <2>2, <2>3, <2>4 DEF Followed
<1> QED  BY <1>6, <1>7

LEMMA MarkAbandon ==
  ASSUME TypeOK, MarkInv, AbandonWatcher
  PROVE  MarkInv'
<1>1. /\ watcher = "watch" /\ watcher' = "loaded" /\ events' = <<>> /\ UNCHANGED <<marks, lameducks>>
      /\ blind' = blind \cup {events[i].ep : i \in DOMAIN events}
  BY DEF AbandonWatcher
<1>2. ASSUME NEW ep \in Endpoints \ blind' PROVE Followed(ep)'
  <2>1. Pending(ep) = {} /\ Pending(ep)' = {}
    BY <1>1, <1>2 DEF Pending
  <2>2. Followed(ep)
    BY <1>1, <1>2 DEF MarkInv
  <2> QED  BY <1>1, <2>1, <2>2 DEF Followed
<1> QED  BY <1>1, <1>2 DEF MarkInv

LEMMA MarkStep == TypeOK /\ MarkInv /\ [Next]_vars => MarkInv'
<1> SUFFICES ASSUME TypeOK, MarkInv, [Next]_vars PROVE MarkInv'
  OBVIOUS
<1>1. ASSUME NEW ep \in Endpoints, Mark(ep) PROVE MarkInv'
  <2>1. ep \in marks' /\ \A o : o # ep => (o \in marks' <=> o \in marks)
    BY <1>1 DEF Mark
  <2> QED  BY <1>1, <2>1, MarkChanged DEF Mark
<1>2. ASSUME NEW ep \in Endpoints, Unmark(ep) PROVE MarkInv'
  <2>1. ep \notin marks' /\ \A o : o # ep => (o \in marks' <=> o \in marks)
    BY <1>2 DEF Unmark
  <2> QED  BY <1>2, <2>1, MarkChanged DEF Unmark
<1>3. ASSUME NEW k \in Keys, Drop(k) PROVE MarkInv'
  BY <1>3, MarkFrame DEF Drop
<1>4. CASE Tick \/ StartWatch \/ UNCHANGED vars
  BY <1>4, MarkFrame DEF Tick, StartWatch, vars
<1>5. ASSUME NEW st \in Streams, ReportLoad(st) \/ Server(st) \/ Handler(st) PROVE MarkInv'
  <2>1. UNCHANGED markVars
    BY <1>5 DEF ReportLoad, Server, Handler, Recv, RecvError, Insert, WriteError, Check, Refresh,
                SetMissing
  <2> QED  BY <2>1, MarkFrame
<1> QED  BY <1>1, <1>2, <1>3, <1>4, <1>5, MarkLoad, MarkWatch, MarkAbandon DEF Next, Operators, Watch

(* Wherever the watcher is, it ends up with the marks of etcd for each     *)
(* endpoint whose last change was not one it could not see: for any number *)
(* of endpoints and waiting events.                                        *)
THEOREM MarksAreFollowed == Spec => []MarksFollowed
<1>1. TypeOK /\ MarkInv => MarksFollowed
  <2> SUFFICES ASSUME TypeOK, MarkInv, watcher # "load", NEW ep \in Endpoints \ blind
               PROVE  Foreseen(ep) <=> ep \in marks
    BY DEF MarksFollowed
  <2>1. Followed(ep)
    BY DEF MarkInv
  <2>2. CASE Pending(ep) = {}
    BY <2>1, <2>2 DEF Foreseen, Followed
  <2>3. CASE Pending(ep) # {}
    <3>1. \E i \in Pending(ep) : \A j \in Pending(ep) : j <= i
      BY <2>1, <2>3 DEF Followed, IsLatest
    <3>2. IsLatest(ep, Latest(ep))
      BY <3>1 DEF Latest, IsLatest
    <3> QED  BY <2>1, <2>3, <3>2 DEF Foreseen, Followed, IsLatest
  <2> QED  BY <2>2, <2>3
<1> QED  BY <1>1, MarkInit, MarkStep, TypeCorrect, PTL DEF Spec
=============================================================================
