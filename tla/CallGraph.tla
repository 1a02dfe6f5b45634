------------------------------ MODULE CallGraph ------------------------------
(***************************************************************************)
(* The graph of who calls whom, as the web server builds and prints it:    *)
(* GetDependencies (cmd/webserver/svclist/etcdop.go) reads the records     *)
(* of all calls from etcd, keeps those of the newest time of each caller   *)
(* in the package variables of hub/svcgraph.go, and walks the graph from   *)
(* its roots.                                                              *)
(*                                                                         *)
(* One call of GetDependencies runs after another.  It reads etcd once, so *)
(* that records which change while it works count as changing afterwards.  *)
(***************************************************************************)
EXTENDS Integers, Sequences, FiniteSets

CONSTANTS
    Names,        \* services, which call each other
    Pairs,        \* the calls that happen, callee first
    StackLimit,   \* calls of traverseCalls that fit on a stack
    MaxTime       \* bound: the times of records

ASSUME PairAssumption == Pairs \subseteq Names \X Names
ASSUME NameAssumption == IsFiniteSet(Names)
(* Go's stacks grow to a gigabyte. *)
ASSUME StackAssumption == StackLimit \in Nat /\ StackLimit > Cardinality(Names)
ASSUME BoundAssumption == MaxTime \in Nat \ {0}

Times == 1..MaxTime
CallerInfo == [caller : Names, at : Times]
Formats == {"leaf", "child"}

VARIABLES
    format,           \* where a record has its time: in the caller's key, as
                      \* TrackServiceGraph writes it, or in a child of it
    tree,             \* per pair, the time of its record in etcd; 0: none
    now,              \* the time
    latestCallers,    \* the entries of the list; one marked for removal is
                      \* never looked at again and counts as removed
    ahead,            \* which entry of the list comes before which
    callingMap,       \* per caller and time, the callees; {}: no entry
    SimpleCallingMap, \* per caller, the callees; {}: no entry
    pc,               \* where GetDependencies is
    data,             \* the records it has read: per pair, the time or 0
    todo,             \* those it has still to put into the tables
    inOrder,          \* whether the tables were empty and older records of a
                      \* caller came before its newer ones (history)
    roots,            \* the roots it has still to walk from
    stack,            \* calls of traverseCalls, with the callees left to do
    shown             \* the names printed

treeVars == <<format, tree, now>>
graphVars == <<latestCallers, ahead, callingMap, SimpleCallingMap>>
walkVars == <<roots, stack, shown>>
vars == <<format, tree, now, latestCallers, ahead, callingMap, SimpleCallingMap, pc,
          data, todo, inOrder, roots, stack, shown>>

NoCalls == [c \in Names |-> {}]
NoRecords == [ci \in CallerInfo |-> {}]

(* parseCallPair and the time found. *)
InfoOf(p) == [caller |-> p[2], at |-> data[p]]

Init ==
    /\ format \in Formats
    /\ tree = [p \in Pairs |-> 0]
    /\ now = 1
    /\ latestCallers = {}
    /\ ahead = {}
    /\ callingMap = NoRecords
    /\ SimpleCallingMap = NoCalls
    /\ pc = "idle"
    /\ data = [p \in Pairs |-> 0]
    /\ todo = {}
    /\ inOrder = TRUE
    /\ roots = {}
    /\ stack = <<>>
    /\ shown = {}

-----------------------------------------------------------------------------
(* The records in etcd (see GraphTracking). *)

Write(p) ==
    /\ pc = "idle"
    /\ tree' = [tree EXCEPT ![p] = now]
    /\ UNCHANGED <<format, now, graphVars, pc, data, todo, inOrder, walkVars>>

Expire(p) ==
    /\ pc = "idle"
    /\ tree[p] # 0
    /\ tree' = [tree EXCEPT ![p] = 0]
    /\ UNCHANGED <<format, now, graphVars, pc, data, todo, inOrder, walkVars>>

Tick ==
    /\ pc = "idle"
    /\ now < MaxTime
    /\ now' = now + 1
    /\ UNCHANGED <<format, tree, graphVars, pc, data, todo, inOrder, walkVars>>

-----------------------------------------------------------------------------
(* BuildDependencies. *)

KeptTable == callingMap  \* mutant: the map is not replaced
EmptyTable == NoRecords

(* The maps are replaced, latestCallers is not.                            *)
Reset ==
    /\ callingMap' = EmptyTable
    /\ SimpleCallingMap' = NoCalls
    /\ UNCHANGED <<latestCallers, ahead>>

(* It looks for times in the children of a caller's key, and finds none in *)
(* a key that has no children.                                             *)
Readable == IF format = "child" THEN tree ELSE [p \in Pairs |-> 0]

FoundAll == Pairs  \* mutant: every key is taken for a record
Found == {p \in Pairs : Readable[p] # 0}

Build ==
    /\ pc = "idle"
    /\ Reset
    /\ data' = Readable
    /\ todo' = Found
    /\ inOrder' = (latestCallers = {})
    /\ pc' = "record"
    /\ shown' = {}
    /\ UNCHANGED <<treeVars, roots, stack>>

(* The read fails after the maps have been replaced. *)
BuildError ==
    /\ pc = "idle"
    /\ Reset
    /\ data' = [p \in Pairs |-> 0]
    /\ shown' = {}
    /\ UNCHANGED <<treeVars, pc, todo, inOrder, roots, stack>>

newerThan(ci, other) == ci.caller = other.caller /\ ci.at > other.at

(* The entries recordCallPairs looks at: those before one equal to ci. *)
Scanned(ci) ==
    {other \in latestCallers \ {ci} : ci \in latestCallers => <<other, ci>> \in ahead}

OutdatedNone(ci) == {}  \* mutant: older entries stay
Outdated(ci) == {other \in Scanned(ci) : newerThan(ci, other)}

(* recordCallPairs, for one record after the other in the order in which   *)
(* etcd lists them: it promises none.                                      *)
Record(p) ==
    LET ci == InfoOf(p)
        old == Outdated(ci)
        kept == latestCallers \ old
    IN  /\ pc = "record"
        /\ p \in todo
        /\ todo' = todo \ {p}
        /\ latestCallers' = kept \cup {ci}
        /\ ahead' = {pair \in ahead : pair[1] \notin old /\ pair[2] \notin old}
                        \cup (IF ci \in kept THEN {} ELSE kept \X {ci})
        /\ callingMap' = [other \in CallerInfo |->
                            IF other = ci THEN callingMap[ci] \cup {p[1]}
                            ELSE IF other \in old THEN {}
                            ELSE callingMap[other]]
        /\ inOrder' = (inOrder /\ \A q \in Pairs \ todo :
                            q[2] = p[2] => data[q] <= data[p])
        /\ UNCHANGED <<treeVars, SimpleCallingMap, pc, data, walkVars>>

(* The times of a caller that have an entry. *)
Recorded(c) == {t \in Times : callingMap[[caller |-> c, at |-> t]] # {}}

(* finishRecording: entries of a caller overwrite each other in the order  *)
(* of a Go map, which is any.                                              *)
Finish ==
    /\ pc = "record"
    /\ todo = {}
    /\ \E last \in [Names -> Times] :
        /\ \A c \in Names : Recorded(c) # {} => last[c] \in Recorded(c)
        /\ SimpleCallingMap' = [c \in Names |-> callingMap[[caller |-> c, at |-> last[c]]]]
    /\ pc' = "roots"
    /\ UNCHANGED <<treeVars, latestCallers, ahead, callingMap, data, todo, inOrder, walkVars>>

-----------------------------------------------------------------------------
(* GetDependencies. *)

RootsNotCalling ==  \* mutant: callee and caller mixed up
    {c \in Names : SimpleCallingMap[c] = {} /\ \E d \in Names : c \in SimpleCallingMap[d]}
FindRoots ==
    {c \in Names : SimpleCallingMap[c] # {} /\ \A d \in Names : c \notin SimpleCallingMap[d]}

StartWalk ==
    /\ pc = "roots"
    /\ roots' = FindRoots
    /\ pc' = "walk"
    /\ UNCHANGED <<treeVars, graphVars, data, todo, inOrder, stack, shown>>

(* traverseCalls is called for c: it prints the name and has the callees   *)
(* of c before it.  The program dies when the stack has no room.           *)
Call(c, base) ==
    IF Len(base) < StackLimit
    THEN /\ stack' = Append(base, [caller |-> c, left |-> SimpleCallingMap[c]])
         /\ shown' = shown \cup {c}
         /\ UNCHANGED pc
    ELSE /\ pc' = "crashed"
         /\ UNCHANGED <<stack, shown>>

WalkRoot(c) ==
    /\ pc = "walk"
    /\ stack = <<>>
    /\ c \in roots
    /\ roots' = roots \ {c}
    /\ Call(c, <<>>)
    /\ UNCHANGED <<treeVars, graphVars, data, todo, inOrder>>

Top == stack[Len(stack)]

IsLoopNever(c) == FALSE  \* mutant: no check
(* "Loop detected": a service that calls itself is not called again. *)
IsLoop(c) == c = Top.caller

WalkCallee(c) ==
    LET rest == [stack EXCEPT ![Len(stack)].left = @ \ {c}]
    IN  /\ pc = "walk"
        /\ stack # <<>>
        /\ c \in Top.left
        /\ IF IsLoop(c)
           THEN /\ stack' = rest
                /\ UNCHANGED <<pc, shown>>
           ELSE Call(c, rest)
        /\ UNCHANGED <<treeVars, graphVars, data, todo, inOrder, roots>>

Return ==
    /\ pc = "walk"
    /\ stack # <<>>
    /\ Top.left = {}
    /\ stack' = SubSeq(stack, 1, Len(stack) - 1)
    /\ UNCHANGED <<treeVars, graphVars, pc, data, todo, inOrder, roots, shown>>

WalkDone == pc = "walk" /\ stack = <<>> /\ roots = {}

(* GetDependencies returns. *)
Finished ==
    /\ WalkDone
    /\ pc' = "idle"
    /\ data' = [p \in Pairs |-> 0]
    /\ inOrder' = TRUE
    /\ shown' = {}
    /\ UNCHANGED <<treeVars, graphVars, todo, roots, stack>>

(* The program starts again with empty tables. *)
Restart ==
    /\ pc = "crashed"
    /\ latestCallers' = {}
    /\ ahead' = {}
    /\ callingMap' = NoRecords
    /\ SimpleCallingMap' = NoCalls
    /\ pc' = "idle"
    /\ data' = [p \in Pairs |-> 0]
    /\ inOrder' = TRUE
    /\ roots' = {}
    /\ stack' = <<>>
    /\ shown' = {}
    /\ UNCHANGED <<treeVars, todo>>

-----------------------------------------------------------------------------
Etcd == Tick \/ \E p \in Pairs : Write(p) \/ Expire(p)

BuildDependencies == Build \/ BuildError \/ Finish \/ \E p \in Pairs : Record(p)

Walk == StartWalk \/ Return \/ Finished \/ \E c \in Names : WalkRoot(c) \/ WalkCallee(c)

Next == Etcd \/ BuildDependencies \/ Walk \/ Restart

Spec == Init /\ [][Next]_vars

-----------------------------------------------------------------------------
(* The values of every variable; only recording leaves records to do.      *)
TypeOK ==
    /\ format \in Formats
    /\ tree \in [Pairs -> {0} \cup Times]
    /\ now \in Times
    /\ latestCallers \subseteq CallerInfo
    /\ ahead \subseteq CallerInfo \X CallerInfo
    /\ callingMap \in [CallerInfo -> SUBSET Names]
    /\ SimpleCallingMap \in [Names -> SUBSET Names]
    /\ pc \in {"idle", "record", "roots", "walk", "crashed"}
    /\ data \in [Pairs -> {0} \cup Times]
    /\ todo \subseteq {p \in Pairs : data[p] # 0}
    /\ pc # "record" => todo = {}
    /\ inOrder \in BOOLEAN
    /\ roots \subseteq Names
    /\ stack \in Seq([caller : Names, left : SUBSET Names])
    /\ shown \subseteq Names

(* What the documentation says the graph of the records read is. *)
CallsAt(c, t) == {p[1] : p \in {q \in Pairs : q[2] = c /\ data[q] = t}}
TimesOf(c) == {t \in Times : CallsAt(c, t) # {}}
IsNewest(c, t) == t \in TimesOf(c) /\ \A u \in TimesOf(c) : u <= t
Built == pc \in {"roots", "walk"}

(* Every caller that has records is in the graph, with calls of one time   *)
(* only, and with all of them if that is its newest: nothing is left from  *)
(* an earlier call of BuildDependencies, and no record of the newest time  *)
(* is dropped, in whatever order they come.                                *)
OneTimeShown ==
    Built => \A c \in Names :
        /\ (SimpleCallingMap[c] = {}) <=> (TimesOf(c) = {})
        /\ \E t \in Times :
            /\ SimpleCallingMap[c] \subseteq CallsAt(c, t)
            /\ IsNewest(c, t) => SimpleCallingMap[c] = CallsAt(c, t)

(* Records that come oldest first, into tables that were empty, give the   *)
(* newest calls of each caller: what TestRecordCallPairs tries.            *)
OldestFirstShowsNewest ==
    Built /\ inOrder => \A c \in Names, t \in Times :
        IsNewest(c, t) => SimpleCallingMap[c] = CallsAt(c, t)

(* The names from which, or to which, a call leads. *)
Nodes == {c \in Names : SimpleCallingMap[c] # {} \/ \E d \in Names : c \in SimpleCallingMap[d]}
(* A graph is without cycles if every set of its nodes has one that is     *)
(* called by none of the set.                                              *)
Acyclic(calls) ==
    \A S \in SUBSET Names : S # {} => \E c \in S : \A d \in S : c \notin calls[d]
NoSelfCalls == [c \in Names |-> SimpleCallingMap[c] \ {c}]

(* The walk that looks for no cycle but a self-call prints all of a graph  *)
(* that has none, however calls meet in it, and only a cycle of several    *)
(* services can exhaust the stack.                                         *)
WalkIsSafe ==
    /\ WalkDone /\ Acyclic(SimpleCallingMap) => shown = Nodes
    /\ pc = "crashed" => ~Acyclic(NoSelfCalls)

(* "The dependency is recorded by SkyLB when the grpc client calls [...]   *)
(* Resolve(serviceSpec)" (docs/service-dependency-graph.md): the callers   *)
(* in etcd are in the graph.                                               *)
TrackedIsShown ==
    Built => \A p \in Pairs : tree[p] # 0 => SimpleCallingMap[p[2]] # {}
=============================================================================
