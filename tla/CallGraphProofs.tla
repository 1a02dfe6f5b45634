--------------------------- MODULE CallGraphProofs ---------------------------
(***************************************************************************)
(* Theorems about CallGraph, for all services, calls, times and stacks.    *)
(***************************************************************************)
EXTENDS CallGraph, SequenceTheorems, FiniteSetTheorems, TLAPS

-----------------------------------------------------------------------------
(* Types. *)

LEMMA PairType == \A p \in Pairs : p[1] \in Names /\ p[2] \in Names
  BY PairAssumption

LEMMA InfoType ==
  ASSUME TypeOK, NEW p \in todo
  PROVE  p \in Pairs /\ InfoOf(p) \in CallerInfo
  BY PairType DEF TypeOK, InfoOf, CallerInfo, Times

LEMMA TypeInit == Init => TypeOK
  BY BoundAssumption DEF Init, TypeOK, NoRecords, NoCalls, Times

(* traverseCalls leaves a stack and a set of names. *)
Frame == [caller : Names, left : SUBSET Names]

LEMMA CallType ==
  ASSUME TypeOK, NEW c \in Names, NEW base \in Seq(Frame), Call(c, base), pc = "walk"
  PROVE  /\ stack' \in Seq(Frame)
         /\ shown' \subseteq Names
         /\ pc' \in {"walk", "crashed"}
<1> DEFINE frame == [caller |-> c, left |-> SimpleCallingMap[c]]
<1>1. frame \in Frame
  BY DEF TypeOK, Frame
<1>2. stack \in Seq(Frame) /\ shown \subseteq Names
  BY DEF TypeOK, Frame
<1>3. \/ stack' = Append(base, frame) /\ shown' = shown \cup {c} /\ pc' = pc
      \/ pc' = "crashed" /\ stack' = stack /\ shown' = shown
  BY DEF Call
<1> HIDE DEF frame
<1> QED  BY <1>1, <1>2, <1>3

LEMMA RecordType ==
  ASSUME TypeOK, NEW p \in Pairs, Record(p)
  PROVE  TypeOK'
<1>1. InfoOf(p) \in CallerInfo /\ p[1] \in Names
  BY InfoType, PairType DEF Record
<1>2. latestCallers' \subseteq CallerInfo
  BY <1>1 DEF Record, TypeOK
<1>3. ahead' \subseteq CallerInfo \X CallerInfo
  <2>1. ahead \subseteq CallerInfo \X CallerInfo /\ latestCallers \subseteq CallerInfo
    BY DEF TypeOK
  <2>2. \A pair \in ahead' : pair \in ahead \/ pair \in latestCallers \X {InfoOf(p)}
    BY DEF Record
  <2> QED  BY <1>1, <2>1, <2>2
<1>4. callingMap' \in [CallerInfo -> SUBSET Names]
  BY <1>1 DEF Record, TypeOK
<1>5. inOrder' \in BOOLEAN
  BY DEF Record, TypeOK
<1> QED  BY <1>2, <1>3, <1>4, <1>5 DEF Record, TypeOK, treeVars, walkVars

LEMMA FinishType ==
  ASSUME TypeOK, Finish
  PROVE  TypeOK'
<1>2. SimpleCallingMap' \in [Names -> SUBSET Names]
  BY DEF Finish, TypeOK, CallerInfo
<1> QED  BY <1>2 DEF Finish, TypeOK, treeVars, walkVars

LEMMA WalkType ==
  ASSUME TypeOK, NEW c \in Names, WalkRoot(c) \/ WalkCallee(c)
  PROVE  TypeOK'
<1>1. CASE WalkRoot(c)
  <2>1. Call(c, <<>>) /\ pc = "walk" /\ <<>> \in Seq(Frame)
    BY <1>1 DEF WalkRoot
  <2>2. /\ stack' \in Seq(Frame)
        /\ shown' \subseteq Names
        /\ pc' \in {"walk", "crashed"}
    BY <2>1, CallType
  <2>3. roots' \subseteq Names
    BY <1>1 DEF WalkRoot, TypeOK
  <2> QED  BY <1>1, <2>2, <2>3 DEF WalkRoot, TypeOK, treeVars, graphVars, Frame
<1>2. CASE WalkCallee(c)
  <2> DEFINE rest == [stack EXCEPT ![Len(stack)].left = @ \ {c}]
  <2>1. pc = "walk" /\ stack \in Seq(Frame) /\ stack # <<>>
    BY <1>2 DEF WalkCallee, TypeOK, Frame
  <2>2. Len(stack) \in DOMAIN stack /\ stack[Len(stack)] \in Frame
    BY <2>1
  <2>3. [stack[Len(stack)] EXCEPT !.left = @ \ {c}] \in Frame
    BY <2>2 DEF Frame
  <2>5. rest \in Seq(Frame)
    BY <2>1, <2>2, <2>3, ExceptSeq
  <2>6. /\ stack' \in Seq(Frame)
        /\ shown' \subseteq Names
        /\ pc' \in {"walk", "crashed"}
    <3>1. CASE IsLoop(c)
      BY <1>2, <2>1, <2>5, <3>1 DEF WalkCallee, TypeOK
    <3>2. CASE ~IsLoop(c)
      <4>1. Call(c, rest)
        BY <1>2, <3>2 DEF WalkCallee
      <4> HIDE DEF rest
      <4> QED  BY <2>1, <2>5, <4>1, CallType
    <3> QED  BY <3>1, <3>2
  <2> QED  BY <1>2, <2>6 DEF WalkCallee, TypeOK, treeVars, graphVars, Frame
<1> QED  BY <1>1, <1>2

LEMMA TypeStep == TypeOK /\ [Next]_vars => TypeOK'
<1> SUFFICES ASSUME TypeOK, [Next]_vars PROVE TypeOK'
  OBVIOUS
<1> USE DEF treeVars, graphVars, walkVars
<1>1. ASSUME Etcd PROVE TypeOK'
  <2>1. CASE Tick
    BY <2>1, BoundAssumption DEF Tick, TypeOK, Times
  <2>2. ASSUME NEW p \in Pairs, Write(p) \/ Expire(p) PROVE TypeOK'
    BY <2>2 DEF Write, Expire, TypeOK
  <2> QED  BY <1>1, <2>1, <2>2 DEF Etcd
<1>2. ASSUME BuildDependencies PROVE TypeOK'
  <2>1. Readable \in [Pairs -> {0} \cup Times]
    BY DEF Readable, TypeOK
  <2>2. CASE Build
    BY <2>1, <2>2 DEF Build, Reset, EmptyTable, NoRecords, NoCalls, Found, TypeOK
  <2>3. CASE BuildError
    <3>1. todo = {} /\ pc = "idle"
      BY <2>3 DEF BuildError, TypeOK
    <3> QED  BY <2>3, <3>1 DEF BuildError, Reset, EmptyTable, NoRecords, NoCalls, TypeOK
  <2> QED  BY <1>2, <2>2, <2>3, RecordType, FinishType DEF BuildDependencies
<1>3. ASSUME Walk PROVE TypeOK'
  <2>1. CASE StartWalk
    BY <2>1 DEF StartWalk, FindRoots, TypeOK
  <2>2. CASE Return
    <3>1. stack \in Seq(Frame) /\ stack' = SubSeq(stack, 1, Len(stack) - 1) /\ stack # <<>>
      BY <2>2 DEF Return, TypeOK, Frame
    <3>2. stack' \in Seq(Frame)
      BY <3>1
    <3> QED  BY <2>2, <3>2 DEF Return, TypeOK, Frame
  <2>3. CASE Finished
    BY <2>3 DEF Finished, WalkDone, TypeOK
  <2> QED  BY <1>3, <2>1, <2>2, <2>3, WalkType DEF Walk
<1>4. CASE Restart
  BY <1>4 DEF Restart, NoRecords, NoCalls, TypeOK
<1>5. CASE UNCHANGED vars
  BY <1>5 DEF vars, TypeOK
<1> QED  BY <1>1, <1>2, <1>3, <1>4, <1>5 DEF Next

(* Every variable keeps its type, whatever is recorded and walked. *)
THEOREM TypeCorrect == Spec => []TypeOK
  BY TypeInit, TypeStep, PTL DEF Spec


-----------------------------------------------------------------------------
(* What is recorded. *)

(* The callees of the records of a caller and time that are in the tables. *)
Done(c, t) == {p[1] : p \in {q \in Pairs \ todo : q[2] = c /\ data[q] = t}}

(* The entry of the newest time seen so far is whole; older ones may have  *)
(* lost callees, and never have others.  OneTimeShown is not inductive: it *)
(* says nothing while records are put into the tables.                     *)
RecordInv ==
  pc = "record" => \A c \in Names :
    /\ \A t \in Times : callingMap[[caller |-> c, at |-> t]] \subseteq Done(c, t)
    /\ \A t \in Times :
          (Done(c, t) # {} /\ \A u \in Times : Done(c, u) # {} => u <= t)
            => callingMap[[caller |-> c, at |-> t]] = Done(c, t)
    /\ (\E t \in Times : Done(c, t) # {}) => Recorded(c) # {}

GraphInv == RecordInv /\ OneTimeShown

LEMMA GraphInit == Init => GraphInv
  BY DEF Init, GraphInv, RecordInv, OneTimeShown, Built

LEMMA GraphBuild ==
  ASSUME TypeOK, Build
  PROVE  GraphInv'
<1>1. pc' = "record" /\ callingMap' = NoRecords /\ data' = Readable /\ todo' = Found
  BY DEF Build, Reset, EmptyTable
<1>2. \A q \in Pairs \ todo' : data'[q] = 0
  BY <1>1 DEF Found
<1>3. \A c \in Names, t \in Times : Done(c, t)' = {}
  BY <1>2 DEF Done, Times
<1>4. \A c \in Names, t \in Times : callingMap'[[caller |-> c, at |-> t]] = {}
  BY <1>1 DEF NoRecords, CallerInfo
<1> QED  BY <1>1, <1>3, <1>4 DEF GraphInv, RecordInv, OneTimeShown, Built

LEMMA GraphRecord ==
  ASSUME TypeOK, GraphInv, NEW p \in Pairs, Record(p)
  PROVE  GraphInv'
<1> DEFINE ci == InfoOf(p)
           Entry(c, t) == callingMap[[caller |-> c, at |-> t]]
<1>1. /\ pc = "record" /\ pc' = "record" /\ data' = data
      /\ p \in todo /\ todo' = todo \ {p}
  BY DEF Record
<1>2. ci \in CallerInfo /\ ci = [caller |-> p[2], at |-> data[p]]
  BY <1>1, InfoType DEF InfoOf
<1>3. p[2] \in Names /\ p[1] \in Names /\ data[p] \in Times
  BY <1>1, <1>2, PairType DEF TypeOK
<1>0. PICK at0 \in Times : at0 = data[p]
  BY <1>3
<1>4. \A c \in Names, t \in Times : [caller |-> c, at |-> t] \in CallerInfo
  BY DEF CallerInfo
(* The record joins those done; the others stay. *)
<1>5. /\ Done(p[2], at0)' = Done(p[2], at0) \cup {p[1]}
      /\ \A c \in Names, t \in Times :
            ~(c = p[2] /\ t = at0) => Done(c, t)' = Done(c, t)
  BY <1>0, <1>1 DEF Done
(* Its entry gains a callee; others change only if they are outdated. *)
<1>6. /\ Entry(p[2], at0)' = Entry(p[2], at0) \cup {p[1]}
      /\ \A c \in Names, t \in Times :
            ~(c = p[2] /\ t = at0) =>
                Entry(c, t)' = Entry(c, t) \/ (Entry(c, t)' = {} /\ c = p[2] /\ t < at0)
  <2>1. \A other \in CallerInfo :
          callingMap'[other] = IF other = ci THEN callingMap[ci] \cup {p[1]}
                               ELSE IF other \in Outdated(ci) THEN {}
                               ELSE callingMap[other]
    BY DEF Record
  <2>2. \A other \in Outdated(ci) : other.caller = p[2] /\ other.at < at0
    BY <1>0, <1>2, <1>3 DEF Outdated, newerThan, Times
  <2>3. ASSUME NEW c \in Names, NEW t \in Times, ~(c = p[2] /\ t = at0)
        PROVE  \/ Entry(c, t)' = Entry(c, t)
               \/ Entry(c, t)' = {} /\ c = p[2] /\ t < at0
    <3> DEFINE other == [caller |-> c, at |-> t]
    <3>1. other # ci /\ other \in CallerInfo /\ other.caller = c /\ other.at = t
      BY <1>0, <1>2, <1>4, <2>3
    <3> QED  BY <2>1, <2>2, <3>1
  <2> QED  BY <1>0, <1>2, <2>1, <2>3
<1>7. ASSUME NEW c \in Names
      PROVE  /\ \A t \in Times : Entry(c, t)' \subseteq Done(c, t)'
             /\ \A t \in Times :
                  (Done(c, t)' # {} /\ \A u \in Times : Done(c, u)' # {} => u <= t)
                    => Entry(c, t)' = Done(c, t)'
             /\ (\E t \in Times : Done(c, t)' # {}) => Recorded(c)' # {}
  <2>1. /\ \A t \in Times : Entry(c, t) \subseteq Done(c, t)
        /\ \A t \in Times :
              (Done(c, t) # {} /\ \A u \in Times : Done(c, u) # {} => u <= t)
                => Entry(c, t) = Done(c, t)
        /\ (\E t \in Times : Done(c, t) # {}) => Recorded(c) # {}
    BY <1>1 DEF GraphInv, RecordInv
  <2> HIDE DEF Entry
  <2>2. \A t \in Times : Entry(c, t)' \subseteq Done(c, t)'
    BY <1>5, <1>6, <2>1
  <2>3. ASSUME NEW t \in Times, Done(c, t)' # {},
               \A u \in Times : Done(c, u)' # {} => u <= t
        PROVE  Entry(c, t)' = Done(c, t)'
    <3>1. CASE c # p[2]
      BY <1>5, <1>6, <2>1, <2>3, <3>1
    (* The new record is not newer than t, so that t is not outdated. *)
    <3>2. CASE c = p[2]
      <4>1. at0 <= t /\ t \in Int /\ at0 \in Int
        BY <1>5, <2>3, <3>2 DEF Times
      <4>2. CASE t = at0
        <5>1. CASE Done(c, t) = {}
          BY <1>5, <1>6, <2>1, <3>2, <4>2, <5>1
        <5>2. CASE Done(c, t) # {}
          <6>1. \A u \in Times : Done(c, u) # {} => u <= t
            BY <1>5, <2>3, <3>2, <4>2
          <6> QED  BY <1>5, <1>6, <2>1, <3>2, <4>2, <5>2, <6>1
        <5> QED  BY <5>1, <5>2
      <4>3. CASE t # at0
        <5>1. Done(c, t) # {} /\ \A u \in Times : Done(c, u) # {} => u <= t
          BY <1>5, <2>3, <3>2, <4>3
        <5>2. Entry(c, t)' = Entry(c, t)
          BY <1>6, <4>1, <4>3
        <5> QED  BY <1>5, <2>1, <3>2, <4>3, <5>1, <5>2
      <4> QED  BY <4>2, <4>3
    <3> QED  BY <3>1, <3>2
  <2>4. ASSUME NEW t \in Times, Done(c, t)' # {}
        PROVE  \E u \in Times : Entry(c, u)' # {}
    <3>1. CASE c = p[2]
      BY <1>3, <1>6, <3>1
    <3>2. CASE c # p[2]
      <4>1. Recorded(c) # {}
        BY <1>5, <2>1, <2>4, <3>2
      <4>2. \E u \in Times : Entry(c, u) # {}
        BY <4>1 DEF Recorded, Entry
      <4> QED  BY <1>6, <3>2, <4>2
    <3> QED  BY <3>1, <3>2
  <2> QED  BY <2>2, <2>3, <2>4 DEF Recorded, Entry
<1> QED  BY <1>1, <1>7 DEF GraphInv, RecordInv, OneTimeShown, Built

LEMMA GraphFinish ==
  ASSUME TypeOK, GraphInv, Finish
  PROVE  GraphInv'
<1>1. pc = "record" /\ todo = {} /\ pc' = "roots" /\ data' = data
  BY DEF Finish
<1>2. PICK last \in [Names -> Times] :
        /\ \A c \in Names : Recorded(c) # {} => last[c] \in Recorded(c)
        /\ SimpleCallingMap' = [c \in Names |-> callingMap[[caller |-> c, at |-> last[c]]]]
  BY DEF Finish
<1>3. \A c \in Names, t \in Times : Done(c, t) = CallsAt(c, t) /\ CallsAt(c, t)' = CallsAt(c, t)
  BY <1>1 DEF Done, CallsAt
<1>4. ASSUME NEW c \in Names
      PROVE  /\ (SimpleCallingMap'[c] = {}) <=> (TimesOf(c)' = {})
             /\ \E t \in Times :
                  /\ SimpleCallingMap'[c] \subseteq CallsAt(c, t)'
                  /\ IsNewest(c, t)' => SimpleCallingMap'[c] = CallsAt(c, t)'
  <2> DEFINE t == last[c]
  <2>1. t \in Times /\ SimpleCallingMap'[c] = callingMap[[caller |-> c, at |-> t]]
    BY <1>2
  <2>2. callingMap[[caller |-> c, at |-> t]] \subseteq CallsAt(c, t)
    BY <1>1, <1>3, <2>1 DEF GraphInv, RecordInv
  <2>3. TimesOf(c)' = TimesOf(c) /\ (IsNewest(c, t)' <=> IsNewest(c, t))
    BY <1>1 DEF TimesOf, IsNewest, CallsAt
  <2>4. IsNewest(c, t) => callingMap[[caller |-> c, at |-> t]] = CallsAt(c, t)
    <3> SUFFICES ASSUME IsNewest(c, t)
                 PROVE  callingMap[[caller |-> c, at |-> t]] = CallsAt(c, t)
      OBVIOUS
    <3>1. Done(c, t) # {} /\ \A u \in Times : Done(c, u) # {} => u <= t
      BY <1>3, <2>1 DEF IsNewest, TimesOf
    <3> QED  BY <1>1, <1>3, <2>1, <3>1 DEF GraphInv, RecordInv
  <2>5. (callingMap[[caller |-> c, at |-> t]] = {}) <=> (TimesOf(c) = {})
    <3>1. ASSUME TimesOf(c) = {} PROVE callingMap[[caller |-> c, at |-> t]] = {}
      BY <2>1, <2>2, <3>1 DEF TimesOf
    <3>2. ASSUME TimesOf(c) # {} PROVE callingMap[[caller |-> c, at |-> t]] # {}
      <4>1. Recorded(c) # {}
        BY <1>1, <1>3, <3>2 DEF TimesOf, GraphInv, RecordInv
      <4> QED  BY <1>2, <4>1 DEF Recorded
    <3> QED  BY <3>1, <3>2
  <2> QED  BY <1>3, <2>1, <2>2, <2>3, <2>4, <2>5
<1> QED  BY <1>1, <1>4 DEF GraphInv, RecordInv, OneTimeShown

(* Steps that leave the tables and the records read alone. *)
LEMMA GraphFrame ==
  ASSUME GraphInv, UNCHANGED <<callingMap, SimpleCallingMap, data, todo>>,
         pc' = pc \/ (Built /\ pc' \in {"walk", "crashed", "idle"})
  PROVE  GraphInv'
<1>1. pc' = "record" => pc = "record"
  BY DEF Built
<1>2. Built' => Built
  BY DEF Built
<1>3. \A c, t : Done(c, t)' = Done(c, t) /\ CallsAt(c, t)' = CallsAt(c, t)
  BY DEF Done, CallsAt
<1>4. \A c : TimesOf(c)' = TimesOf(c) /\ Recorded(c)' = Recorded(c)
  BY <1>3 DEF TimesOf, Recorded
<1>5. \A c, t : IsNewest(c, t)' <=> IsNewest(c, t)
  BY <1>4 DEF IsNewest
<1> QED  BY <1>1, <1>2, <1>3, <1>4, <1>5 DEF GraphInv, RecordInv, OneTimeShown

LEMMA GraphStep == TypeOK /\ GraphInv /\ [Next]_vars => GraphInv'
<1> SUFFICES ASSUME TypeOK, GraphInv, [Next]_vars PROVE GraphInv'
  OBVIOUS
<1> USE DEF graphVars
<1>1. ASSUME Etcd PROVE GraphInv'
  BY <1>1, GraphFrame DEF Etcd, Tick, Write, Expire
<1>2. CASE BuildError
  BY <1>2 DEF BuildError, GraphInv, RecordInv, OneTimeShown, Built
<1>3. ASSUME BuildDependencies PROVE GraphInv'
  BY <1>2, <1>3, GraphBuild, GraphRecord, GraphFinish DEF BuildDependencies
<1>4. CASE Finished \/ Restart
  BY <1>4 DEF Finished, Restart, GraphInv, RecordInv, OneTimeShown, Built
<1>5. CASE StartWalk \/ Return
  BY <1>5, GraphFrame DEF StartWalk, Return, Built
<1>6. ASSUME NEW c \in Names, WalkRoot(c) PROVE GraphInv'
  BY <1>6, GraphFrame DEF WalkRoot, Call, Built
<1>7. ASSUME NEW c \in Names, WalkCallee(c) PROVE GraphInv'
  BY <1>7, GraphFrame DEF WalkCallee, Call, Built
<1>8. CASE UNCHANGED vars
  BY <1>8, GraphFrame DEF vars
<1> QED  BY <1>1, <1>3, <1>4, <1>5, <1>6, <1>7, <1>8 DEF Next, Walk

(* Whatever order etcd lists the records in and whatever is left in the    *)
(* list of callers: each caller is shown with calls of one time, and with  *)
(* all of them if that is its newest.                                      *)
THEOREM OneTimeIsShown == Spec => []OneTimeShown
<1>1. GraphInv => OneTimeShown
  BY DEF GraphInv
<1> QED  BY <1>1, GraphInit, GraphStep, TypeCorrect, PTL DEF Spec

-----------------------------------------------------------------------------
(* Records that come oldest first. *)

(* While the records of each caller come oldest first into tables that     *)
(* were empty, the list has no entry but those of records that are done,   *)
(* every entry with callees is in the list, and of a caller's entries only *)
(* the newest has any.  That an older entry of the list is always looked   *)
(* at, although recordCallPairs stops at one equal to the record's, needs  *)
(* the last of these: an equal entry means that no older one is left.      *)
OrderInv ==
  pc = "record" /\ inOrder =>
    /\ \A other \in latestCallers : Done(other.caller, other.at) # {}
    /\ \A other \in CallerInfo : callingMap[other] # {} => other \in latestCallers
    /\ \A c \in Names : \A t, u \in Times :
          (Done(c, t) # {} /\ Done(c, u) # {} /\ t < u) => callingMap[[caller |-> c, at |-> t]] = {}

NewestInv == OrderInv /\ OldestFirstShowsNewest

LEMMA NewestBuild ==
  ASSUME TypeOK, Build
  PROVE  NewestInv'
<1>1. /\ pc' = "record" /\ callingMap' = NoRecords /\ data' = Readable /\ todo' = Found
      /\ inOrder' = (latestCallers = {}) /\ latestCallers' = latestCallers
  BY DEF Build, Reset, EmptyTable
<1>2. \A q \in Pairs \ todo' : data'[q] = 0
  BY <1>1 DEF Found
<1>3. \A c \in Names, t \in Times : Done(c, t)' = {}
  BY <1>2 DEF Done, Times
<1>4. \A other \in CallerInfo : callingMap'[other] = {}
  BY <1>1 DEF NoRecords
<1> QED  BY <1>1, <1>3, <1>4 DEF NewestInv, OrderInv, OldestFirstShowsNewest, Built

LEMMA NewestRecord ==
  ASSUME TypeOK, NewestInv, NEW p \in Pairs, Record(p)
  PROVE  NewestInv'
<1>0. PICK ci : ci = InfoOf(p)
  OBVIOUS
<1>1. /\ pc = "record" /\ pc' = "record" /\ data' = data
      /\ p \in todo /\ todo' = todo \ {p}
      /\ latestCallers' = (latestCallers \ Outdated(ci)) \cup {ci}
      /\ inOrder' => (inOrder /\ \A q \in Pairs \ todo : q[2] = p[2] => data[q] <= data[p])
  BY <1>0 DEF Record
<1> SUFFICES ASSUME inOrder' PROVE OrderInv'
  <2>1. ~Built' /\ (OrderInv' <=> (inOrder' => OrderInv'))
    BY <1>1 DEF Built, OrderInv
  <2> QED  BY <2>1 DEF NewestInv, OldestFirstShowsNewest
<1>2. ci \in CallerInfo /\ ci.caller = p[2] /\ ci.at = data[p]
  BY <1>0, <1>1, InfoType DEF InfoOf
<1>3. p[2] \in Names /\ p[1] \in Names /\ data[p] \in Times
  BY <1>1, <1>2, PairType DEF TypeOK
<1>4. PICK at0 \in Times : at0 = data[p]
  BY <1>3
<1>5. /\ \A other \in latestCallers : Done(other.caller, other.at) # {}
      /\ \A other \in CallerInfo : callingMap[other] # {} => other \in latestCallers
      /\ \A c \in Names : \A t, u \in Times :
            (Done(c, t) # {} /\ Done(c, u) # {} /\ t < u) => callingMap[[caller |-> c, at |-> t]] = {}
  BY <1>1 DEF NewestInv, OrderInv
<1>6. /\ Done(p[2], at0)' = Done(p[2], at0) \cup {p[1]}
      /\ \A c \in Names, t \in Times : Done(c, t) # {} => Done(c, t)' # {}
      /\ \A c \in Names, t \in Times :
            ~(c = p[2] /\ t = at0) => Done(c, t)' = Done(c, t)
  BY <1>1, <1>4 DEF Done
(* None of the caller's records that are done is newer. *)
<1>7. \A t \in Times : Done(p[2], t) # {} => t <= at0
  BY <1>1, <1>4 DEF Done
<1>8. \A other \in CallerInfo :
        callingMap'[other] = IF other = ci THEN callingMap[ci] \cup {p[1]}
                             ELSE IF other \in Outdated(ci) THEN {}
                             ELSE callingMap[other]
  BY <1>0 DEF Record
<1>9. \A other \in latestCallers' : Done(other.caller, other.at)' # {}
  <2>1. Done(ci.caller, ci.at)' # {}
    BY <1>2, <1>4, <1>6
  <2>2. \A other \in latestCallers : other.caller \in Names /\ other.at \in Times
    BY DEF TypeOK, CallerInfo
  <2> QED  BY <1>1, <1>5, <1>6, <2>1, <2>2
<1>10. \A other \in CallerInfo : callingMap'[other] # {} => other \in latestCallers'
  BY <1>1, <1>5, <1>8
<1>11. ASSUME NEW c \in Names, NEW t \in Times, NEW u \in Times,
              Done(c, t)' # {}, Done(c, u)' # {}, t < u
       PROVE  callingMap'[[caller |-> c, at |-> t]] = {}
  <2> DEFINE other == [caller |-> c, at |-> t]
  <2>1. other \in CallerInfo /\ other.caller = c /\ other.at = t
    BY DEF CallerInfo
  <2> HIDE DEF other
  <2>2. t \in Int /\ u \in Int /\ at0 \in Int
    BY DEF Times
  <2>3. other # ci
    <3>1. c = p[2] => (u = at0 \/ Done(c, u) # {})
      BY <1>6, <1>11
    <3>2. c = p[2] => t < at0
      BY <1>7, <1>11, <2>2, <3>1
    <3> QED  BY <1>2, <1>4, <2>1, <2>2, <3>2
  <2>4. ~(c = p[2] /\ t = at0) /\ Done(c, t) # {}
    <3>1. ~(c = p[2] /\ t = at0)
      BY <1>6, <1>7, <1>11, <2>2
    <3> QED  BY <1>6, <1>11, <3>1
  <2>5. CASE callingMap[other] = {}
    BY <1>8, <2>1, <2>3, <2>5 DEF other
  <2>6. CASE callingMap[other] # {}
    (* Then the record is the first of its time, and newer than t. *)
    <3>1. Done(c, u) = {}
      BY <1>5, <1>11, <2>4, <2>6 DEF other
    <3>2. c = p[2] /\ u = at0
      BY <1>6, <1>11, <3>1
    <3>3. ci \notin latestCallers
      BY <1>2, <1>4, <1>5, <3>1, <3>2
    <3>4. other \in latestCallers
      BY <1>5, <2>1, <2>6
    <3>5. other \in Outdated(ci)
      BY <1>2, <1>4, <1>11, <2>1, <2>3, <3>2, <3>3, <3>4 DEF Outdated, Scanned, newerThan
    <3> QED  BY <1>8, <2>1, <2>3, <3>5 DEF other
  <2> QED  BY <2>5, <2>6
<1> QED  BY <1>9, <1>10, <1>11 DEF OrderInv

LEMMA NewestFinish ==
  ASSUME TypeOK, GraphInv, NewestInv, Finish
  PROVE  NewestInv'
<1>1. pc = "record" /\ todo = {} /\ pc' = "roots" /\ data' = data /\ inOrder' = inOrder
  BY DEF Finish
<1>2. PICK last \in [Names -> Times] :
        /\ \A c \in Names : Recorded(c) # {} => last[c] \in Recorded(c)
        /\ SimpleCallingMap' = [c \in Names |-> callingMap[[caller |-> c, at |-> last[c]]]]
  BY DEF Finish
<1>3. \A c \in Names, t \in Times : Done(c, t) = CallsAt(c, t) /\ CallsAt(c, t)' = CallsAt(c, t)
  BY <1>1 DEF Done, CallsAt
<1>4. ASSUME inOrder, NEW c \in Names, NEW t \in Times, IsNewest(c, t)'
      PROVE  SimpleCallingMap'[c] = CallsAt(c, t)'
  <2>1. IsNewest(c, t)
    BY <1>1, <1>4 DEF TimesOf, IsNewest, CallsAt
  <2>2. Done(c, t) # {} /\ \A u \in Times : Done(c, u) # {} => u <= t
    BY <1>3, <2>1 DEF IsNewest, TimesOf
  <2>3. callingMap[[caller |-> c, at |-> t]] = Done(c, t)
    BY <1>1, <2>2 DEF GraphInv, RecordInv
  <2>4. last[c] \in Times /\ callingMap[[caller |-> c, at |-> last[c]]] # {}
    BY <1>2, <2>2, <2>3 DEF Recorded
  <2>5. Done(c, last[c]) # {}
    BY <1>1, <2>4 DEF GraphInv, RecordInv
  <2>6. last[c] = t
    <3>1. last[c] <= t /\ last[c] \in Int /\ t \in Int
      BY <2>2, <2>4, <2>5 DEF Times
    <3>2. ~(last[c] < t)
      BY <1>1, <1>4, <2>2, <2>4, <2>5 DEF NewestInv, OrderInv
    <3> QED  BY <3>1, <3>2
  <2> QED  BY <1>2, <1>3, <2>3, <2>6
<1> QED  BY <1>1, <1>4 DEF NewestInv, OrderInv, OldestFirstShowsNewest

LEMMA NewestFrame ==
  ASSUME NewestInv, UNCHANGED <<latestCallers, callingMap, SimpleCallingMap, data, todo, inOrder>>,
         pc' = pc \/ (Built /\ pc' \in {"walk", "crashed", "idle"})
  PROVE  NewestInv'
<1>1. (pc' = "record" => pc = "record") /\ (Built' => Built)
  BY DEF Built
<1>2. \A c, t : Done(c, t)' = Done(c, t) /\ CallsAt(c, t)' = CallsAt(c, t)
  BY DEF Done, CallsAt
<1>3. \A c : TimesOf(c)' = TimesOf(c)
  BY <1>2 DEF TimesOf
<1>4. \A c, t : IsNewest(c, t)' <=> IsNewest(c, t)
  BY <1>3 DEF IsNewest
<1> QED  BY <1>1, <1>2, <1>4 DEF NewestInv, OrderInv, OldestFirstShowsNewest

LEMMA NewestStep == TypeOK /\ GraphInv /\ NewestInv /\ [Next]_vars => NewestInv'
<1> SUFFICES ASSUME TypeOK, GraphInv, NewestInv, [Next]_vars PROVE NewestInv'
  OBVIOUS
<1> USE DEF graphVars
<1>1. ASSUME Etcd PROVE NewestInv'
  BY <1>1, NewestFrame DEF Etcd, Tick, Write, Expire
<1>2. CASE BuildError
  BY <1>2 DEF BuildError, NewestInv, OrderInv, OldestFirstShowsNewest, Built
<1>3. ASSUME BuildDependencies PROVE NewestInv'
  BY <1>2, <1>3, NewestBuild, NewestRecord, NewestFinish DEF BuildDependencies
<1>4. CASE Finished \/ Restart
  BY <1>4 DEF Finished, Restart, NewestInv, OrderInv, OldestFirstShowsNewest, Built
<1>5. CASE StartWalk \/ Return
  BY <1>5, NewestFrame DEF StartWalk, Return, Built
<1>6. ASSUME NEW c \in Names, WalkRoot(c) PROVE NewestInv'
  BY <1>6, NewestFrame DEF WalkRoot, Call, Built
<1>7. ASSUME NEW c \in Names, WalkCallee(c) PROVE NewestInv'
  BY <1>7, NewestFrame DEF WalkCallee, Call, Built
<1>8. CASE UNCHANGED vars
  BY <1>8, NewestFrame DEF vars
<1> QED  BY <1>1, <1>3, <1>4, <1>5, <1>6, <1>7, <1>8 DEF Next, Walk

(* For any services and records: when each caller's records come oldest    *)
(* first into empty tables, finishRecording finds one time per caller, and *)
(* it is the newest.                                                       *)
THEOREM NewestIsShown == Spec => []OldestFirstShowsNewest
<1>1. Init => NewestInv
  BY DEF Init, NewestInv, OrderInv, OldestFirstShowsNewest, Built
<1>2. NewestInv => OldestFirstShowsNewest
  BY DEF NewestInv
<1> QED  BY <1>1, <1>2, NewestStep, GraphInit, GraphStep, TypeInit, TypeStep, PTL DEF Spec

-----------------------------------------------------------------------------
(* The walk. *)

(* In the model of what a walk has printed: a name is printed when it is   *)
(* called, and its callees are printed unless a frame of the stack still   *)
(* has to do them; the frames are a path through the graph.                *)
Frames == DOMAIN stack
ShownNodes == shown \subseteq Nodes
RootsShown == roots \subseteq FindRoots /\ FindRoots \ roots \subseteq shown
FramesShown ==
  \A i \in Frames :
    /\ stack[i].caller \in shown
    /\ stack[i].left \subseteq SimpleCallingMap[stack[i].caller]
    /\ SimpleCallingMap[stack[i].caller] \ stack[i].left \subseteq shown
CalleesShown ==
  \A c \in shown :
    SimpleCallingMap[c] \subseteq shown \/ \E i \in Frames : stack[i].caller = c
PathCalls ==
  \A i, j \in Frames :
    j = i + 1 => stack[j].caller \in SimpleCallingMap[stack[i].caller] \ {stack[i].caller}

WalkInv ==
  /\ pc \in {"idle", "record", "roots"} => stack = <<>> /\ shown = {}
  /\ pc = "walk" => ShownNodes /\ RootsShown /\ FramesShown /\ CalleesShown /\ PathCalls
  /\ pc = "crashed" => ~Acyclic(NoSelfCalls)

(* A walk that is done has printed the roots and, with a name, its         *)
(* callees; what is not printed would be a set of nodes each of which is   *)
(* called from within the set.                                             *)
LEMMA WalkCovers ==
  ASSUME TypeOK, WalkInv, WalkDone, Acyclic(SimpleCallingMap)
  PROVE  shown = Nodes
<1>1. /\ shown \subseteq Nodes
      /\ FindRoots \subseteq shown
      /\ \A c \in shown : SimpleCallingMap[c] \subseteq shown
  BY DEF WalkInv, WalkDone, ShownNodes, RootsShown, CalleesShown, Frames
<1> DEFINE S == Nodes \ shown
<1>2. S \subseteq Names
  BY DEF Nodes
<1>3. ASSUME S # {} PROVE FALSE
  <2>1. PICK c \in S : \A d \in S : c \notin SimpleCallingMap[d]
    BY <1>2, <1>3 DEF Acyclic
  <2>2. c \in Names /\ c \notin FindRoots
    BY <1>1, <1>2, <2>1
  <2>3. PICK d \in Names : c \in SimpleCallingMap[d]
    BY <2>1, <2>2 DEF Nodes, FindRoots
  <2>4. d \in Nodes
    BY <2>3 DEF Nodes
  <2> QED  BY <1>1, <2>1, <2>3, <2>4
<1> QED  BY <1>1, <1>3

(* A path with more names than there are meets one again, and all names    *)
(* from there on are called by one of them: the graph has a cycle.         *)
LEMMA PathTooLong ==
  ASSUME TypeOK, FramesShown, PathCalls, StackLimit <= Len(stack)
  PROVE  ~Acyclic(NoSelfCalls)
<1> SUFFICES ASSUME Acyclic(NoSelfCalls) PROVE FALSE
  OBVIOUS
<1>1. /\ Len(stack) \in Nat
      /\ Frames = 1..Len(stack)
      /\ \A i \in Frames : stack[i].caller \in Names
  <2>1. stack \in Seq(Frame)
    BY DEF TypeOK, Frame
  <2>2. \A i \in DOMAIN stack : stack[i] \in Frame
    BY <2>1
  <2> QED  BY <2>1, <2>2 DEF Frames, Frame
<1> DEFINE f == [i \in 1..Len(stack) |-> stack[i].caller]
<1>2. f \in [1..Len(stack) -> Names]
  BY <1>1
<1>3. /\ IsFiniteSet(1..Len(stack))
      /\ Cardinality(1..Len(stack)) = Len(stack)
  BY <1>1, FS_Interval
<1>4. IsFiniteSet(Names) /\ Cardinality(Names) \in Nat /\ Cardinality(Names) < Len(stack)
  BY <1>1, NameAssumption, StackAssumption, FS_CardinalityType
<1>5. PICK x \in 1..Len(stack), y \in 1..Len(stack) : x # y /\ f[x] = f[y]
  <2> HIDE DEF f
  <2>1. Cardinality(Names) < Cardinality(1..Len(stack))
    BY <1>3, <1>4
  <2> QED  BY <1>2, <1>3, <1>4, <2>1, FS_PigeonHole
<1>6. PICK i \in Frames, j \in Frames : i < j /\ stack[i].caller = stack[j].caller
  <2>1. stack[x].caller = stack[y].caller
    BY <1>5
  <2>2. x < y \/ y < x
    BY <1>5
  <2> QED  BY <1>1, <2>1, <2>2
<1> DEFINE S == {stack[m].caller : m \in i..j}
<1>7. \A m \in i..j : m \in Frames
  BY <1>1
<1>8. S \in SUBSET Names /\ stack[i].caller \in S
  BY <1>1, <1>6, <1>7
<1>9. ASSUME NEW m \in i..j
      PROVE  \E d \in S : stack[m].caller \in NoSelfCalls[d]
  <2>1. PICK h \in i..j : i < h /\ stack[h].caller = stack[m].caller
    <3>1. CASE m = i
      BY <1>1, <1>6, <3>1
    <3>2. CASE m # i
      BY <1>1, <3>2
    <3> QED  BY <3>1, <3>2
  <2>2. PICK g \in i..j : h = g + 1
    BY <1>1, <2>1
  <2>3. stack[h].caller \in SimpleCallingMap[stack[g].caller] \ {stack[g].caller}
    BY <1>7, <2>2 DEF PathCalls
  <2>4. stack[g].caller \in S /\ stack[g].caller \in Names
    BY <1>1, <1>7
  <2>5. stack[m].caller \in NoSelfCalls[stack[g].caller]
    BY <2>1, <2>3, <2>4 DEF NoSelfCalls
  <2> QED  BY <2>4, <2>5
<1>10. PICK c \in S : \A d \in S : c \notin NoSelfCalls[d]
  BY <1>8 DEF Acyclic
<1> QED  BY <1>9, <1>10

(* The stack after traverseCalls was called: a frame more. *)
LEMMA Pushed ==
  ASSUME NEW base \in Seq(Frame), NEW frame \in Frame, stack' = Append(base, frame)
  PROVE  /\ Len(base) \in Nat
         /\ DOMAIN base = 1..Len(base)
         /\ Frames' = DOMAIN base \cup {Len(base) + 1}
         /\ stack'[Len(base) + 1] = frame
         /\ \A i \in DOMAIN base : stack'[i] = base[i]
  BY DEF Frames

LEMMA WalkCall ==
  ASSUME TypeOK, pc = "walk", ShownNodes, NEW c \in Nodes, NEW base \in Seq(Frame),
         Call(c, base), Len(base) < StackLimit, UNCHANGED SimpleCallingMap,
         roots' \subseteq FindRoots, FindRoots \ roots' \subseteq shown \cup {c},
         \A i \in DOMAIN base :
           /\ base[i].caller \in shown
           /\ base[i].left \subseteq SimpleCallingMap[base[i].caller]
           /\ SimpleCallingMap[base[i].caller] \ base[i].left \subseteq shown \cup {c},
         \A d \in shown : \/ SimpleCallingMap[d] \subseteq shown
                         \/ \E i \in DOMAIN base : base[i].caller = d,
         \A i, j \in DOMAIN base :
           j = i + 1 => base[j].caller \in SimpleCallingMap[base[i].caller] \ {base[i].caller},
         \A i \in DOMAIN base :
           i = Len(base) => c \in SimpleCallingMap[base[i].caller] \ {base[i].caller}
  PROVE  WalkInv'
<1> DEFINE frame == [caller |-> c, left |-> SimpleCallingMap[c]]
<1>1. stack' = Append(base, frame) /\ shown' = shown \cup {c} /\ pc' = "walk"
  BY DEF Call
<1>2. c \in Names
  BY DEF Nodes
<1>3. frame \in Frame /\ frame.caller = c /\ frame.left = SimpleCallingMap[c]
  BY <1>2 DEF Frame, TypeOK
<1>4. PICK f \in Frame : f = frame
  BY <1>3
<1>5. f.caller = c /\ f.left = SimpleCallingMap[c]
  BY <1>3, <1>4
<1>6. PICK n \in Nat : n = Len(base)
  OBVIOUS
<1>7. /\ DOMAIN base = 1..n
      /\ Frames' = DOMAIN base \cup {n + 1}
      /\ stack'[n + 1] = f
      /\ \A i \in DOMAIN base : stack'[i] = base[i]
  BY <1>1, <1>4, <1>6, Pushed
<1>8. ShownNodes' /\ RootsShown'
  BY <1>1 DEF ShownNodes, RootsShown, Nodes, FindRoots
<1>9. FramesShown'
  <2> SUFFICES ASSUME NEW i \in Frames'
               PROVE  /\ stack'[i].caller \in shown'
                      /\ stack'[i].left \subseteq SimpleCallingMap[stack'[i].caller]
                      /\ SimpleCallingMap[stack'[i].caller] \ stack'[i].left \subseteq shown'
    BY DEF FramesShown
  <2>1. CASE i \in DOMAIN base
    BY <1>1, <1>7, <2>1
  <2>2. CASE i = n + 1
    BY <1>1, <1>5, <1>7, <2>2
  <2> QED  BY <1>7, <2>1, <2>2
<1>10. CalleesShown'
  <2> SUFFICES ASSUME NEW d \in shown'
               PROVE  \/ SimpleCallingMap[d] \subseteq shown'
                      \/ \E i \in Frames' : stack'[i].caller = d
    BY DEF CalleesShown
  <2>1. CASE d = c
    BY <1>5, <1>7, <2>1
  <2>2. CASE d \in shown
    BY <1>1, <1>7, <2>2
  <2> QED  BY <1>1, <2>1, <2>2
<1>11. PathCalls'
  <2> SUFFICES ASSUME NEW i \in Frames', NEW j \in Frames', j = i + 1
               PROVE  stack'[j].caller \in SimpleCallingMap[stack'[i].caller] \ {stack'[i].caller}
    BY DEF PathCalls
  <2>1. i \in DOMAIN base /\ (j \in DOMAIN base \/ (j = n + 1 /\ i = n))
    BY <1>7
  <2> QED  BY <1>5, <1>6, <1>7, <2>1
<1> QED  BY <1>1, <1>8, <1>9, <1>10, <1>11 DEF WalkInv

LEMMA WalkRootStep ==
  ASSUME TypeOK, WalkInv, NEW c \in Names, WalkRoot(c)
  PROVE  WalkInv'
<1>1. /\ pc = "walk" /\ stack = <<>> /\ c \in roots /\ roots' = roots \ {c}
      /\ Call(c, <<>>) /\ UNCHANGED SimpleCallingMap
  BY DEF WalkRoot, graphVars
<1>2. <<>> \in Seq(Frame) /\ Len(<<>>) = 0 /\ DOMAIN <<>> = {}
  OBVIOUS
<1>3. 0 < StackLimit
  BY NameAssumption, StackAssumption, FS_CardinalityType
<1>4. ShownNodes /\ RootsShown /\ CalleesShown
  BY <1>1 DEF WalkInv
<1>5. c \in Nodes /\ roots' \subseteq FindRoots /\ FindRoots \ roots' \subseteq shown \cup {c}
  BY <1>1, <1>4 DEF RootsShown, FindRoots, Nodes
<1>6. \A d \in shown : SimpleCallingMap[d] \subseteq shown
  BY <1>1, <1>4 DEF CalleesShown, Frames
<1> QED  BY <1>1, <1>2, <1>3, <1>4, <1>5, <1>6, WalkCall

(* The stack once the callee is taken from those the top frame has left.   *)
LEMMA Taken ==
  ASSUME TypeOK, NEW c, stack # <<>>, NEW rest, rest = [stack EXCEPT ![Len(stack)].left = @ \ {c}]
  PROVE  /\ rest \in Seq(Frame)
         /\ Len(rest) = Len(stack)
         /\ DOMAIN rest = Frames
         /\ Len(stack) \in Frames
         /\ \A i \in Frames :
               /\ rest[i].caller = stack[i].caller
               /\ rest[i].left = IF i = Len(stack) THEN stack[i].left \ {c} ELSE stack[i].left
<1>1. stack \in Seq(Frame)
  BY DEF TypeOK, Frame
<1>2. /\ Len(stack) \in Frames
      /\ Frames = DOMAIN stack
      /\ \A i \in Frames : stack[i] \in Frame
  BY <1>1 DEF Frames
<1>3. [stack[Len(stack)] EXCEPT !.left = @ \ {c}] \in Frame
  BY <1>2 DEF Frame
<1>4. rest \in Seq(Frame) /\ Len(rest) = Len(stack)
  BY <1>1, <1>2, <1>3, ExceptSeq
<1>5. DOMAIN rest = Frames
  BY <1>2
<1>6. \A i \in Frames :
        rest[i] = IF i = Len(stack) THEN [stack[i] EXCEPT !.left = @ \ {c}] ELSE stack[i]
  BY <1>2
<1> QED  BY <1>2, <1>4, <1>5, <1>6 DEF Frame

LEMMA WalkCalleeStep ==
  ASSUME TypeOK, WalkInv, NEW c \in Names, WalkCallee(c)
  PROVE  WalkInv'
<1>1. /\ pc = "walk" /\ stack # <<>> /\ c \in stack[Len(stack)].left
      /\ UNCHANGED <<SimpleCallingMap, roots>>
  BY DEF WalkCallee, graphVars, Top
<1>2. PICK rest : rest = [stack EXCEPT ![Len(stack)].left = @ \ {c}]
  OBVIOUS
<1>3. IF c = stack[Len(stack)].caller
      THEN stack' = rest /\ pc' = pc /\ shown' = shown
      ELSE Call(c, rest)
  BY <1>2 DEF WalkCallee, IsLoop, Top
<1>4. /\ rest \in Seq(Frame)
      /\ Len(rest) = Len(stack)
      /\ DOMAIN rest = Frames
      /\ Len(stack) \in Frames
      /\ \A i \in Frames :
            /\ rest[i].caller = stack[i].caller
            /\ rest[i].left = IF i = Len(stack) THEN stack[i].left \ {c} ELSE stack[i].left
  BY <1>1, <1>2, Taken
<1>5. ShownNodes /\ RootsShown /\ FramesShown /\ CalleesShown /\ PathCalls
  BY <1>1 DEF WalkInv
<1>6. c \in SimpleCallingMap[stack[Len(stack)].caller]
  BY <1>1, <1>4, <1>5 DEF FramesShown
<1>7. \A i \in Frames :
        /\ rest[i].caller \in shown
        /\ rest[i].left \subseteq SimpleCallingMap[rest[i].caller]
        /\ SimpleCallingMap[rest[i].caller] \ rest[i].left \subseteq shown \cup {c}
  BY <1>4, <1>5 DEF FramesShown
<1>8. \A d \in shown : \/ SimpleCallingMap[d] \subseteq shown
                      \/ \E i \in Frames : rest[i].caller = d
  BY <1>4, <1>5 DEF CalleesShown
<1>9. \A i, j \in Frames :
        j = i + 1 => rest[j].caller \in SimpleCallingMap[rest[i].caller] \ {rest[i].caller}
  BY <1>4, <1>5 DEF PathCalls
<1>10. CASE c = stack[Len(stack)].caller
  <2>1. stack' = rest /\ pc' = "walk" /\ shown' = shown
    BY <1>1, <1>3, <1>10
  <2>2. Frames' = Frames /\ shown \cup {c} = shown
    BY <1>4, <1>5, <1>10, <2>1 DEF Frames, FramesShown
  <2>3. ShownNodes' /\ RootsShown'
    BY <1>1, <1>5, <2>1 DEF ShownNodes, RootsShown, Nodes, FindRoots
  <2>4. FramesShown' /\ CalleesShown' /\ PathCalls'
    BY <1>1, <1>7, <1>8, <1>9, <2>1, <2>2 DEF FramesShown, CalleesShown, PathCalls
  <2> QED  BY <2>1, <2>3, <2>4 DEF WalkInv
<1>11. CASE c # stack[Len(stack)].caller
  <2>1. Call(c, rest)
    BY <1>3, <1>11
  <2>2. CASE Len(rest) < StackLimit
    <3>1. c \in Nodes
      <4>1. stack[Len(stack)].caller \in Names
        BY <1>4, <1>5 DEF FramesShown, TypeOK
      <4> QED  BY <1>6, <4>1 DEF Nodes
    <3>2. roots' \subseteq FindRoots /\ FindRoots \ roots' \subseteq shown \cup {c}
      BY <1>1, <1>5 DEF RootsShown
    <3>3. \A i \in Frames :
            i = Len(rest) => c \in SimpleCallingMap[rest[i].caller] \ {rest[i].caller}
      BY <1>4, <1>6, <1>11
    <3> QED  BY <1>1, <1>4, <1>5, <1>7, <1>8, <1>9, <2>1, <2>2, <3>1, <3>2, <3>3, WalkCall
  <2>3. CASE ~(Len(rest) < StackLimit)
    <3>1. pc' = "crashed"
      BY <2>1, <2>3 DEF Call
    <3>2. StackLimit <= Len(stack)
      BY <1>4, <2>3, StackAssumption
    <3>3. ~Acyclic(NoSelfCalls)
      BY <1>5, <3>2, PathTooLong
    <3>4. ~Acyclic(NoSelfCalls)'
      BY <1>1, <3>3 DEF Acyclic, NoSelfCalls
    <3> QED  BY <3>1, <3>4 DEF WalkInv
  <2> QED  BY <2>2, <2>3
<1> QED  BY <1>10, <1>11

LEMMA WalkReturn ==
  ASSUME TypeOK, WalkInv, Return
  PROVE  WalkInv'
<1>1. /\ pc = "walk" /\ stack # <<>> /\ stack[Len(stack)].left = {}
      /\ stack' = SubSeq(stack, 1, Len(stack) - 1)
      /\ UNCHANGED <<SimpleCallingMap, pc, roots, shown>>
  BY DEF Return, graphVars, Top
<1>2. stack \in Seq(Frame)
  BY DEF TypeOK, Frame
<1>3. /\ Len(stack) \in Frames
      /\ Frames' = Frames \ {Len(stack)}
      /\ \A i \in Frames' : stack'[i] = stack[i]
  BY <1>1, <1>2 DEF Frames
<1>4. ShownNodes /\ RootsShown /\ FramesShown /\ CalleesShown /\ PathCalls
  BY <1>1 DEF WalkInv
<1>5. ShownNodes' /\ RootsShown' /\ FramesShown' /\ PathCalls'
  BY <1>1, <1>3, <1>4 DEF ShownNodes, RootsShown, FramesShown, PathCalls, Nodes, FindRoots
<1>6. CalleesShown'
  <2> SUFFICES ASSUME NEW d \in shown
               PROVE  \/ SimpleCallingMap[d] \subseteq shown
                      \/ \E i \in Frames' : stack'[i].caller = d
    BY <1>1 DEF CalleesShown
  <2>1. CASE d = stack[Len(stack)].caller
    <3>1. SimpleCallingMap[stack[Len(stack)].caller] \ stack[Len(stack)].left \subseteq shown
      BY <1>3, <1>4 DEF FramesShown
    <3> QED  BY <1>1, <2>1, <3>1
  <2>2. CASE d # stack[Len(stack)].caller
    BY <1>3, <1>4, <2>2 DEF CalleesShown
  <2> QED  BY <2>1, <2>2
<1> QED  BY <1>1, <1>5, <1>6 DEF WalkInv

LEMMA WalkStep == TypeOK /\ WalkInv /\ [Next]_vars => WalkInv'
<1> SUFFICES ASSUME TypeOK, WalkInv, [Next]_vars PROVE WalkInv'
  OBVIOUS
<1> USE DEF graphVars, walkVars
<1>1. ASSUME stack' = stack, shown' = shown \/ shown' = {},
             pc \in {"idle", "record", "roots"}, pc' \in {"idle", "record", "roots"}
      PROVE  WalkInv'
  BY <1>1 DEF WalkInv
<1>2. ASSUME Etcd PROVE WalkInv'
  BY <1>1, <1>2 DEF Etcd, Tick, Write, Expire
<1>3. ASSUME BuildDependencies PROVE WalkInv'
  BY <1>1, <1>3 DEF BuildDependencies, Build, BuildError, Record, Finish
<1>4. CASE StartWalk
  <2>1. stack' = <<>> /\ shown' = {} /\ roots' = FindRoots /\ pc' = "walk"
        /\ UNCHANGED SimpleCallingMap
    BY <1>4 DEF StartWalk, WalkInv
  <2>2. Frames' = {}
    BY <2>1 DEF Frames
  <2> QED  BY <2>1, <2>2 DEF WalkInv, ShownNodes, RootsShown, FramesShown, CalleesShown, PathCalls, FindRoots
<1>5. CASE Finished \/ Restart
  BY <1>5 DEF Finished, WalkDone, Restart, WalkInv
<1>6. CASE UNCHANGED vars
  BY <1>6 DEF vars, WalkInv, ShownNodes, RootsShown, FramesShown, CalleesShown, PathCalls, Frames,
             FindRoots, Nodes, Acyclic, NoSelfCalls
<1> QED  BY <1>2, <1>3, <1>4, <1>5, <1>6, WalkRootStep, WalkCalleeStep, WalkReturn DEF Next, Walk

(* For any finite graph and any stack with room for a name more than there *)
(* are: traverseCalls prints every node of a graph without cycles, and     *)
(* dies only of a cycle of several services.                               *)
THEOREM WalkIsAlwaysSafe == Spec => []WalkIsSafe
<1>1. Init => WalkInv
  BY DEF Init, WalkInv
<1>2. TypeOK /\ WalkInv => WalkIsSafe
  BY WalkCovers DEF WalkIsSafe, WalkInv
<1> QED  BY <1>1, <1>2, WalkStep, TypeInit, TypeStep, PTL DEF Spec
=============================================================================
