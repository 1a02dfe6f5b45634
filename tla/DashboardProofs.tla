--------------------------- MODULE DashboardProofs ---------------------------
(* Theorems about Dashboard, for any names, browsers, requests and writes. *)
EXTENDS Dashboard, FiniteSetTheorems, TLAPS

(* TypeOK, by what a step changes together. *)
TablesOK ==
    /\ users \in [Names -> Seq(Rows)]
    /\ logs \in [Operations -> Seq(Names \cup {System})]
RestOK ==
    /\ marks \subseteq Endpoints
    /\ session \in [Browsers -> Users \cup {NoUser}]
    /\ writes \in Nat
    /\ done \in [Operations -> Nat]
    /\ admins \subseteq Names
    /\ given \in [Names -> SUBSET Versions]
Places == {"idle", "insert", "session", "create", "update", "write", "mark", "log"}
WorkersOK ==
    /\ pc \in [Workers -> Places]
    /\ browser \in [Workers -> Browsers \cup {NoBrowser}]
    /\ cur \in [Workers -> Users \cup {NoUser}]
    /\ want \in [Workers -> Users \cup {NoUser}]
    /\ found \in [Workers -> Versions]
    /\ what \in [Workers -> Markings]
    /\ endpoint \in [Workers -> Endpoints \cup {NoEndpoint}]
    /\ \A w \in Workers :
        /\ pc[w] # "idle" => cur[w] \in Users /\ browser[w] \in Browsers
        /\ pc[w] \in {"create", "update", "write"} => want[w] \in Users
        /\ pc[w] \in {"mark", "log"} => endpoint[w] \in Endpoints

LEMMA TypeParts ==
    /\ TypeOK <=> TablesOK /\ RestOK /\ WorkersOK
    /\ TypeOK' <=> TablesOK' /\ RestOK' /\ WorkersOK'
  BY DEF TypeOK, TablesOK, RestOK, WorkersOK, Places

(* Versions, and the number of saves between two of them. *)
LEMMA VersionFacts ==
    /\ 0 \in Versions
    /\ \A x \in Versions : Counted(x) \in Versions
    /\ \A v, x \in Versions : /\ Saves(v, v) = 0 /\ Saves(v, x) \in Nat
                              /\ Saves(v, Counted(x)) <= Saves(v, x) + 1
  <1>1. MaxInt32 \in Nat
    BY BoundAssumption
  <1> QED
    BY <1>1 DEF Versions, Counted, Saves

LEMMA RequestTypes ==
    ASSUME TypeOK, NEW w \in Workers
    PROVE  /\ pc[w] # "idle" => /\ cur[w] \in Users /\ cur[w].name \in Names
                                /\ cur[w].roles \in SUBSET Roles /\ cur[w].disabled \in BOOLEAN
                                /\ cur[w].version \in Versions
           /\ pc[w] \in {"create", "update", "write"} =>
                /\ want[w] \in Users /\ want[w].name \in Names
                /\ want[w].roles \in SUBSET Roles /\ want[w].disabled \in BOOLEAN
                /\ want[w].version \in Versions
           /\ pc[w] \in {"mark", "log"} =>
                /\ endpoint[w] \in Endpoints /\ what[w] \in Markings
                /\ <<what[w], endpoint[w]>> \in Operations
           /\ found[w] \in Versions
  BY DEF TypeOK, Users, Operations

LEMMA TypeInit == Init => TypeOK
  <1> SUFFICES ASSUME Init PROVE TypeOK
    OBVIOUS
  <1> DEFINE row(n) == Row(User(n, {"RoleAdmin"}, FALSE, 0), 0)
  <1>1. \A n \in Names : row(n) \in Rows
    BY VersionFacts DEF Row, User, Rows, Roles
  <1>2. users = [n \in Names |-> IF n \in FirstAdmins THEN <<row(n)>> ELSE <<>>]
    BY DEF Init
  <1> HIDE DEF row
  <1>5. \A n \in Names : <<row(n)>> \in Seq(Rows) /\ <<>> \in Seq(Rows)
    BY <1>1
  <1>6. users \in [Names -> Seq(Rows)]
    BY <1>2, <1>5
  <1>3. logs \in [Operations -> Seq(Names \cup {System})] /\ done \in [Operations -> Nat]
    BY DEF Init
  <1>4. given \in [Names -> SUBSET Versions] /\ found \in [Workers -> Versions]
    BY VersionFacts DEF Init
  <1> QED
    BY <1>3, <1>4, <1>6, NameAssumption DEF Init, TypeOK, Markings

(* What a worker has done with its request: it is free again. *)
LEMMA AnswerFacts ==
    ASSUME WorkersOK, NEW w \in Workers, Answer(w)
    PROVE  /\ WorkersOK'
           /\ pc'[w] = "idle"
           /\ \A v \in Workers \ {w} : /\ pc'[v] = pc[v] /\ cur'[v] = cur[v]
                                       /\ want'[v] = want[v] /\ found'[v] = found[v]
                                       /\ what'[v] = what[v] /\ endpoint'[v] = endpoint[v]
  BY VersionFacts DEF Answer, GoTo, WorkersOK, Places, Markings

(* One line more in the log. *)
Logged(who, d) ==
    /\ logs' \in [Operations -> Seq(Names \cup {System})]
    /\ Len(logs'[d]) = Len(logs[d]) + 1
    /\ \A o \in Operations : o # d => logs'[o] = logs[o]
    /\ \A o \in Operations : /\ Len(logs[o]) \in Nat /\ Len(logs'[o]) \in Nat
                             /\ Len(logs[o]) <= Len(logs'[o])
    /\ \A o \in Operations : \A i \in DOMAIN logs'[o] :
        \/ i \in DOMAIN logs[o] /\ logs'[o][i] = logs[o][i]
        \/ o = d /\ logs'[o][i] = who

LEMMA LogFacts ==
    ASSUME TypeOK, NEW who \in Names \cup {System}, NEW d \in Operations,
           logs' = [logs EXCEPT ![d] = Append(@, who)]
    PROVE  Logged(who, d)
  <1> DEFINE T == Names \cup {System}
  <1>1. logs \in [Operations -> Seq(T)]
    BY DEF TypeOK
  <1> HIDE DEF T
  <1>2. logs[d] \in Seq(T) /\ who \in T
    BY <1>1 DEF T
  <1>3. /\ Append(logs[d], who) \in Seq(T)
        /\ Len(Append(logs[d], who)) = Len(logs[d]) + 1
        /\ \A i \in DOMAIN Append(logs[d], who) :
                \/ i \in DOMAIN logs[d] /\ Append(logs[d], who)[i] = logs[d][i]
                \/ Append(logs[d], who)[i] = who
    BY <1>2
  <1>4. /\ logs' \in [Operations -> Seq(T)]
        /\ logs'[d] = Append(logs[d], who)
        /\ \A o \in Operations : o # d => logs'[o] = logs[o]
    BY <1>1, <1>2, <1>3
  <1>5. \A o \in Operations : Len(logs[o]) \in Nat /\ Len(logs'[o]) \in Nat
    BY <1>1, <1>4
  <1>6. \A o \in Operations : Len(logs[o]) <= Len(logs'[o])
    <2>1. Len(logs[d]) <= Len(logs'[d])
      BY <1>3, <1>4, <1>5
    <2>2. \A o \in Operations : o # d => Len(logs[o]) <= Len(logs'[o])
      BY <1>4, <1>5
    <2> QED
      BY <2>1, <2>2
  <1>7. \A o \in Operations : \A i \in DOMAIN logs'[o] :
            \/ i \in DOMAIN logs[o] /\ logs'[o][i] = logs[o][i]
            \/ o = d /\ logs'[o][i] = who
    BY <1>3, <1>4
  <1> QED
    BY <1>3, <1>4, <1>5, <1>6, <1>7 DEF T, Logged

(* What the steps that write to the log put down. *)
LEMMA LogSteps ==
    ASSUME TypeOK, NEW w \in Workers
    PROVE  /\ LoginInsert(w) => Logged(System, <<"insert", cur[w].name>>)
           /\ InsertUser(w) => Logged(cur[w].name, <<"insert", want[w].name>>)
           /\ UpdateWrite(w) => Logged(cur[w].name, <<"update", want[w].name>>)
           /\ CreateLog(w) => Logged(cur[w].name, <<what[w], endpoint[w]>>)
  <1>1. ASSUME LoginInsert(w) PROVE Logged(System, <<"insert", cur[w].name>>)
    <2>1. cur[w].name \in Names
      BY <1>1, RequestTypes DEF LoginInsert
    <2>2. PICK d \in Operations : d = <<"insert", cur[w].name>>
      BY <2>1 DEF Operations
    <2>3. logs' = [logs EXCEPT ![d] = Append(@, System)]
      BY <1>1, <2>2 DEF LoginInsert, Log
    <2> QED
      BY <2>2, <2>3, LogFacts
  <1>2. ASSUME InsertUser(w) PROVE Logged(cur[w].name, <<"insert", want[w].name>>)
    <2>1. want[w].name \in Names
      BY <1>2, RequestTypes DEF InsertUser
    <2>2. PICK d \in Operations : d = <<"insert", want[w].name>>
      BY <2>1 DEF Operations
    <2>3. PICK who \in Names : who = cur[w].name
      BY <1>2, RequestTypes DEF InsertUser
    <2>4. logs' = [logs EXCEPT ![d] = Append(@, who)]
      BY <1>2, <2>2, <2>3 DEF InsertUser, Log
    <2> QED
      BY <2>2, <2>3, <2>4, LogFacts
  <1>3. ASSUME UpdateWrite(w) PROVE Logged(cur[w].name, <<"update", want[w].name>>)
    <2>1. want[w].name \in Names
      BY <1>3, RequestTypes DEF UpdateWrite
    <2>2. PICK d \in Operations : d = <<"update", want[w].name>>
      BY <2>1 DEF Operations
    <2>3. PICK who \in Names : who = cur[w].name
      BY <1>3, RequestTypes DEF UpdateWrite
    <2>4. logs' = [logs EXCEPT ![d] = Append(@, who)]
      BY <1>3, <2>2, <2>3 DEF UpdateWrite, Log
    <2> QED
      BY <2>2, <2>3, <2>4, LogFacts
  <1>4. ASSUME CreateLog(w) PROVE Logged(cur[w].name, <<what[w], endpoint[w]>>)
    <2>1. PICK d \in Operations : d = <<what[w], endpoint[w]>>
      BY <1>4, RequestTypes DEF CreateLog
    <2>2. PICK who \in Names : who = cur[w].name
      BY <1>4, RequestTypes DEF CreateLog
    <2>3. logs' = [logs EXCEPT ![d] = Append(@, who)]
      BY <1>4, <2>1, <2>2 DEF CreateLog, Log
    <2> QED
      BY <2>1, <2>2, <2>3, LogFacts
  <1> QED
    BY <1>1, <1>2, <1>3, <1>4

(* Rows: one more of a name, or all of them written. *)
LEMMA AppendRow ==
    ASSUME TypeOK, NEW n \in Names, NEW row \in Rows,
           users' = [users EXCEPT ![n] = Append(@, row)]
    PROVE  /\ users' \in [Names -> Seq(Rows)]
           /\ \A m \in Names \ {n} : users'[m] = users[m]
           /\ Len(users'[n]) = Len(users[n]) + 1
           /\ \A i \in DOMAIN users'[n] :
                \/ i \in DOMAIN users[n] /\ users'[n][i] = users[n][i]
                \/ users'[n][i] = row
  <1>1. users \in [Names -> Seq(Rows)] /\ users[n] \in Seq(Rows)
    BY DEF TypeOK
  <1>2. /\ Append(users[n], row) \in Seq(Rows)
        /\ Len(Append(users[n], row)) = Len(users[n]) + 1
        /\ \A i \in DOMAIN Append(users[n], row) :
                \/ i \in DOMAIN users[n] /\ Append(users[n], row)[i] = users[n][i]
                \/ Append(users[n], row)[i] = row
    BY <1>1
  <1> QED
    BY <1>1, <1>2

LEMMA WriteRows ==
    ASSUME TypeOK, NEW n \in Names, NEW row \in Rows,
           users' = [users EXCEPT ![n] = [i \in DOMAIN @ |-> row]]
    PROVE  /\ users' \in [Names -> Seq(Rows)]
           /\ \A m \in Names \ {n} : users'[m] = users[m]
           /\ Len(users'[n]) = Len(users[n])
           /\ DOMAIN users'[n] = DOMAIN users[n]
           /\ \A i \in DOMAIN users'[n] : users'[n][i] = row
  <1> DEFINE q == [i \in DOMAIN users[n] |-> row]
  <1>1. users \in [Names -> Seq(Rows)] /\ users[n] \in Seq(Rows)
    BY DEF TypeOK
  <1>2. DOMAIN users[n] = 1..Len(users[n]) /\ Len(users[n]) \in Nat
    BY <1>1
  <1>3. q \in Seq(Rows) /\ Len(q) = Len(users[n])
    BY <1>2
  <1> QED
    BY <1>1, <1>2, <1>3

-----------------------------------------------------------------------------
LEMMA TypeRequest ==
    ASSUME TypeOK, NEW w \in Workers, NEW b \in Browsers, Request(w, b)
    PROVE  TypeOK'
  <1> USE DEF tableVars, requestVars
  <1>1. CASE \E n \in Names : LoginRead(w, b, n)
    <2>1. PICK n \in Names : LoginRead(w, b, n)
      BY <1>1
    <2>4. PICK i \in DOMAIN users[n] : cur' = [cur EXCEPT ![w] = LoggedInAs(n, users[n][i])]
      BY <2>1 DEF LoginRead
    <2>2. users[n][i] \in Rows
      <3>1. users[n] \in Seq(Rows)
        BY DEF TypeOK
      <3> QED
        BY <3>1
    <2>3. LoggedInAs(n, users[n][i]) \in Users
      BY <2>2 DEF LoggedInAs, User, Users, Rows
    <2> QED
      BY <2>1, <2>3, <2>4 DEF TypeOK, LoginRead, GoTo
  <1>2. CASE \E n \in Names : LoginFindsNone(w, b, n)
    <2>1. PICK n \in Names : LoginFindsNone(w, b, n)
      BY <1>2
    <2>2. FirstUser(n) \in Users
      BY VersionFacts DEF FirstUser, User, Users, Roles
    <2> QED
      BY <2>1, <2>2 DEF TypeOK, LoginFindsNone, GoTo
  <1>3. CASE \E n \in Names, grant \in Grants, isNew \in BOOLEAN : UpsertUser(w, b, n, grant, isNew)
    <2>1. PICK n \in Names, grant \in Grants, isNew \in BOOLEAN : UpsertUser(w, b, n, grant, isNew)
      BY <1>3
    <2>2. User(n, grant.roles, grant.disabled, grant.version) \in Users
      BY NameAssumption DEF User, Users
    <2>3. session[b] \in Users
      BY <2>1 DEF TypeOK, UpsertUser
    <2> QED
      BY <2>1, <2>2, <2>3 DEF TypeOK, UpsertUser, GoTo
  <1>4. CASE \E act \in Markings, e \in Endpoints : ToggleLameduck(w, b, act, e)
    <2>1. PICK act \in Markings, e \in Endpoints : ToggleLameduck(w, b, act, e)
      BY <1>4
    <2>2. session[b] \in Users
      BY <2>1 DEF TypeOK, ToggleLameduck
    <2> QED
      BY <2>1, <2>2 DEF TypeOK, ToggleLameduck, GoTo
  <1> QED
    BY <1>1, <1>2, <1>3, <1>4 DEF Request

(* The steps that write to the tables. *)
TableStep(w) == LoginInsert(w) \/ InsertUser(w) \/ UpdateWrite(w) \/ CreateLog(w)

LEMMA TypeTableStep ==
    ASSUME TypeOK, NEW w \in Workers, TableStep(w)
    PROVE  TypeOK'
  <1> USE DEF tableVars, requestVars
  <1> WorkersOK /\ TablesOK /\ RestOK
    BY TypeParts
  <1>1. CASE LoginInsert(w)
    <2>1. /\ cur[w] \in Users /\ cur[w].name \in Names /\ cur[w].version \in Versions
          /\ Row(cur[w], cur[w].version) \in Rows
      BY <1>1, RequestTypes DEF LoginInsert, Row, Rows
    <2>2. users' \in [Names -> Seq(Rows)]
      BY <1>1, <2>1, AppendRow DEF LoginInsert, InsertRow
    <2>3. logs' \in [Operations -> Seq(Names \cup {System})]
      BY <1>1, LogSteps DEF Logged
    <2>4. WorkersOK'
      BY <1>1, <2>1 DEF LoginInsert, WorkersOK, Places, GoTo
    <2>5. RestOK'
      BY <1>1, <2>1 DEF LoginInsert, InsertRow, Write, RestOK
    <2> QED
      BY <2>2, <2>3, <2>4, <2>5, TypeParts DEF TablesOK
  <1>2. CASE InsertUser(w)
    <2>1. /\ want[w] \in Users /\ want[w].name \in Names /\ want[w].version \in Versions
          /\ Row(want[w], want[w].version) \in Rows /\ cur[w].name \in Names
      BY <1>2, RequestTypes DEF InsertUser, Row, Rows
    <2>2. users' \in [Names -> Seq(Rows)]
      BY <1>2, <2>1, AppendRow DEF InsertUser, InsertRow
    <2>3. logs' \in [Operations -> Seq(Names \cup {System})]
      BY <1>2, LogSteps DEF Logged
    <2>4. WorkersOK'
      BY <1>2, AnswerFacts DEF InsertUser
    <2>5. RestOK'
      BY <1>2, <2>1 DEF InsertUser, InsertRow, Write, RestOK, NewAdmin
    <2> QED
      BY <2>2, <2>3, <2>4, <2>5, TypeParts DEF TablesOK
  <1>3. CASE UpdateWrite(w)
    <2>1. /\ want[w] \in Users /\ want[w].name \in Names /\ Updated(w) \in Rows
          /\ cur[w].name \in Names
      <3>1. /\ want[w] \in Users /\ want[w].name \in Names /\ cur[w].name \in Names
            /\ want[w].roles \in SUBSET Roles /\ want[w].disabled \in BOOLEAN
        BY <1>3, RequestTypes DEF UpdateWrite
      <3>2. Counted(found[w]) \in Versions
        BY VersionFacts DEF WorkersOK
      <3> QED
        BY <3>1, <3>2 DEF Updated, Row, Rows
    <2>2. users' \in [Names -> Seq(Rows)]
      BY <1>3, <2>1, WriteRows DEF UpdateWrite
    <2>3. logs' \in [Operations -> Seq(Names \cup {System})]
      BY <1>3, LogSteps DEF Logged
    <2>4. WorkersOK'
      BY <1>3, AnswerFacts DEF UpdateWrite
    <2>5. RestOK'
      BY <1>3, <2>1 DEF UpdateWrite, Write, RestOK, NewAdmin
    <2> QED
      BY <2>2, <2>3, <2>4, <2>5, TypeParts DEF TablesOK
  <1>4. CASE CreateLog(w)
    <2>1. <<what[w], endpoint[w]>> \in Operations /\ cur[w].name \in Names
      BY <1>4, RequestTypes DEF CreateLog
    <2>2. logs' \in [Operations -> Seq(Names \cup {System})]
      BY <1>4, LogSteps DEF Logged
    <2>3. WorkersOK'
      BY <1>4, AnswerFacts DEF CreateLog
    <2> QED
      BY <1>4, <2>2, <2>3, TypeParts DEF CreateLog, TablesOK, RestOK
  <1> QED
    BY <1>1, <1>2, <1>3, <1>4 DEF TableStep

(* The steps by which a request fails. *)
FailStep(w) == LoginInsertFails(w) \/ SaveFails(w) \/ MarkFails(w) \/ CreateLogFails(w)

LEMMA FailFacts ==
    ASSUME NEW w \in Workers, FailStep(w)
    PROVE  Answer(w) /\ UNCHANGED <<users, logs, marks, session, writes, done, admins, given>>
  BY DEF FailStep, LoginInsertFails, SaveFails, MarkFails, CreateLogFails, Fail,
         AfterMarkFails, tableVars

LEMMA TypeFail ==
    ASSUME TypeOK, NEW w \in Workers, FailStep(w)
    PROVE  TypeOK'
  <1>1. TablesOK' /\ RestOK'
    BY TypeParts, FailFacts DEF TablesOK, RestOK
  <1>2. WorkersOK'
    BY TypeParts, FailFacts, AnswerFacts
  <1> QED
    BY <1>1, <1>2, TypeParts

LEMMA TypeOtherStep ==
    ASSUME TypeOK, NEW w \in Workers,
           LoginCommitFails(w) \/ LoginSetsSession(w) \/ UpdateRead(w) \/ Mark(w)
    PROVE  TypeOK'
  <1> USE DEF tableVars, requestVars
  <1> WorkersOK /\ TablesOK /\ RestOK
    BY TypeParts
  <1>1. CASE LoginCommitFails(w)
    BY <1>1 DEF TypeOK, LoginCommitFails, GoTo
  <1>2. CASE LoginSetsSession(w)
    <2>1. WorkersOK'
      BY <1>2, AnswerFacts DEF LoginSetsSession
    <2>2. RestOK'
      BY <1>2, RequestTypes DEF LoginSetsSession, RestOK
    <2> QED
      BY <1>2, <2>1, <2>2, TypeParts DEF LoginSetsSession, TablesOK
  <1>3. CASE UpdateRead(w)
    <2>1. want[w].name \in Names
      BY <1>3, RequestTypes DEF UpdateRead
    <2>2. PICK i \in DOMAIN users[want[w].name] :
            found' = [found EXCEPT ![w] = users[want[w].name][i].version]
      BY <1>3 DEF UpdateRead
    <2>3. users[want[w].name] \in Seq(Rows)
      BY <2>1 DEF TablesOK
    <2>4. users[want[w].name][i] \in Rows
      BY <2>2, <2>3
    <2>5. found' \in [Workers -> Versions]
      BY <2>2, <2>4 DEF Rows, WorkersOK
    <2> QED
      BY <1>3, <2>5 DEF TypeOK, UpdateRead, GoTo
  <1>4. CASE Mark(w)
    <2>1. endpoint[w] \in Endpoints /\ <<what[w], endpoint[w]>> \in Operations
      BY <1>4, RequestTypes DEF Mark
    <2>2. done' \in [Operations -> Nat]
      <3>1. PICK d \in Operations : d = <<what[w], endpoint[w]>>
        BY <2>1
      <3>2. done' = [done EXCEPT ![d] = @ + 1]
        BY <1>4, <3>1 DEF Mark
      <3> QED
        BY <3>2 DEF RestOK
    <2>3. RestOK'
      BY <1>4, <2>1, <2>2 DEF Mark, Write, RestOK
    <2>4. WorkersOK' /\ TablesOK'
      BY <1>4 DEF Mark, WorkersOK, TablesOK, GoTo, Places
    <2> QED
      BY <2>3, <2>4, TypeParts
  <1> QED
    BY <1>1, <1>2, <1>3, <1>4

LEMMA TypeOutside ==
    ASSUME TypeOK,
           \/ \E b \in Browsers : Logout(b)
           \/ \E e \in Endpoints : WebOffline(e) \/ WebOnline(e)
    PROVE  TypeOK'
  BY DEF TypeOK, Logout, WebOffline, WebOnline, tableVars, requestVars

(* The kinds of steps. *)
LEMMA WorkerSteps ==
    ASSUME NEW w \in Workers, WorkerStep(w)
    PROVE  \/ TableStep(w) \/ FailStep(w)
           \/ LoginCommitFails(w) \/ LoginSetsSession(w) \/ UpdateRead(w) \/ Mark(w)
  BY DEF WorkerStep, TableStep, FailStep

(* Type correctness: whatever requests are served at once, none saves or   *)
(* marks what it was not given.                                            *)
THEOREM TypeCorrect == Spec => []TypeOK
  <1>1. TypeOK /\ [Next]_vars => TypeOK'
    <2> SUFFICES ASSUME TypeOK, [Next]_vars PROVE TypeOK'
      OBVIOUS
    <2>1. CASE \E w \in Workers : WorkerStep(w)
      BY <2>1, WorkerSteps, TypeTableStep, TypeFail, TypeOtherStep
    <2>2. CASE \E w \in Workers, b \in Browsers : Request(w, b)
      BY <2>2, TypeRequest
    <2>3. CASE UNCHANGED vars
      BY <2>3 DEF vars, TypeOK
    <2> QED
      BY <2>1, <2>2, <2>3, TypeOutside DEF Next
  <1> QED
    BY TypeInit, <1>1, PTL DEF Spec

-----------------------------------------------------------------------------
(* Rights.  They are copied: from a row into a session, from a session     *)
(* into a worker, from a request into a row.  Whoever has the role of an   *)
(* administrator in any of these had it given, and a worker that saves     *)
(* users or marks endpoints has it.                                        *)

RowsGiven ==
    \A n \in Names : \A i \in DOMAIN users[n] : IsAdmin(users[n][i]) => n \in admins
SessionsGiven ==
    \A b \in Browsers : session[b] # NoUser /\ IsAdmin(session[b]) => session[b].name \in admins
WorkerGiven(w) ==
    /\ pc[w] # "idle" /\ IsAdmin(cur[w]) => cur[w].name \in admins
    /\ pc[w] \in {"create", "update", "write"} => MaySave(cur[w])
    /\ pc[w] \in {"mark", "log"} => IsAdmin(cur[w])

RightsInv ==
    /\ OperatorWasAdmin /\ RowsGiven /\ SessionsGiven
    /\ \A w \in Workers : WorkerGiven(w)

LEMMA RightsInit == Init => RightsInv
  <1> SUFFICES ASSUME Init PROVE RightsInv
    OBVIOUS
  <1>1. RowsGiven
    BY DEF Init, RowsGiven
  <1> QED
    BY <1>1 DEF Init, RightsInv, OperatorWasAdmin, SessionsGiven, WorkerGiven

LEMMA RightsRequest ==
    ASSUME TypeOK, RightsInv, NEW w \in Workers, NEW b \in Browsers, Request(w, b)
    PROVE  RightsInv'
  <1> USE DEF tableVars, requestVars
  <1>1. UNCHANGED <<users, logs, session, admins>>
    BY DEF Request, LoginRead, LoginFindsNone, UpsertUser, ToggleLameduck
  <1>2. \A v \in Workers \ {w} : pc'[v] = pc[v] /\ cur'[v] = cur[v]
    BY DEF Request, LoginRead, LoginFindsNone, UpsertUser, ToggleLameduck, GoTo, TypeOK
  <1>3. WorkerGiven(w)'
    <2>1. ASSUME NEW n \in Names, LoginRead(w, b, n) PROVE WorkerGiven(w)'
      <3>1. PICK i \in DOMAIN users[n] : cur' = [cur EXCEPT ![w] = LoggedInAs(n, users[n][i])]
        BY <2>1 DEF LoginRead
      <3>2. cur'[w] = LoggedInAs(n, users[n][i])
        BY <3>1 DEF TypeOK
      <3>3. IsAdmin(cur'[w]) => IsAdmin(users[n][i]) /\ cur'[w].name = n
        BY <3>2 DEF IsAdmin, LoggedInAs, User
      <3> QED
        BY <2>1, <3>1, <3>3 DEF LoginRead, GoTo, TypeOK, RightsInv, RowsGiven, WorkerGiven
    <2>2. ASSUME NEW n \in Names, LoginFindsNone(w, b, n) PROVE WorkerGiven(w)'
      BY <2>2 DEF LoginFindsNone, GoTo, TypeOK, FirstUser, User, IsAdmin, WorkerGiven
    <2>3. ASSUME NEW n \in Names, NEW grant \in Grants, NEW isNew \in BOOLEAN,
                 UpsertUser(w, b, n, grant, isNew)
          PROVE WorkerGiven(w)'
      BY <2>3 DEF UpsertUser, GoTo, TypeOK, RightsInv, SessionsGiven, WorkerGiven, MaySave
    <2>4. ASSUME NEW act \in Markings, NEW e \in Endpoints, ToggleLameduck(w, b, act, e)
          PROVE WorkerGiven(w)'
      BY <2>4 DEF ToggleLameduck, GoTo, TypeOK, RightsInv, SessionsGiven, WorkerGiven, MayToggle
    <2> QED
      BY <2>1, <2>2, <2>3, <2>4 DEF Request
  <1> QED
    BY <1>1, <1>2, <1>3 DEF RightsInv, OperatorWasAdmin, RowsGiven, SessionsGiven, WorkerGiven

(* Workers beside the one that is through with its request. *)
LEMMA OthersGiven ==
    ASSUME TypeOK, NEW w \in Workers, Answer(w), admins \subseteq admins',
           \A v \in Workers : WorkerGiven(v)
    PROVE  \A v \in Workers : WorkerGiven(v)'
  <1>1. /\ pc'[w] = "idle"
        /\ \A v \in Workers \ {w} : pc'[v] = pc[v] /\ cur'[v] = cur[v]
    BY TypeParts, AnswerFacts
  <1> QED
    BY <1>1 DEF WorkerGiven

(* A user saved: the operator is an administrator, and so is the user now  *)
(* if the row says so.                                                     *)
LEMMA RightsSave ==
    ASSUME TypeOK, RightsInv, NEW w \in Workers, NEW act \in {"insert", "update"},
           pc[w] \in {"create", "update", "write"},
           Logged(cur[w].name, <<act, want[w].name>>),
           admins' = admins \cup NewAdmin(want[w]),
           Answer(w), session' = session,
           \A n \in Names : \A i \in DOMAIN users'[n] :
                \/ i \in DOMAIN users[n] /\ users'[n][i] = users[n][i]
                \/ n = want[w].name /\ users'[n][i].roles = want[w].roles
    PROVE  RightsInv'
  <1>1. cur[w].name \in admins
    BY DEF RightsInv, WorkerGiven, MaySave
  <1>2. OperatorWasAdmin'
    BY <1>1 DEF RightsInv, OperatorWasAdmin, Logged
  <1>3. RowsGiven'
    BY DEF RightsInv, RowsGiven, IsAdmin, NewAdmin
  <1>4. SessionsGiven'
    BY DEF RightsInv, SessionsGiven
  <1> QED
    BY <1>2, <1>3, <1>4, OthersGiven DEF RightsInv

LEMMA RightsWorkerStep ==
    ASSUME TypeOK, RightsInv, NEW w \in Workers, WorkerStep(w)
    PROVE  RightsInv'
  <1> USE DEF tableVars, requestVars
  <1> logs \in [Operations -> Seq(Names \cup {System})] /\ WorkersOK
    BY TypeParts DEF TablesOK
  <1>1. CASE LoginInsert(w)
    <2>1. /\ cur[w] \in Users /\ cur[w].name \in Names
          /\ Row(cur[w], cur[w].version) \in Rows
          /\ Row(cur[w], cur[w].version).roles = cur[w].roles
      BY <1>1, RequestTypes DEF LoginInsert, Row, Rows
    <2>2. IsAdmin(cur[w]) => cur[w].name \in admins
      BY <1>1 DEF LoginInsert, RightsInv, WorkerGiven
    <2>3. OperatorWasAdmin'
      <3>1. Logged(System, <<"insert", cur[w].name>>) /\ admins' = admins
        BY <1>1, LogSteps DEF LoginInsert
      <3> QED
        BY <3>1 DEF RightsInv, OperatorWasAdmin, Logged
    <2>4. \A n \in Names : \A i \in DOMAIN users'[n] :
            \/ i \in DOMAIN users[n] /\ users'[n][i] = users[n][i]
            \/ n = cur[w].name /\ users'[n][i] = Row(cur[w], cur[w].version)
      BY <1>1, <2>1, AppendRow DEF LoginInsert, InsertRow
    <2>5. RowsGiven'
      BY <1>1, <2>1, <2>2, <2>4 DEF LoginInsert, RightsInv, RowsGiven, IsAdmin
    <2>6. SessionsGiven' /\ \A v \in Workers : WorkerGiven(v)'
      BY <1>1 DEF LoginInsert, GoTo, RightsInv, SessionsGiven, WorkerGiven, TypeOK
    <2> QED
      BY <2>3, <2>5, <2>6 DEF RightsInv
  <1>2. CASE InsertUser(w)
    <2>1. /\ want[w].name \in Names
          /\ Row(want[w], want[w].version) \in Rows
          /\ Row(want[w], want[w].version).roles = want[w].roles
      BY <1>2, RequestTypes DEF InsertUser, Row, Rows
    <2>2. \A n \in Names : \A i \in DOMAIN users'[n] :
            \/ i \in DOMAIN users[n] /\ users'[n][i] = users[n][i]
            \/ n = want[w].name /\ users'[n][i].roles = want[w].roles
      BY <1>2, <2>1, AppendRow DEF InsertUser, InsertRow
    <2> QED
      BY <1>2, <2>2, LogSteps, RightsSave DEF InsertUser
  <1>3. CASE UpdateWrite(w)
    <2>1. /\ want[w].name \in Names /\ want[w].roles \in SUBSET Roles
          /\ want[w].disabled \in BOOLEAN
      BY <1>3, RequestTypes DEF UpdateWrite
    <2>2. Counted(found[w]) \in Versions
      BY VersionFacts DEF WorkersOK
    <2>3. Updated(w) \in Rows /\ Updated(w).roles = want[w].roles
      BY <2>1, <2>2 DEF Updated, Row, Rows
    <2>4. \A n \in Names : \A i \in DOMAIN users'[n] :
            \/ i \in DOMAIN users[n] /\ users'[n][i] = users[n][i]
            \/ n = want[w].name /\ users'[n][i].roles = want[w].roles
      BY <1>3, <2>1, <2>3, WriteRows DEF UpdateWrite
    <2> QED
      BY <1>3, <2>4, LogSteps, RightsSave DEF UpdateWrite
  <1>4. CASE CreateLog(w)
    <2>1. Logged(cur[w].name, <<what[w], endpoint[w]>>) /\ admins' = admins
      BY <1>4, LogSteps DEF CreateLog
    <2>2. OperatorWasAdmin'
      BY <1>4, <2>1 DEF CreateLog, RightsInv, WorkerGiven, OperatorWasAdmin, Logged
    <2>3. \A v \in Workers : WorkerGiven(v)'
      BY <1>4, OthersGiven DEF CreateLog, RightsInv
    <2> QED
      BY <1>4, <2>2, <2>3 DEF CreateLog, RightsInv, RowsGiven, SessionsGiven
  <1>5. CASE FailStep(w)
    <2>1. Answer(w) /\ UNCHANGED <<users, logs, session, admins>>
      BY <1>5, FailFacts
    <2>2. \A v \in Workers : WorkerGiven(v)'
      BY <2>1, OthersGiven DEF RightsInv
    <2> QED
      BY <2>1, <2>2 DEF RightsInv, OperatorWasAdmin, RowsGiven, SessionsGiven
  <1>6. CASE LoginSetsSession(w)
    <2>1. \A v \in Workers : WorkerGiven(v)'
      BY <1>6, OthersGiven DEF LoginSetsSession, RightsInv
    <2>2. SessionsGiven'
      BY <1>6 DEF LoginSetsSession, RightsInv, SessionsGiven, WorkerGiven, TypeOK
    <2> QED
      BY <1>6, <2>1, <2>2 DEF LoginSetsSession, RightsInv, OperatorWasAdmin, RowsGiven
  <1>7. CASE LoginCommitFails(w) \/ UpdateRead(w) \/ Mark(w)
    <2>1. UNCHANGED <<users, logs, session, admins, cur>>
      BY <1>7 DEF LoginCommitFails, UpdateRead, Mark
    <2>2. \A v \in Workers : \/ pc'[v] = pc[v]
                             \/ pc[v] = "insert" /\ pc'[v] = "session"
                             \/ pc[v] = "update" /\ pc'[v] = "write"
                             \/ pc[v] = "mark" /\ pc'[v] = "log"
      BY <1>7 DEF LoginCommitFails, UpdateRead, Mark, GoTo, TypeOK
    <2>3. \A v \in Workers : WorkerGiven(v)'
      BY <2>1, <2>2 DEF RightsInv, WorkerGiven
    <2> QED
      BY <2>1, <2>3 DEF RightsInv, OperatorWasAdmin, RowsGiven, SessionsGiven
  <1> QED
    BY <1>1, <1>2, <1>3, <1>4, <1>5, <1>6, <1>7, WorkerSteps DEF TableStep

LEMMA RightsNext == RightsInv /\ TypeOK /\ [Next]_vars => RightsInv'
  <1> SUFFICES ASSUME RightsInv, TypeOK, [Next]_vars PROVE RightsInv'
    OBVIOUS
  <1> USE DEF tableVars, requestVars
  <1>1. CASE \E w \in Workers : WorkerStep(w)
    BY <1>1, RightsWorkerStep
  <1>2. CASE \E w \in Workers, b \in Browsers : Request(w, b)
    BY <1>2, RightsRequest
  <1>3. ASSUME UNCHANGED <<users, logs, pc, cur, admins>>,
               \A b \in Browsers : session'[b] = session[b] \/ session'[b] = NoUser
        PROVE  RightsInv'
    BY <1>3 DEF RightsInv, OperatorWasAdmin, RowsGiven, SessionsGiven, WorkerGiven
  <1>4. CASE \E b \in Browsers : Logout(b)
    BY <1>3, <1>4 DEF Logout, TypeOK
  <1>5. CASE \E e \in Endpoints : WebOffline(e) \/ WebOnline(e)
    BY <1>3, <1>5 DEF WebOffline, WebOnline
  <1>6. CASE UNCHANGED vars
    BY <1>3, <1>6 DEF vars
  <1> QED
    BY <1>1, <1>2, <1>4, <1>5, <1>6 DEF Next

(* Nobody the log names was never an administrator, however old the        *)
(* session he used.                                                        *)
THEOREM OperatorsWereAdmins == Spec => []OperatorWasAdmin
  <1>1. RightsInv => OperatorWasAdmin
    BY DEF RightsInv
  <1> QED
    BY TypeCorrect, RightsInit, RightsNext, <1>1, PTL DEF Spec

-----------------------------------------------------------------------------
(* Who can save users.  A step that copies rights leaves a name with power *)
(* only where it had it before.                                            *)

LEMMA Copied ==
    ASSUME NEW n \in Names,
           \A i \in DOMAIN users'[n] : Strong(users'[n][i]) => Powerful(n),
           \A b \in Browsers :
                session'[b] # NoUser /\ session'[b].name = n /\ Strong(session'[b]) => Powerful(n),
           \A w \in Workers :
                pc'[w] # "idle" /\ cur'[w].name = n /\ Strong(cur'[w]) => Powerful(n)
    PROVE  Powerful(n)' => Powerful(n)
  <1>1. Powerful(n)' <=>
            \/ \E i \in DOMAIN users'[n] : Strong(users'[n][i])
            \/ \E b \in Browsers :
                session'[b] # NoUser /\ session'[b].name = n /\ Strong(session'[b])
            \/ \E w \in Workers : pc'[w] # "idle" /\ cur'[w].name = n /\ Strong(cur'[w])
    BY DEF Powerful, Strong
  <1> QED
    BY <1>1

(* Where power is, before a step. *)
LEMMA Sources ==
    ASSUME NEW n \in Names
    PROVE  /\ \A i \in DOMAIN users[n] : Strong(users[n][i]) => Powerful(n)
           /\ \A b \in Browsers :
                session[b] # NoUser /\ session[b].name = n /\ Strong(session[b]) => Powerful(n)
           /\ \A w \in Workers :
                pc[w] # "idle" /\ cur[w].name = n /\ Strong(cur[w]) => Powerful(n)
  BY DEF Powerful

LEMMA PowerRequest ==
    ASSUME TypeOK, NEW w \in Workers, NEW b \in Browsers, Request(w, b), NEW n \in Names
    PROVE  Powerful(n)' => Powerful(n)
  <1> USE DEF tableVars, requestVars
  <1>1. UNCHANGED <<users, session>>
    BY DEF Request, LoginRead, LoginFindsNone, UpsertUser, ToggleLameduck
  <1>2. \A v \in Workers \ {w} : pc'[v] = pc[v] /\ cur'[v] = cur[v]
    BY DEF Request, LoginRead, LoginFindsNone, UpsertUser, ToggleLameduck, GoTo, TypeOK
  <1>3. cur'[w].name = n /\ Strong(cur'[w]) => Powerful(n)
    <2>1. ASSUME NEW m \in Names, LoginRead(w, b, m)
          PROVE  cur'[w].name = n /\ Strong(cur'[w]) => Powerful(n)
      <3>1. PICK i \in DOMAIN users[m] : cur' = [cur EXCEPT ![w] = LoggedInAs(m, users[m][i])]
        BY <2>1 DEF LoginRead
      <3>2. cur'[w] = LoggedInAs(m, users[m][i])
        BY <3>1 DEF TypeOK
      <3>3. cur'[w].name = m /\ (Strong(cur'[w]) <=> Strong(users[m][i]))
        BY <3>2 DEF LoggedInAs, User, Strong
      <3> QED
        BY <3>1, <3>3, Sources
    <2>2. ASSUME NEW m \in Names, LoginFindsNone(w, b, m) PROVE ~Strong(cur'[w])
      BY <2>2 DEF LoginFindsNone, TypeOK, FirstUser, User, Strong
    <2>3. ASSUME session[b] # NoUser, cur' = [cur EXCEPT ![w] = session[b]]
          PROVE  cur'[w].name = n /\ Strong(cur'[w]) => Powerful(n)
      BY <2>3, Sources DEF TypeOK
    <2> QED
      BY <2>1, <2>2, <2>3 DEF Request, UpsertUser, ToggleLameduck
  <1> QED
    BY <1>1, <1>2, <1>3, Copied, Sources

LEMMA PowerWorkerStep ==
    ASSUME TypeOK, RightsInv, NEW w \in Workers, WorkerStep(w),
           NEW n \in Names, ~Powerful(n), Powerful(n)'
    PROVE  /\ pc[w] \in {"create", "write"}
           /\ want[w].name = n
           /\ cur[w].name # n
           /\ Powerful(cur[w].name)
  <1> USE DEF tableVars, requestVars
  <1> WorkersOK
    BY TypeParts
  <1>1. ASSUME Answer(w), users'[n] = users[n], session' = session PROVE FALSE
    <2>1. \A v \in Workers : pc'[v] # "idle" => pc'[v] = pc[v] /\ cur'[v] = cur[v]
      BY <1>1, AnswerFacts
    <2> QED
      BY <1>1, <2>1, Copied, Sources
  <1>2. ASSUME UNCHANGED <<users, session, cur>>,
               \A v \in Workers : pc'[v] # "idle" => pc[v] # "idle"
        PROVE  FALSE
    BY <1>2, Copied, Sources
  <1>3. ASSUME pc[w] \in {"create", "write"}
        PROVE  cur[w].name \in Names /\ Powerful(cur[w].name)
    <2>1. cur[w].name \in Names /\ Strong(cur[w])
      BY <1>3, RequestTypes DEF RightsInv, WorkerGiven, MaySave, IsAdmin, Strong
    <2> QED
      BY <1>3, <2>1, Sources
  <1>4. CASE LoginInsert(w)
    <2>1. /\ cur[w] \in Users /\ cur[w].name \in Names
          /\ Row(cur[w], cur[w].version) \in Rows
          /\ (Strong(Row(cur[w], cur[w].version)) <=> Strong(cur[w]))
      BY <1>4, RequestTypes DEF LoginInsert, Row, Rows, Strong
    <2>2. \A i \in DOMAIN users'[n] :
            \/ i \in DOMAIN users[n] /\ users'[n][i] = users[n][i]
            \/ n = cur[w].name /\ users'[n][i] = Row(cur[w], cur[w].version)
      BY <1>4, <2>1, AppendRow DEF LoginInsert, InsertRow
    <2>3. \A i \in DOMAIN users'[n] : Strong(users'[n][i]) => Powerful(n)
      BY <1>4, <2>1, <2>2, Sources DEF LoginInsert
    <2>4. /\ session' = session /\ cur' = cur
          /\ \A v \in Workers : pc'[v] # "idle" => pc[v] # "idle"
      BY <1>4 DEF LoginInsert, GoTo, TypeOK
    <2> QED
      BY <2>3, <2>4, Copied, Sources
  <1>5. CASE InsertUser(w)
    <2>1. want[w].name \in Names /\ Row(want[w], want[w].version) \in Rows
      BY <1>5, RequestTypes DEF InsertUser, Row, Rows
    <2>2. n # want[w].name => users'[n] = users[n]
      BY <1>5, <2>1, AppendRow DEF InsertUser, InsertRow
    <2> QED
      BY <1>1, <1>3, <1>5, <2>2 DEF InsertUser
  <1>6. CASE UpdateWrite(w)
    <2>1. want[w].name \in Names
      BY <1>6, RequestTypes DEF UpdateWrite
    <2>2. n # want[w].name => users'[n] = users[n]
      BY <1>6, <2>1 DEF UpdateWrite, TypeOK
    <2> QED
      BY <1>1, <1>3, <1>6, <2>2 DEF UpdateWrite
  <1>7. CASE CreateLog(w)
    BY <1>1, <1>7 DEF CreateLog
  <1>8. CASE FailStep(w)
    BY <1>1, <1>8, FailFacts
  <1>9. CASE LoginSetsSession(w)
    <2>1. /\ users' = users
          /\ \A b \in Browsers : \/ session'[b] = session[b]
                                 \/ session'[b] = cur[w] /\ pc[w] # "idle"
          /\ \A v \in Workers : pc'[v] # "idle" => pc'[v] = pc[v] /\ cur'[v] = cur[v]
      BY <1>9, AnswerFacts DEF LoginSetsSession, TypeOK
    <2> QED
      BY <2>1, Copied, Sources
  <1>10. CASE LoginCommitFails(w) \/ UpdateRead(w) \/ Mark(w)
    <2>1. \A v \in Workers : pc'[v] # "idle" => pc[v] # "idle"
      BY <1>10 DEF LoginCommitFails, UpdateRead, Mark, GoTo, TypeOK
    <2> QED
      BY <1>2, <1>10, <2>1 DEF LoginCommitFails, UpdateRead, Mark
  <1> QED
    BY <1>4, <1>5, <1>6, <1>7, <1>8, <1>9, <1>10, WorkerSteps DEF TableStep

(* Nobody gets the right to save users but by somebody else who has it.    *)
THEOREM PowerIsAlwaysGiven == Spec => PowerIsGiven
  <1> DEFINE A == \A n \in Names : ~Powerful(n) /\ Powerful(n)' =>
                    \E w \in Workers :
                        /\ pc[w] \in {"create", "write"}
                        /\ want[w].name = n
                        /\ cur[w].name # n
                        /\ Powerful(cur[w].name)
  <1>1. TypeOK /\ RightsInv /\ [Next]_vars => A
    <2> SUFFICES ASSUME TypeOK, RightsInv, [Next]_vars,
                        NEW n \in Names, ~Powerful(n), Powerful(n)'
                 PROVE  \E w \in Workers : /\ pc[w] \in {"create", "write"}
                                           /\ want[w].name = n
                                           /\ cur[w].name # n
                                           /\ Powerful(cur[w].name)
      OBVIOUS
    <2>1. CASE \E w \in Workers : WorkerStep(w)
      BY <2>1, PowerWorkerStep
    <2>2. CASE \E w \in Workers, b \in Browsers : Request(w, b)
      BY <2>2, PowerRequest
    <2>3. ASSUME UNCHANGED <<users, pc, cur>>,
                 \A b \in Browsers : session'[b] = session[b] \/ session'[b] = NoUser
          PROVE  FALSE
      BY <2>3, Copied, Sources
    <2>4. CASE \E b \in Browsers : Logout(b)
      BY <2>3, <2>4 DEF Logout, TypeOK, tableVars, requestVars
    <2>5. CASE \E e \in Endpoints : WebOffline(e) \/ WebOnline(e)
      BY <2>3, <2>5 DEF WebOffline, WebOnline, tableVars, requestVars
    <2>6. CASE UNCHANGED vars
      BY <2>3, <2>6 DEF vars
    <2> QED
      BY <2>1, <2>2, <2>4, <2>5, <2>6 DEF Next
  <1>2. TypeOK /\ RightsInv /\ [Next]_vars => [A]_vars
    BY <1>1
  <1> HIDE DEF A
  <1>3. Spec => [][A]_vars
    BY TypeCorrect, RightsInit, RightsNext, <1>2, PTL DEF Spec
  <1> QED
    BY <1>3 DEF A, PowerIsGiven

-----------------------------------------------------------------------------
(* The log.  What it says of rows holds as a save and its line are one     *)
(* transaction; a version that a worker has read counts no more saves than *)
(* the log does.  Of marks, it counts no more than were made, less those   *)
(* that workers are still to log.                                          *)

Insert(n) == <<"insert", n>>
Update(n) == <<"update", n>>
FirstRows(n) == IF n \in FirstAdmins THEN 1 ELSE 0

(* At most k saves count a version of S up to x. *)
Reached(S, x, k) == \E v \in S : Saves(v, x) <= k

RowsLogged ==
    \A n \in Names :
        /\ Len(users[n]) = Len(logs[Insert(n)]) + FirstRows(n)
        /\ \A i \in DOMAIN users[n] :
            Reached(given[n], users[n][i].version, Len(logs[Update(n)]))
FoundLogged ==
    \A w \in Workers : pc[w] = "write" =>
        Reached(given[want[w].name], found[w], Len(logs[Update(want[w].name)]))

ToLog(o) == {w \in Workers : pc[w] = "log" /\ <<what[w], endpoint[w]>> = o}
MarksLogged ==
    \A o \in Markings \X Endpoints : Len(logs[o]) + Cardinality(ToLog(o)) <= done[o]

LogInv == RowsLogged /\ FoundLogged /\ MarksLogged

LEMMA ReachedFacts ==
    ASSUME NEW S \in SUBSET Versions, NEW x \in Versions
    PROVE  /\ x \in S => \A k \in Nat : Reached(S, x, k)
           /\ \A k \in Nat : Reached(S, x, k) => Reached(S, Counted(x), k + 1)
           /\ \A k, j \in Nat, T \in SUBSET Versions :
                Reached(S, x, k) /\ k <= j /\ S \subseteq T => Reached(T, x, j)
  <1>1. ASSUME x \in S, NEW k \in Nat PROVE Reached(S, x, k)
    BY <1>1, VersionFacts DEF Reached
  <1>2. ASSUME NEW k \in Nat, Reached(S, x, k) PROVE Reached(S, Counted(x), k + 1)
    <2>1. PICK v \in S : Saves(v, x) <= k
      BY <1>2 DEF Reached
    <2>2. /\ v \in Versions /\ Counted(x) \in Versions
          /\ Saves(v, x) \in Nat /\ Saves(v, Counted(x)) \in Nat
          /\ Saves(v, Counted(x)) <= Saves(v, x) + 1
      BY VersionFacts
    <2>3. Saves(v, Counted(x)) <= k + 1
      BY <2>1, <2>2
    <2> QED
      BY <2>3 DEF Reached
  <1>3. ASSUME NEW k \in Nat, NEW j \in Nat, NEW T \in SUBSET Versions,
               Reached(S, x, k), k <= j, S \subseteq T
        PROVE  Reached(T, x, j)
    <2>1. PICK v \in S : Saves(v, x) <= k
      BY <1>3 DEF Reached
    <2>2. Saves(v, x) \in Nat
      BY VersionFacts
    <2>3. Saves(v, x) <= j
      BY <1>3, <2>1, <2>2
    <2> QED
      BY <1>3, <2>3 DEF Reached
  <1> QED
    BY <1>1, <1>2, <1>3

LEMMA OperationTypes ==
    /\ \A n \in Names : Insert(n) \in Operations /\ Update(n) \in Operations
    /\ \A n, m \in Names : Insert(n) # Update(m)
    /\ \A n, m \in Names : n # m => Insert(n) # Insert(m) /\ Update(n) # Update(m)
    /\ \A o \in Markings \X Endpoints : o \in Operations
    /\ \A o \in Markings \X Endpoints, n \in Names : o # Insert(n) /\ o # Update(n)
  BY DEF Operations, Insert, Update, Markings

(* Workers are finite in number, and so are those still to log. *)
LEMMA ToLogFinite ==
    /\ \A o : IsFiniteSet(ToLog(o)) /\ Cardinality(ToLog(o)) \in Nat
    /\ \A o : IsFiniteSet(ToLog(o)') /\ Cardinality(ToLog(o)') \in Nat
  <1>1. IsFiniteSet(Workers)
    BY BoundAssumption
  <1>2. \A S \in SUBSET Workers : IsFiniteSet(S) /\ Cardinality(S) \in Nat
    BY <1>1, FS_Subset, FS_CardinalityType
  <1>3. \A o : ToLog(o) \in SUBSET Workers /\ ToLog(o)' \in SUBSET Workers
    BY DEF ToLog
  <1> QED
    BY <1>2, <1>3

LEMMA LogInit == Init => LogInv
  <1> SUFFICES ASSUME Init PROVE LogInv
    OBVIOUS
  <1>1. \A n \in Names : logs[Insert(n)] = <<>> /\ logs[Update(n)] = <<>>
    BY OperationTypes DEF Init
  <1>2. RowsLogged
    <2> SUFFICES ASSUME NEW n \in Names
                 PROVE  /\ Len(users[n]) = FirstRows(n)
                        /\ \A i \in DOMAIN users[n] :
                                users[n][i].version = 0 /\ given[n] = {0}
      <3>1. \A n \in Names : Len(logs[Insert(n)]) = 0 /\ Len(logs[Update(n)]) = 0
        BY <1>1
      <3>2. \A n \in Names : FirstRows(n) \in Nat
        BY DEF FirstRows
      <3>3. Reached({0}, 0, 0)
        <4>1. 0 \in Versions /\ {0} \in SUBSET Versions /\ 0 \in {0}
          BY VersionFacts
        <4> QED
          BY <4>1, ReachedFacts
      <3> SUFFICES ASSUME NEW m \in Names
                   PROVE  /\ Len(users[m]) = Len(logs[Insert(m)]) + FirstRows(m)
                          /\ \A i \in DOMAIN users[m] :
                                Reached(given[m], users[m][i].version, Len(logs[Update(m)]))
        BY DEF RowsLogged
      <3>4. /\ Len(users[m]) = FirstRows(m)
            /\ \A i \in DOMAIN users[m] : users[m][i].version = 0 /\ given[m] = {0}
        OBVIOUS
      <3>5. Len(users[m]) = Len(logs[Insert(m)]) + FirstRows(m)
        BY <3>1, <3>2, <3>4
      <3>6. ASSUME NEW i \in DOMAIN users[m]
            PROVE  Reached(given[m], users[m][i].version, Len(logs[Update(m)]))
        <4>1. users[m][i].version = 0 /\ given[m] = {0} /\ Len(logs[Update(m)]) = 0
          BY <3>1, <3>4
        <4> QED
          BY <3>3, <4>1, Zenon
      <3> QED
        BY <3>5, <3>6
    <2> DEFINE row == Row(User(n, {"RoleAdmin"}, FALSE, 0), 0)
    <2>1. /\ users[n] = IF n \in FirstAdmins THEN <<row>> ELSE <<>>
          /\ given[n] = IF n \in FirstAdmins THEN {0} ELSE {}
      BY DEF Init
    <2>2. row.version = 0
      BY DEF Row
    <2> HIDE DEF row
    <2> QED
      BY <2>1, <2>2 DEF FirstRows
  <1>3. \A o \in Markings \X Endpoints :
            Len(logs[o]) = 0 /\ done[o] = 0 /\ Cardinality(ToLog(o)) = 0
    <2>1. \A o : ToLog(o) = {}
      BY DEF Init, ToLog
    <2> QED
      BY <2>1, FS_EmptySet, OperationTypes DEF Init
  <1> QED
    BY <1>2, <1>3 DEF Init, LogInv, FoundLogged, MarksLogged

(* Fewer workers to log, and as much logged and done: nothing is wrong.    *)
LEMMA MarksFrame ==
    ASSUME TypeOK, MarksLogged, done' = done,
           \A o \in Markings \X Endpoints : logs'[o] = logs[o],
           \A w \in Workers : pc'[w] = "log" =>
                pc[w] = "log" /\ what'[w] = what[w] /\ endpoint'[w] = endpoint[w]
    PROVE  MarksLogged'
  <1> SUFFICES ASSUME NEW o \in Markings \X Endpoints
               PROVE  Len(logs'[o]) + Cardinality(ToLog(o)') <= done'[o]
    BY DEF MarksLogged
  <1>1. ToLog(o)' \subseteq ToLog(o)
    BY DEF ToLog
  <1>2. Cardinality(ToLog(o)') <= Cardinality(ToLog(o))
    BY <1>1, ToLogFinite, FS_Subset
  <1>3. Len(logs[o]) + Cardinality(ToLog(o)) <= done[o]
    BY DEF MarksLogged
  <1>4. Len(logs[o]) \in Nat /\ done[o] \in Nat
    BY OperationTypes DEF TypeOK
  <1> QED
    BY <1>2, <1>3, <1>4, ToLogFinite

(* A row inserted with its line in the log. *)
LEMMA RowInserted ==
    ASSUME TypeOK, RowsLogged, NEW n \in Names, NEW who, NEW row \in Rows,
           users' = [users EXCEPT ![n] = Append(@, row)],
           given' = [given EXCEPT ![n] = @ \cup {row.version}], Logged(who, Insert(n))
    PROVE  RowsLogged'
  <1> SUFFICES ASSUME NEW m \in Names
               PROVE  /\ Len(users'[m]) = Len(logs'[Insert(m)]) + FirstRows(m)
                      /\ \A i \in DOMAIN users'[m] :
                            Reached(given'[m], users'[m][i].version, Len(logs'[Update(m)]))
    BY DEF RowsLogged, Insert, Update, FirstRows, Reached, Saves
  <1>1. /\ logs'[Update(m)] = logs[Update(m)]
        /\ m # n => logs'[Insert(m)] = logs[Insert(m)]
        /\ Len(logs'[Insert(n)]) = Len(logs[Insert(n)]) + 1
        /\ Len(logs[Update(m)]) \in Nat /\ Len(logs[Insert(m)]) \in Nat
    BY OperationTypes DEF Logged
  <1>2. /\ Len(users[m]) = Len(logs[Insert(m)]) + FirstRows(m)
        /\ \A i \in DOMAIN users[m] :
                Reached(given[m], users[m][i].version, Len(logs[Update(m)]))
    BY DEF RowsLogged
  <1>3. /\ \A k \in Names \ {n} : users'[k] = users[k]
        /\ Len(users'[n]) = Len(users[n]) + 1
        /\ \A i \in DOMAIN users'[n] :
             \/ i \in DOMAIN users[n] /\ users'[n][i] = users[n][i]
             \/ users'[n][i] = row
    BY AppendRow
  <1>4. CASE m # n
    <2>1. given'[m] = given[m]
      BY <1>4 DEF TypeOK
    <2> QED
      BY <1>1, <1>2, <1>3, <1>4, <2>1
  <1>5. CASE m = n
    <2>1. Len(users'[m]) = Len(logs'[Insert(m)]) + FirstRows(m)
      <3>1. FirstRows(m) \in Nat
        BY DEF FirstRows
      <3> QED
        BY <1>1, <1>2, <1>3, <1>5, <3>1
    <2>2. /\ given[m] \in SUBSET Versions /\ given'[m] \in SUBSET Versions
          /\ given[m] \subseteq given'[m]
          /\ row.version \in given'[m] /\ row.version \in Versions
      BY <1>5 DEF TypeOK, Rows
    <2>3. ASSUME NEW i \in DOMAIN users'[m]
          PROVE  Reached(given'[m], users'[m][i].version, Len(logs'[Update(m)]))
      <3>1. CASE i \in DOMAIN users[m] /\ users'[m][i] = users[m][i]
        <4>1. users[m][i].version \in Versions
          <5>1. users[m] \in Seq(Rows)
            BY DEF TypeOK
          <5>2. users[m][i] \in Rows
            BY <3>1, <5>1
          <5> QED
            BY <5>2 DEF Rows
        <4>2. Len(logs[Update(m)]) <= Len(logs[Update(m)])
          BY <1>1
        <4>3. Reached(given[m], users[m][i].version, Len(logs[Update(m)]))
          BY <1>2, <3>1
        <4> QED
          BY <1>1, <2>2, <3>1, <4>1, <4>2, <4>3, ReachedFacts
      <3>2. CASE users'[m][i] = row
        BY <1>1, <2>2, <3>2, ReachedFacts
      <3> QED
        BY <1>3, <1>5, <2>3, <3>1, <3>2
    <2> QED
      BY <2>1, <2>3
  <1> QED
    BY <1>4, <1>5

LEMMA LogRequest ==
    ASSUME TypeOK, LogInv, NEW w \in Workers, NEW b \in Browsers, Request(w, b)
    PROVE  LogInv'
  <1> USE DEF tableVars, requestVars
  <1>1. /\ UNCHANGED <<users, logs, done, given>>
        /\ \A v \in Workers \ {w} : /\ pc'[v] = pc[v] /\ want'[v] = want[v]
                                    /\ found'[v] = found[v] /\ what'[v] = what[v]
                                    /\ endpoint'[v] = endpoint[v]
        /\ pc'[w] \notin {"write", "log"}
    BY DEF Request, LoginRead, LoginFindsNone, UpsertUser, ToggleLameduck, GoTo, TypeOK
  <1>2. MarksLogged'
    BY <1>1, MarksFrame DEF LogInv
  <1>3. RowsLogged' /\ FoundLogged'
    BY <1>1 DEF LogInv, RowsLogged, FoundLogged, Insert, Update, FirstRows
  <1> QED
    BY <1>2, <1>3 DEF LogInv

(* A worker that answers a request it had not to log. *)
LEMMA AnswerLogged ==
    ASSUME TypeOK, LogInv, NEW w \in Workers, Answer(w), done' = done,
           \A o \in Markings \X Endpoints : logs'[o] = logs[o],
           \A n \in Names : /\ Len(logs'[Update(n)]) \in Nat
                            /\ Len(logs[Update(n)]) <= Len(logs'[Update(n)])
                            /\ given'[n] \in SUBSET Versions
                            /\ given[n] \subseteq given'[n]
    PROVE  FoundLogged' /\ MarksLogged'
  <1>1. \A v \in Workers : pc'[v] # "idle" =>
            /\ v # w /\ pc'[v] = pc[v] /\ want'[v] = want[v] /\ found'[v] = found[v]
            /\ what'[v] = what[v] /\ endpoint'[v] = endpoint[v]
    BY TypeParts, AnswerFacts
  <1>2. MarksLogged'
    BY <1>1, MarksFrame DEF LogInv
  <1>3. FoundLogged'
    <2> SUFFICES ASSUME NEW v \in Workers, pc'[v] = "write"
                 PROVE  Reached(given'[want'[v].name], found'[v],
                                Len(logs'[Update(want'[v].name)]))
      BY DEF FoundLogged, Update, Reached, Saves
    <2>1. /\ pc[v] = "write" /\ want'[v] = want[v] /\ found'[v] = found[v]
          /\ want[v].name \in Names /\ found[v] \in Versions
      BY <1>1, RequestTypes
    <2>2. PICK n \in Names : n = want[v].name
      BY <2>1
    <2>3. /\ Reached(given[n], found[v], Len(logs[Update(n)])) /\ Update(n) \in Operations
          /\ given[n] \in SUBSET Versions
      BY <2>1, <2>2, OperationTypes DEF LogInv, FoundLogged, TypeOK
    <2>4. /\ Len(logs[Update(n)]) \in Nat /\ Len(logs'[Update(n)]) \in Nat
          /\ Len(logs[Update(n)]) <= Len(logs'[Update(n)])
      BY <2>3 DEF TypeOK
    <2>5. Reached(given'[n], found[v], Len(logs'[Update(n)]))
      BY <2>1, <2>3, <2>4, ReachedFacts
    <2> QED
      BY <2>1, <2>2, <2>5
  <1> QED
    BY <1>2, <1>3

(* A user saved, and logged. *)
LEMMA LogSave ==
    ASSUME TypeOK, LogInv, NEW w \in Workers, InsertUser(w) \/ UpdateWrite(w)
    PROVE  LogInv'
  <1> USE DEF tableVars, requestVars
  <1>1. CASE InsertUser(w)
    <2>1. PICK n \in Names : n = want[w].name
      BY <1>1, RequestTypes DEF InsertUser
    <2>2. /\ Row(want[w], want[w].version) \in Rows /\ want[w].version \in Versions
          /\ Row(want[w], want[w].version).version = want[w].version
      BY <1>1, RequestTypes DEF InsertUser, Row, Rows
    <2>3. Logged(cur[w].name, Insert(n))
      BY <1>1, <2>1, LogSteps DEF Insert
    <2>4. RowsLogged'
      BY <1>1, <2>1, <2>2, <2>3, RowInserted DEF InsertUser, InsertRow, LogInv
    <2>5. /\ \A o \in Markings \X Endpoints : logs'[o] = logs[o]
          /\ \A m \in Names : /\ Len(logs'[Update(m)]) \in Nat
                              /\ Len(logs[Update(m)]) <= Len(logs'[Update(m)])
      BY <2>3, OperationTypes DEF Logged
    <2>6. \A m \in Names : given'[m] \in SUBSET Versions /\ given[m] \subseteq given'[m]
      BY <1>1, <2>2 DEF InsertUser, InsertRow, TypeOK
    <2> QED
      BY <1>1, <2>4, <2>5, <2>6, AnswerLogged DEF InsertUser, LogInv
  <1>2. CASE UpdateWrite(w)
    <2>1. PICK n \in Names : n = want[w].name
      BY <1>2, RequestTypes DEF UpdateWrite
    <2>2. Logged(cur[w].name, Update(n))
      BY <1>2, <2>1, LogSteps DEF Update
    <2>3. found[w] \in Versions /\ Reached(given[n], found[w], Len(logs[Update(n)]))
      BY <1>2, <2>1, RequestTypes DEF UpdateWrite, LogInv, FoundLogged
    <2>4. /\ Updated(w) \in Rows /\ Updated(w).version = Counted(found[w])
      <3>1. Counted(found[w]) \in Versions
        BY <2>3, VersionFacts
      <3>2. want[w].roles \in SUBSET Roles /\ want[w].disabled \in BOOLEAN
        BY <1>2, RequestTypes DEF UpdateWrite
      <3> QED
        BY <3>1, <3>2 DEF Updated, Row, Rows
    <2>5. /\ \A m \in Names \ {n} : users'[m] = users[m]
          /\ Len(users'[n]) = Len(users[n])
          /\ \A i \in DOMAIN users'[n] : users'[n][i] = Updated(w)
      BY <1>2, <2>1, <2>4, WriteRows DEF UpdateWrite
    <2>6. /\ Len(logs'[Update(n)]) = Len(logs[Update(n)]) + 1
          /\ \A m \in Names : m # n => logs'[Update(m)] = logs[Update(m)]
          /\ \A m \in Names : logs'[Insert(m)] = logs[Insert(m)]
          /\ \A o \in Markings \X Endpoints : logs'[o] = logs[o]
          /\ \A m \in Names : /\ Len(logs'[Update(m)]) \in Nat
                              /\ Len(logs[Update(m)]) <= Len(logs'[Update(m)])
          /\ Len(logs[Update(n)]) \in Nat
      BY <2>2, OperationTypes DEF Logged
    <2>7. RowsLogged'
      <3> SUFFICES ASSUME NEW m \in Names
                   PROVE  /\ Len(users'[m]) = Len(logs'[Insert(m)]) + FirstRows(m)
                          /\ \A i \in DOMAIN users'[m] :
                                Reached(given[m], users'[m][i].version,
                                        Len(logs'[Update(m)]))
        BY <1>2 DEF UpdateWrite, RowsLogged, Insert, Update, FirstRows, Reached, Saves
      <3>1. /\ Len(users[m]) = Len(logs[Insert(m)]) + FirstRows(m)
            /\ \A i \in DOMAIN users[m] :
                    Reached(given[m], users[m][i].version, Len(logs[Update(m)]))
        BY DEF LogInv, RowsLogged
      <3>2. CASE m # n
        BY <2>5, <2>6, <3>1, <3>2
      <3>3. CASE m = n
        <4>1. Reached(given[n], Counted(found[w]), Len(logs[Update(n)]) + 1)
          <5>1. given[n] \in SUBSET Versions
            BY DEF TypeOK
          <5> QED
            BY <2>3, <2>6, <5>1, ReachedFacts
        <4> QED
          BY <2>4, <2>5, <2>6, <3>1, <3>3, <4>1
      <3> QED
        BY <3>2, <3>3
    <2>8. \A m \in Names : given'[m] \in SUBSET Versions /\ given[m] \subseteq given'[m]
      BY <1>2 DEF UpdateWrite, TypeOK
    <2> QED
      BY <1>2, <2>6, <2>7, <2>8, AnswerLogged DEF UpdateWrite, LogInv
  <1> QED
    BY <1>1, <1>2

(* An endpoint marked: one more done, and one more to log. *)
LEMMA LogMark ==
    ASSUME TypeOK, LogInv, NEW w \in Workers, Mark(w)
    PROVE  LogInv'
  <1> USE DEF tableVars, requestVars
  <1>1. PICK d \in Markings \X Endpoints : d = <<what[w], endpoint[w]>>
    BY RequestTypes DEF Mark
  <1>2. /\ pc[w] = "mark" /\ pc'[w] = "log"
        /\ \A v \in Workers \ {w} : pc'[v] = pc[v]
        /\ done' = [done EXCEPT ![d] = @ + 1]
        /\ UNCHANGED <<users, logs, want, found, what, endpoint, given>>
    BY <1>1 DEF Mark, GoTo, TypeOK
  <1>3. RowsLogged' /\ FoundLogged'
    BY <1>2 DEF LogInv, RowsLogged, FoundLogged, Insert, Update, FirstRows
  <1>4. MarksLogged'
    <2> SUFFICES ASSUME NEW o \in Markings \X Endpoints
                 PROVE  Len(logs'[o]) + Cardinality(ToLog(o)') <= done'[o]
      BY DEF MarksLogged
    <2>1. /\ Len(logs[o]) + Cardinality(ToLog(o)) <= done[o]
          /\ Len(logs[o]) \in Nat /\ done[o] \in Nat /\ o \in Operations
          /\ done \in [Operations -> Nat]
      BY OperationTypes DEF LogInv, MarksLogged, TypeOK
    <2>2. CASE o = d
      <3>1. ToLog(o)' = ToLog(o) \cup {w} /\ w \notin ToLog(o)
        BY <1>1, <1>2, <2>2 DEF ToLog
      <3>2. Cardinality(ToLog(o)') = Cardinality(ToLog(o)) + 1
        BY <3>1, ToLogFinite, FS_AddElement
      <3>3. done'[o] = done[o] + 1
        BY <1>2, <2>1, <2>2
      <3> QED
        BY <1>2, <2>1, <3>2, <3>3, ToLogFinite
    <2>3. CASE o # d
      <3>1. ToLog(o)' = ToLog(o)
        BY <1>1, <1>2, <2>3 DEF ToLog
      <3>2. done'[o] = done[o]
        BY <1>2, <2>1, <2>3
      <3> QED
        BY <1>2, <2>1, <3>1, <3>2
    <2> QED
      BY <2>2, <2>3
  <1> QED
    BY <1>3, <1>4 DEF LogInv

(* What was done is logged: one line more, and one worker less to log. *)
LEMMA LogCreateLog ==
    ASSUME TypeOK, LogInv, NEW w \in Workers, CreateLog(w)
    PROVE  LogInv'
  <1> USE DEF tableVars, requestVars
  <1>1. PICK d \in Markings \X Endpoints : d = <<what[w], endpoint[w]>>
    BY RequestTypes DEF CreateLog
  <1>2. Logged(cur[w].name, d)
    BY <1>1, LogSteps
  <1>3. /\ Len(logs'[d]) = Len(logs[d]) + 1
        /\ \A o \in Operations : o # d => logs'[o] = logs[o]
        /\ \A o \in Operations : Len(logs[o]) \in Nat
        /\ \A n \in Names : logs'[Insert(n)] = logs[Insert(n)] /\ logs'[Update(n)] = logs[Update(n)]
    BY <1>2, OperationTypes DEF Logged
  <1>4. /\ pc[w] = "log" /\ users' = users /\ done' = done /\ given' = given
        /\ pc'[w] = "idle"
        /\ \A v \in Workers \ {w} : /\ pc'[v] = pc[v] /\ want'[v] = want[v]
                                    /\ found'[v] = found[v] /\ what'[v] = what[v]
                                    /\ endpoint'[v] = endpoint[v]
    BY TypeParts, AnswerFacts DEF CreateLog
  <1>5. RowsLogged'
    BY <1>3, <1>4 DEF LogInv, RowsLogged, Insert, Update, FirstRows
  <1>6. FoundLogged'
    BY <1>3, <1>4, RequestTypes DEF LogInv, FoundLogged, Update
  <1>7. MarksLogged'
    <2> SUFFICES ASSUME NEW o \in Markings \X Endpoints
                 PROVE  Len(logs'[o]) + Cardinality(ToLog(o)') <= done'[o]
      BY DEF MarksLogged
    <2>1. /\ Len(logs[o]) + Cardinality(ToLog(o)) <= done[o]
          /\ Len(logs[o]) \in Nat /\ done[o] \in Nat /\ o \in Operations
      BY <1>3, OperationTypes DEF LogInv, MarksLogged, TypeOK
    <2>2. CASE o = d
      <3>1. ToLog(o)' = ToLog(o) \ {w} /\ w \in ToLog(o)
        BY <1>1, <1>4, <2>2 DEF ToLog
      <3>2. Cardinality(ToLog(o)') = Cardinality(ToLog(o)) - 1
        BY <3>1, ToLogFinite, FS_RemoveElement
      <3> QED
        BY <1>3, <1>4, <2>1, <2>2, <3>2, ToLogFinite
    <2>3. CASE o # d
      <3>1. ToLog(o)' = ToLog(o)
        BY <1>1, <1>4, <2>3 DEF ToLog
      <3> QED
        BY <1>3, <1>4, <2>1, <2>3, <3>1
    <2> QED
      BY <2>2, <2>3
  <1> QED
    BY <1>5, <1>6, <1>7 DEF LogInv

(* The insert of a first login. *)
LEMMA LogLoginInsert ==
    ASSUME TypeOK, LogInv, NEW w \in Workers, LoginInsert(w)
    PROVE  LogInv'
  <1> USE DEF tableVars, requestVars
  <1>1. PICK n \in Names : n = cur[w].name
    BY RequestTypes DEF LoginInsert
  <1>2. /\ Row(cur[w], cur[w].version) \in Rows /\ cur[w].version \in Versions
        /\ Row(cur[w], cur[w].version).version = cur[w].version
    BY RequestTypes DEF LoginInsert, Row, Rows
  <1>3. Logged(System, Insert(n))
    BY <1>1, LogSteps DEF Insert
  <1>4. RowsLogged'
    BY <1>1, <1>2, <1>3, RowInserted DEF LoginInsert, InsertRow, LogInv
  <1>5. /\ \A o \in Markings \X Endpoints : logs'[o] = logs[o]
        /\ \A m \in Names : logs'[Update(m)] = logs[Update(m)]
    BY <1>3, OperationTypes DEF Logged
  <1>6. /\ pc' = [pc EXCEPT ![w] = "session"]
        /\ UNCHANGED <<want, found, what, endpoint, done>>
    BY DEF LoginInsert, GoTo
  <1>7. \A v \in Workers : pc'[v] \in {"write", "log"} => pc'[v] = pc[v]
    BY <1>6 DEF TypeOK
  <1>8. FoundLogged'
    <2> SUFFICES ASSUME NEW v \in Workers, pc'[v] = "write"
                 PROVE  Reached(given'[want'[v].name], found'[v],
                                Len(logs'[Update(want'[v].name)]))
      BY DEF FoundLogged, Update, Reached, Saves
    <2>0. pc[v] = "write" /\ want' = want /\ found' = found
      BY <1>6, <1>7
    <2>1. PICK m \in Names : m = want[v].name
      BY <2>0, RequestTypes
    <2>2. /\ Reached(given[m], found[v], Len(logs[Update(m)])) /\ found[v] \in Versions
          /\ Update(m) \in Operations
      BY <2>0, <2>1, RequestTypes, OperationTypes DEF LogInv, FoundLogged
    <2>3. /\ given[m] \in SUBSET Versions /\ given'[m] \in SUBSET Versions
          /\ given[m] \subseteq given'[m]
      BY <1>1, <1>2 DEF LoginInsert, InsertRow, TypeOK
    <2>4. Len(logs[Update(m)]) \in Nat /\ Len(logs[Update(m)]) <= Len(logs[Update(m)])
      BY <2>2 DEF TypeOK
    <2> QED
      <3>1. Reached(given'[m], found[v], Len(logs[Update(m)]))
        BY <2>2, <2>3, <2>4, ReachedFacts
      <3>2. logs'[Update(m)] = logs[Update(m)]
        BY <1>5
      <3> QED
        BY <2>0, <2>1, <3>1, <3>2, Zenon
  <1>9. MarksLogged'
    BY <1>5, <1>6, <1>7, MarksFrame DEF LogInv
  <1> QED
    BY <1>4, <1>8, <1>9 DEF LogInv

(* The worker learns a version that counts no more saves than the log. *)
LEMMA LogUpdateRead ==
    ASSUME TypeOK, LogInv, NEW w \in Workers, UpdateRead(w)
    PROVE  LogInv'
  <1> USE DEF tableVars, requestVars
  <1>1. PICK n \in Names : n = want[w].name
    BY RequestTypes DEF UpdateRead
  <1>2. PICK i \in DOMAIN users[n] : found' = [found EXCEPT ![w] = users[n][i].version]
    BY <1>1 DEF UpdateRead
  <1>3. /\ pc' = [pc EXCEPT ![w] = "write"]
        /\ UNCHANGED <<users, logs, done, want, what, endpoint, given>>
    BY DEF UpdateRead, GoTo
  <1>4. Reached(given[n], users[n][i].version, Len(logs[Update(n)]))
    BY DEF LogInv, RowsLogged
  <1>5. Reached(given[n], found'[w], Len(logs[Update(n)])) /\ \A v \in Workers \ {w} : found'[v] = found[v]
    BY <1>2, <1>4 DEF TypeOK
  <1>6. \A v \in Workers \ {w} : pc'[v] = pc[v]
    BY <1>3 DEF TypeOK
  <1>7. FoundLogged'
    BY <1>1, <1>3, <1>5, <1>6 DEF LogInv, FoundLogged, Update
  <1>8. \A v \in Workers : pc'[v] = "log" => pc[v] = "log"
    BY <1>3 DEF TypeOK
  <1>9. MarksLogged'
    BY <1>3, <1>8, MarksFrame DEF LogInv
  <1>10. RowsLogged'
    BY <1>3 DEF LogInv, RowsLogged, Insert, Update, FirstRows
  <1> QED
    BY <1>7, <1>9, <1>10 DEF LogInv

(* The steps that write neither to a table nor to etcd. *)
LEMMA LogSilent ==
    ASSUME TypeOK, LogInv, NEW w \in Workers,
           FailStep(w) \/ LoginSetsSession(w) \/ LoginCommitFails(w)
    PROVE  LogInv'
  <1> USE DEF tableVars, requestVars
  <1>1. UNCHANGED <<users, logs, done, given>>
    BY FailFacts DEF LoginSetsSession, LoginCommitFails
  <1>2. RowsLogged'
    BY <1>1 DEF LogInv, RowsLogged, Insert, Update, FirstRows
  <1>3. CASE Answer(w)
    <2>1. \A n \in Names : /\ Len(logs[Update(n)]) \in Nat
                           /\ Len(logs[Update(n)]) <= Len(logs[Update(n)])
                           /\ given[n] \in SUBSET Versions
      BY OperationTypes DEF TypeOK
    <2>2. FoundLogged' /\ MarksLogged'
      BY <1>1, <1>3, <2>1, AnswerLogged DEF Update
    <2> QED
      BY <1>2, <2>2 DEF LogInv
  <1>4. CASE LoginCommitFails(w)
    <2>1. /\ UNCHANGED <<want, found, what, endpoint>>
          /\ \A v \in Workers : pc'[v] \in {"write", "log"} => pc'[v] = pc[v]
      BY <1>4 DEF LoginCommitFails, GoTo, TypeOK
    <2>2. FoundLogged'
      BY <1>1, <2>1 DEF LogInv, FoundLogged, Update
    <2>3. MarksLogged'
      BY <1>1, <2>1, MarksFrame DEF LogInv
    <2> QED
      BY <1>2, <2>2, <2>3 DEF LogInv
  <1> QED
    BY <1>3, <1>4, FailFacts DEF LoginSetsSession

LEMMA LogNext == LogInv /\ TypeOK /\ [Next]_vars => LogInv'
  <1> SUFFICES ASSUME LogInv, TypeOK, [Next]_vars PROVE LogInv'
    OBVIOUS
  <1> USE DEF tableVars, requestVars
  <1>1. CASE \E w \in Workers : WorkerStep(w)
    BY <1>1, WorkerSteps, LogLoginInsert, LogSave, LogMark, LogCreateLog, LogUpdateRead,
       LogSilent DEF TableStep
  <1>2. CASE \E w \in Workers, b \in Browsers : Request(w, b)
    BY <1>2, LogRequest
  <1>3. ASSUME UNCHANGED <<users, logs, done, given, pc, want, found, what, endpoint>>
        PROVE  LogInv'
    BY <1>3 DEF LogInv, RowsLogged, FoundLogged, MarksLogged, ToLog, Insert, Update, FirstRows
  <1>4. CASE \E b \in Browsers : Logout(b)
    BY <1>3, <1>4 DEF Logout
  <1>5. CASE \E e \in Endpoints : WebOffline(e) \/ WebOnline(e)
    BY <1>3, <1>5 DEF WebOffline, WebOnline
  <1>6. CASE UNCHANGED vars
    BY <1>3, <1>6 DEF vars
  <1> QED
    BY <1>1, <1>2, <1>4, <1>5, <1>6 DEF Next

(* Whatever versions requests insert: the log claims nothing that was not  *)
(* done, has a line for every row, and a row counts no more saves from a   *)
(* version that was inserted than the log has.                             *)
THEOREM LogIsAlwaysTrue == Spec => []LogIsTrue
  <1>1. LogInv /\ TypeOK => LogIsTrue
    <2> SUFFICES ASSUME LogInv, TypeOK PROVE LogIsTrue
      OBVIOUS
    <2>1. \A o \in Markings \X Endpoints : Len(logs[o]) <= done[o]
      <3> TAKE o \in Markings \X Endpoints
      <3>1. /\ Len(logs[o]) + Cardinality(ToLog(o)) <= done[o]
            /\ Len(logs[o]) \in Nat /\ done[o] \in Nat
        BY OperationTypes DEF LogInv, MarksLogged, TypeOK
      <3> QED
        BY <3>1, ToLogFinite
    <2> QED
      BY <2>1 DEF LogInv, RowsLogged, LogIsTrue, Insert, Update, FirstRows, Reached
  <1> QED
    BY TypeCorrect, LogInit, LogNext, <1>1, PTL DEF Spec
=============================================================================
