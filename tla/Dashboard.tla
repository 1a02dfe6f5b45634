------------------------------ MODULE Dashboard ------------------------------
(***************************************************************************)
(* Who may do what on the dashboard, and what is kept of it: the users of  *)
(* the database, the copies of them in the sessions of browsers, the log   *)
(* of operations (dashboard/db/users.go, dashboard/db/logs.go) and the     *)
(* lame duck marks in etcd (dashboard/lameduck.go, dashboard/instance.go,  *)
(* cmd/webserver/main.go).                                                 *)
(*                                                                         *)
(* A request is served by a goroutine of its own, a worker.  A step is one *)
(* transaction or one statement of a transaction that others can precede,  *)
(* one request to etcd, or one access to the session.  The schema of the   *)
(* database is not in the repository: whether it refuses a second row of a *)
(* login name is left open, and so is the failure of any request.          *)
(***************************************************************************)
EXTENDS Integers, Sequences, FiniteSets

CONSTANTS
    Names,       \* login names known to LDAP
    FirstAdmins, \* those with a row of an administrator at the start
    Grants,      \* what a request to save a user may make of him
    Browsers,    \* sessions
    Workers,     \* bound: requests served at once
    Endpoints,   \* a service and an address, what a lame duck mark is for
    System,      \* the operator of the first login's insert
    NoUser,      \* no user in the session, no request
    NoEndpoint,
    NoBrowser,
    MaxInt32,    \* bound: the largest int32, 2^31 - 1 in the code
    MaxWrites    \* bound: changes the dashboard makes

(* RoleOperation gives no right of its own. *)
Roles == {"RoleAdmin", "RoleDeveloper"}

(* An int32.  Counted up it wraps around.                                  *)
Versions == -MaxInt32 - 1 .. MaxInt32
CountedWide(v) == v + 1  \* mutant: an int64
Counted(v) == IF v = MaxInt32 THEN -MaxInt32 - 1 ELSE v + 1

ASSUME NameAssumption ==
    /\ FirstAdmins \subseteq Names
    /\ Grants \subseteq [roles : SUBSET Roles, disabled : BOOLEAN, version : Versions]
    /\ System \notin Names
    /\ NoEndpoint \notin Endpoints
    /\ NoBrowser \notin Browsers
ASSUME BoundAssumption == MaxWrites \in Nat /\ MaxInt32 \in Nat /\ IsFiniteSet(Workers)

(* The struct User, and what a row of the table of users has beside the    *)
(* name.                                                                   *)
Users == [name : Names, roles : SUBSET Roles, disabled : BOOLEAN, version : Versions]
Rows == [roles : SUBSET Roles, disabled : BOOLEAN, version : Versions]

User(n, roles, disabled, version) ==
    [name |-> n, roles |-> roles, disabled |-> disabled, version |-> version]
Row(u, version) == [roles |-> u.roles, disabled |-> u.disabled, version |-> version]

ASSUME NoUserAssumption == NoUser \notin Users

FirstUserAdmin(n) == User(n, {"RoleAdmin"}, FALSE, 0)  \* mutant: the first role, iota
(* What MergeUserRoles makes of someone who has no row yet. *)
FirstUser(n) == User(n, {"RoleDeveloper"}, FALSE, 0)

Markings == {"mark", "unmark"}

(* What the log tells of: its operators are told apart by their names. *)
Operations == ({"insert", "update"} \X Names) \cup (Markings \X Endpoints)

VARIABLES
    users,     \* per name, its rows in the table
    logs,      \* per operation, the operators the table of logs has for it
    marks,     \* lame duck marks in etcd
    session,   \* per browser, login_user
    pc,        \* per worker, what its request is at
    browser,   \* per worker, where its request comes from
    cur,       \* per worker, the user of the session, or the one logging in
    want,      \* per worker, the user to save
    found,     \* per worker, the version of the row it has read
    what,      \* per worker, what to do with the endpoint
    endpoint,  \* per worker, the endpoint to mark
    writes,    \* changes made so far
    done,      \* per change of a mark, how often it was made (history)
    admins,    \* who has ever had the role of an administrator (history)
    given      \* per name, the versions its rows were inserted with (history)

tableVars == <<users, logs>>
requestVars == <<browser, cur, want, found, what, endpoint>>
vars == <<users, logs, marks, session, pc, browser, cur, want, found, what,
          endpoint, writes, done, admins, given>>

Init ==
    /\ users = [n \in Names |->
            IF n \in FirstAdmins THEN <<Row(User(n, {"RoleAdmin"}, FALSE, 0), 0)>> ELSE <<>>]
    /\ logs = [o \in Operations |-> <<>>]
    /\ marks = {}
    /\ session = [b \in Browsers |-> NoUser]
    /\ pc = [w \in Workers |-> "idle"]
    /\ browser = [w \in Workers |-> NoBrowser]
    /\ cur = [w \in Workers |-> NoUser]
    /\ want = [w \in Workers |-> NoUser]
    /\ found = [w \in Workers |-> 0]
    /\ what = [w \in Workers |-> "mark"]
    /\ endpoint = [w \in Workers |-> NoEndpoint]
    /\ writes = 0
    /\ done = [o \in Operations |-> 0]
    /\ admins = FirstAdmins
    /\ given = [n \in Names |-> IF n \in FirstAdmins THEN {0} ELSE {}]

IsAdmin(u) == "RoleAdmin" \in u.roles

GoTo(w, where) == pc' = [pc EXCEPT ![w] = where]

Write ==
    /\ writes < MaxWrites
    /\ writes' = writes + 1

(* insertLog, in a transaction of its own or in that of the change. *)
Log(operator, act, on) == logs' = [logs EXCEPT ![<<act, on>>] = Append(@, operator)]

(* Another row, whatever rows of the name there are. *)
InsertRow(u) ==
    /\ users' = [users EXCEPT ![u.name] = Append(@, Row(u, u.version))]
    /\ given' = [given EXCEPT ![u.name] = @ \cup {u.version}]

(* The answer goes out; whatever the worker held is gone. *)
Answer(w) ==
    /\ GoTo(w, "idle")
    /\ browser' = [browser EXCEPT ![w] = NoBrowser]
    /\ cur' = [cur EXCEPT ![w] = NoUser]
    /\ want' = [want EXCEPT ![w] = NoUser]
    /\ found' = [found EXCEPT ![w] = 0]
    /\ what' = [what EXCEPT ![w] = "mark"]
    /\ endpoint' = [endpoint EXCEPT ![w] = NoEndpoint]

(* A request fails, or is refused by the database or etcd.  Commit fails   *)
(* alike, though the answer then says otherwise: its error is ignored.     *)
Fail(w) == Answer(w) /\ UNCHANGED <<tableVars, marks, session, writes, done, admins, given>>

-----------------------------------------------------------------------------
(* Log in and log out. *)

LoggedInEnabled(n, row) == User(n, row.roles, FALSE, row.version)  \* mutant: Disabled is not copied
LoggedInAs(n, row) == User(n, row.roles, row.disabled, row.version)

(* Authenticate: LDAP accepts the name; MergeUserRoles reads a row. *)
LoginRead(w, b, n) ==
    /\ pc[w] = "idle"
    /\ users[n] # <<>>
    /\ \E i \in DOMAIN users[n] : cur' = [cur EXCEPT ![w] = LoggedInAs(n, users[n][i])]
    /\ browser' = [browser EXCEPT ![w] = b]
    /\ GoTo(w, "session")
    /\ UNCHANGED <<tableVars, marks, session, want, found, what, endpoint, writes,
                   done, admins, given>>

(* There is none: the transaction ends, another one inserts it. *)
LoginFindsNone(w, b, n) ==
    /\ pc[w] = "idle"
    /\ users[n] = <<>>
    /\ cur' = [cur EXCEPT ![w] = FirstUser(n)]
    /\ browser' = [browser EXCEPT ![w] = b]
    /\ GoTo(w, "insert")
    /\ UNCHANGED <<tableVars, marks, session, want, found, what, endpoint, writes,
                   done, admins, given>>

LoginInsert(w) ==
    /\ pc[w] = "insert"
    /\ Write
    /\ InsertRow(cur[w])
    /\ Log(System, "insert", cur[w].name)
    /\ GoTo(w, "session")
    /\ UNCHANGED <<marks, session, requestVars, done, admins>>

(* The insert fails, and so does the login. *)
LoginInsertFails(w) == pc[w] = "insert" /\ Fail(w)

(* The commit fails: its error is ignored, and someone without a row is    *)
(* logged in.                                                              *)
LoginCommitFails(w) ==
    /\ pc[w] = "insert"
    /\ GoTo(w, "session")
    /\ UNCHANGED <<tableVars, marks, session, requestVars, writes, done, admins, given>>

LoginSetsSession(w) ==
    /\ pc[w] = "session"
    /\ session' = [session EXCEPT ![browser[w]] = cur[w]]
    /\ Answer(w)
    /\ UNCHANGED <<tableVars, marks, writes, done, admins, given>>

Logout(b) ==
    /\ session[b] # NoUser
    /\ session' = [session EXCEPT ![b] = NoUser]
    /\ UNCHANGED <<tableVars, marks, pc, requestVars, writes, done, admins, given>>

-----------------------------------------------------------------------------
(* upsertUserHandler: rights are those of the session, as of its login. *)

MaySaveDisabled(u) == IsAdmin(u)  \* mutant: curUser.Disabled is not looked at
MaySave(u) == IsAdmin(u) /\ ~u.disabled

(* The version is whatever the request says; the page sends 0 for a new    *)
(* user, and the handler does not look at it.  It is stored with a new     *)
(* user and not used for one that exists.                                  *)
UpsertUser(w, b, n, grant, isNew) ==
    /\ pc[w] = "idle"
    /\ session[b] # NoUser
    /\ MaySave(session[b])
    /\ cur' = [cur EXCEPT ![w] = session[b]]
    /\ want' = [want EXCEPT ![w] = User(n, grant.roles, grant.disabled, grant.version)]
    /\ browser' = [browser EXCEPT ![w] = b]
    /\ GoTo(w, IF isNew THEN "create" ELSE "update")
    /\ UNCHANGED <<tableVars, marks, session, found, what, endpoint, writes, done,
                   admins, given>>

NewAdmin(u) == IF IsAdmin(u) THEN {u.name} ELSE {}

InsertUser(w) ==
    /\ pc[w] = "create"
    /\ Write
    /\ InsertRow(want[w])
    /\ Log(cur[w].name, "insert", want[w].name)
    /\ admins' = admins \cup NewAdmin(want[w])
    /\ Answer(w)
    /\ UNCHANGED <<marks, session, done>>

(* updateUser reads the row and writes it back in one transaction.  At the *)
(* isolation level databases start with, another one that commits between  *)
(* the two is overwritten: the version is counted up, never compared.      *)
UpdateRead(w) ==
    /\ pc[w] = "update"
    /\ \E i \in DOMAIN users[want[w].name] :
            found' = [found EXCEPT ![w] = users[want[w].name][i].version]
    /\ GoTo(w, "write")
    /\ UNCHANGED <<tableVars, marks, session, browser, cur, want, what, endpoint,
                   writes, done, admins, given>>

UpdatedTwice(w) == Row(want[w], Counted(Counted(found[w])))  \* mutant
Updated(w) == Row(want[w], Counted(found[w]))

(* Every row of the name is written, and the operation is logged. *)
UpdateWrite(w) ==
    LET n == want[w].name
    IN  /\ pc[w] = "write"
        /\ Write
        /\ users' = [users EXCEPT ![n] = [i \in DOMAIN @ |-> Updated(w)]]
        /\ Log(cur[w].name, "update", n)
        /\ admins' = admins \cup NewAdmin(want[w])
        /\ Answer(w)
        /\ UNCHANGED <<marks, session, done, given>>

SaveFails(w) == pc[w] \in {"create", "update", "write"} /\ Fail(w)

-----------------------------------------------------------------------------
(* toggleLameduckHandler, and addInstanceHandler, which marks an endpoint  *)
(* too.  They look at the role only: a user disabled before he logged in   *)
(* may still do this.                                                      *)

MayToggleAny(u) == TRUE  \* mutant: no isAdmin
MayToggle(u) == IsAdmin(u)

ToggleLameduck(w, b, act, e) ==
    /\ pc[w] = "idle"
    /\ session[b] # NoUser
    /\ MayToggle(session[b])
    /\ cur' = [cur EXCEPT ![w] = session[b]]
    /\ what' = [what EXCEPT ![w] = act]
    /\ endpoint' = [endpoint EXCEPT ![w] = e]
    /\ browser' = [browser EXCEPT ![w] = b]
    /\ GoTo(w, "mark")
    /\ UNCHANGED <<tableVars, marks, session, want, found, writes, done, admins, given>>

(* SetLameDuckMode and UnsetLameDuckMode; the latter fails without a mark. *)
Mark(w) ==
    /\ pc[w] = "mark"
    /\ what[w] = "mark" \/ endpoint[w] \in marks
    /\ Write
    /\ marks' = IF what[w] = "mark" THEN marks \cup {endpoint[w]} ELSE marks \ {endpoint[w]}
    /\ done' = [done EXCEPT ![<<what[w], endpoint[w]>>] = @ + 1]
    /\ GoTo(w, "log")
    /\ UNCHANGED <<tableVars, session, requestVars, admins, given>>

AfterMarkFailsLog == "log"  \* mutant: no return
AfterMarkFails == "idle"

MarkFails(w) ==
    /\ pc[w] = "mark"
    /\ IF AfterMarkFails = "idle" THEN Answer(w)
                                  ELSE GoTo(w, AfterMarkFails) /\ UNCHANGED requestVars
    /\ UNCHANGED <<tableVars, marks, session, writes, done, admins, given>>

(* CreateLog, whose error is ignored. *)
CreateLog(w) ==
    /\ pc[w] = "log"
    /\ Log(cur[w].name, what[w], endpoint[w])
    /\ Answer(w)
    /\ UNCHANGED <<users, marks, session, writes, done, admins, given>>

CreateLogFails(w) == pc[w] = "log" /\ Fail(w)

(* One address of a request to the web server, which asks for no login and *)
(* keeps no log; an address that fails is passed over.                     *)
WebOffline(e) ==
    /\ marks' = marks \cup {e}
    /\ UNCHANGED <<tableVars, session, pc, requestVars, writes, done, admins, given>>
WebOnline(e) ==
    /\ marks' = marks \ {e}
    /\ UNCHANGED <<tableVars, session, pc, requestVars, writes, done, admins, given>>

-----------------------------------------------------------------------------
Request(w, b) ==
    \/ \E n \in Names :
        \/ LoginRead(w, b, n) \/ LoginFindsNone(w, b, n)
        \/ \E grant \in Grants, isNew \in BOOLEAN : UpsertUser(w, b, n, grant, isNew)
    \/ \E act \in Markings, e \in Endpoints : ToggleLameduck(w, b, act, e)

WorkerStep(w) ==
    \/ LoginInsert(w) \/ LoginInsertFails(w) \/ LoginCommitFails(w) \/ LoginSetsSession(w)
    \/ InsertUser(w) \/ UpdateRead(w) \/ UpdateWrite(w) \/ SaveFails(w)
    \/ Mark(w) \/ MarkFails(w) \/ CreateLog(w) \/ CreateLogFails(w)

Next ==
    \/ \E w \in Workers : WorkerStep(w) \/ \E b \in Browsers : Request(w, b)
    \/ \E b \in Browsers : Logout(b)
    \/ \E e \in Endpoints : WebOffline(e) \/ WebOnline(e)

Spec == Init /\ [][Next]_vars

-----------------------------------------------------------------------------
(* Properties. *)

(* The values of every variable; a worker that saves or marks has what it  *)
(* needs for that.                                                         *)
TypeOK ==
    /\ users \in [Names -> Seq(Rows)]
    /\ logs \in [Operations -> Seq(Names \cup {System})]
    /\ marks \subseteq Endpoints
    /\ session \in [Browsers -> Users \cup {NoUser}]
    /\ pc \in [Workers -> {"idle", "insert", "session", "create", "update", "write",
                           "mark", "log"}]
    /\ browser \in [Workers -> Browsers \cup {NoBrowser}]
    /\ cur \in [Workers -> Users \cup {NoUser}]
    /\ want \in [Workers -> Users \cup {NoUser}]
    /\ found \in [Workers -> Versions]
    /\ what \in [Workers -> Markings]
    /\ endpoint \in [Workers -> Endpoints \cup {NoEndpoint}]
    /\ writes \in Nat
    /\ done \in [Operations -> Nat]
    /\ admins \subseteq Names
    /\ given \in [Names -> SUBSET Versions]
    /\ \A w \in Workers :
        /\ pc[w] # "idle" => cur[w] \in Users /\ browser[w] \in Browsers
        /\ pc[w] \in {"create", "update", "write"} => want[w] \in Users
        /\ pc[w] \in {"mark", "log"} => endpoint[w] \in Endpoints

-----------------------------------------------------------------------------
(* Rights. *)

(* A name has the right to save users: by one of its rows, which the next  *)
(* login copies, by a session, or in the hands of a worker.                *)
Strong(u) == "RoleAdmin" \in u.roles /\ ~u.disabled
Powerful(n) ==
    \/ \E i \in DOMAIN users[n] : Strong(users[n][i])
    \/ \E b \in Browsers : session[b] # NoUser /\ session[b].name = n /\ Strong(session[b])
    \/ \E w \in Workers : pc[w] # "idle" /\ cur[w].name = n /\ Strong(cur[w])

(* Somebody who has been disabled, or is no administrator, and whose       *)
(* sessions and requests are over, is out: whatever he does, logging in    *)
(* again included, he gets the right to save users only from someone else  *)
(* who has it.                                                             *)
PowerIsGiven ==
    [][\A n \in Names : ~Powerful(n) /\ Powerful(n)' =>
        \E w \in Workers :
            /\ pc[w] \in {"create", "write"}
            /\ want[w].name = n
            /\ cur[w].name # n
            /\ Powerful(cur[w].name)]_vars

-----------------------------------------------------------------------------
(* The log. *)

(* Whoever the log names was an administrator at some time before, however *)
(* old the session was that the operation came from; only the first login  *)
(* of a user is put down to the system.                                    *)
OperatorWasAdmin ==
    \A o \in Operations : \A i \in DOMAIN logs[o] :
        logs[o][i] \in admins \/ (logs[o][i] = System /\ o[1] = "insert")

(* How many saves count the version v up to x. *)
Saves(v, x) == IF v <= x THEN x - v ELSE x - v + 2 * (MaxInt32 + 1)

(* The log is true, if not complete.  The table of users can be told from  *)
(* it, duplicates of a first login included: each insert made a row, and   *)
(* no row counts more saves than there were, from a version it or another  *)
(* row of its name was inserted with (a request may insert any, and an     *)
(* int32 wraps); it may count fewer, as of two saves that start from one   *)
(* version the later one wins.  And it claims no lame duck operation that  *)
(* was not done in etcd, though one that was done may be missing: the      *)
(* error of CreateLog is ignored.                                          *)
LogIsTrue ==
    /\ \A n \in Names :
        /\ Len(users[n]) = Len(logs[<<"insert", n>>]) + (IF n \in FirstAdmins THEN 1 ELSE 0)
        /\ \A i \in DOMAIN users[n] : \E v \in given[n] :
                Saves(v, users[n][i].version) <= Len(logs[<<"update", n>>])
    /\ \A o \in Markings \X Endpoints : Len(logs[o]) <= done[o]
=============================================================================
