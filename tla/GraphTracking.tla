--------------------------- MODULE GraphTracking ---------------------------
(***************************************************************************)
(* The record of who calls whom: a key in etcd per callee and caller, set  *)
(* by the Resolve handler of the caller (rpc/server.go), refreshed from    *)
(* the set graphKeys while the caller is connected, and left to expire     *)
(* afterwards (hub/hub.go, TrackServiceGraph, UntrackServiceGraph,         *)
(* startGraphTracking).                                                    *)
(*                                                                         *)
(* Several processes of one service have the same caller name, hence the   *)
(* same keys.  Time is counted as in LoadReport.  In a behaviour that is    *)
(* not "late" no tick passes while somebody is writing to etcd or a        *)
(* refresh is due.                                                         *)
(***************************************************************************)
EXTENDS Integers, Sequences

CONSTANTS
    GraphKeys,    \* pairs of a callee and the name of a caller
    Streams,      \* Resolve calls; each one runs once
    KeysOf,       \* the keys of the specs a stream asks for, in order
    TTL,          \* life of a key in ticks, graphKeyTtl
    Interval,     \* ticks between two refreshes, graphKeyInterval
    MaxFailures   \* bound: writes etcd refuses in all

ASSUME KeyAssumption == KeysOf \in [Streams -> Seq(GraphKeys)]
ASSUME TimeAssumption ==
    /\ TTL \in Nat \ {0}
    /\ Interval \in Nat \ {0}
    /\ MaxFailures \in Nat
(* 24 hours against 2 in the code. *)
ASSUME LifeAssumption == TTL > (MaxFailures + 1) * Interval

(* How often TrackServiceGraph tries to write a key. *)
AttemptsTwo == 2  \* mutant
Attempts == 3

VARIABLES
    late,      \* whether writes and refreshes may take any time
    ttl,       \* per key, the ticks it has left in etcd; 0: there is none
    graphKeys, \* eh.graphKeys
    copy,      \* what the refresh loop still has to write in this round
    next,      \* ticks until the refresh loop's ticker fires
    pc,        \* per stream, where its handler is
    at,        \* per stream, the spec its loops are at
    tries,     \* per stream, failed attempts to write the key
    gone,      \* per stream, those that had ended when it began (history)
    failures   \* writes refused so far

loopVars == <<copy, next>>
streamVars == <<pc, at, tries, gone>>
vars == <<late, ttl, graphKeys, copy, next, pc, at, tries, gone, failures>>

Alive(k) == ttl[k] > 0
KeyAt(st) == KeysOf[st][at[st]]
Keys(st) == {KeysOf[st][i] : i \in 1..Len(KeysOf[st])}
More(st) == at[st] < Len(KeysOf[st])

Init ==
    /\ late \in BOOLEAN
    /\ ttl = [k \in GraphKeys |-> 0]
    /\ graphKeys = {}
    /\ copy = {}
    /\ next = Interval
    /\ pc = [st \in Streams |-> "idle"]
    /\ at = [st \in Streams |-> 1]
    /\ tries = [st \in Streams |-> 0]
    /\ gone = [st \in Streams |-> {}]
    /\ failures = 0

-----------------------------------------------------------------------------
(* Time. *)

LessByOne(n) == n - 1  \* mutant
Less(n) == IF n = 0 THEN 0 ELSE n - 1
Busy(st) == pc[st] \in {"track", "write", "untrack"}

Tick ==
    /\ late \/ (next > 0 /\ copy = {} /\ \A st \in Streams : ~Busy(st))
    /\ ttl' = [k \in GraphKeys |-> Less(ttl[k])]
    /\ next' = Less(next)
    /\ UNCHANGED <<late, graphKeys, copy, streamVars, failures>>

(* etcd Set with setGraphOpts. *)
Write(k) ==
    /\ ttl' = [ttl EXCEPT ![k] = TTL]
    /\ UNCHANGED failures

Refuse ==
    /\ failures < MaxFailures
    /\ failures' = failures + 1
    /\ UNCHANGED ttl

-----------------------------------------------------------------------------
(* Resolve. *)

GoTo(st, where) == pc' = [pc EXCEPT ![st] = where]

Resolve(st) ==
    /\ pc[st] = "idle"
    /\ GoTo(st, IF KeysOf[st] = <<>> THEN "ended" ELSE "track")
    /\ gone' = [gone EXCEPT ![st] = {other \in Streams : pc[other] = "ended"}]
    /\ UNCHANGED <<late, ttl, graphKeys, loopVars, at, tries, failures>>

AddedIfNew(k) == IF Alive(k) THEN graphKeys ELSE graphKeys \cup {k}  \* mutant
Added(k) == graphKeys \cup {k}

(* TrackServiceGraph adds the key under graphKeysLock ... *)
TrackAdd(st) ==
    /\ pc[st] = "track"
    /\ graphKeys' = Added(KeyAt(st))
    /\ GoTo(st, "write")
    /\ UNCHANGED <<late, ttl, loopVars, at, tries, gone, failures>>

(* Done with one spec: the next one, or on to AddObserver. *)
Tracked(st) ==
    /\ tries' = [tries EXCEPT ![st] = 0]
    /\ at' = [at EXCEPT ![st] = IF More(st) THEN @ + 1 ELSE 1]
    /\ GoTo(st, IF More(st) THEN "track" ELSE "observe")

(* ... and writes it to etcd without the lock. *)
TrackWrite(st) ==
    /\ pc[st] = "write"
    /\ Write(KeyAt(st))
    /\ Tracked(st)
    /\ UNCHANGED <<late, graphKeys, loopVars, gone>>

(* It gives up silently after the last attempt. *)
TrackRefused(st) ==
    /\ pc[st] = "write"
    /\ Refuse
    /\ IF tries[st] + 1 = Attempts
       THEN Tracked(st)
       ELSE /\ tries' = [tries EXCEPT ![st] = @ + 1]
            /\ UNCHANGED <<at, pc>>
    /\ UNCHANGED <<late, graphKeys, loopVars, gone>>

(* AddObserver fails, or the stream ends: the deferred loop runs. *)
Leave(st) ==
    /\ pc[st] = "observe"
    /\ GoTo(st, "untrack")
    /\ UNCHANGED <<late, ttl, graphKeys, loopVars, at, tries, gone, failures>>

RemainingAll(k) == graphKeys  \* mutant: the key is not deleted
Remaining(k) == graphKeys \ {k}

(* UntrackServiceGraph takes the key away, whoever else has added it. *)
Untrack(st) ==
    /\ pc[st] = "untrack"
    /\ graphKeys' = Remaining(KeyAt(st))
    /\ at' = [at EXCEPT ![st] = IF More(st) THEN @ + 1 ELSE 1]
    /\ GoTo(st, IF More(st) THEN "untrack" ELSE "ended")
    /\ UNCHANGED <<late, ttl, loopVars, tries, gone, failures>>

-----------------------------------------------------------------------------
(* startGraphTracking. *)

ClonedNone == {}  \* mutant: the clone stays empty
Cloned == graphKeys

(* A tick: the keys are copied under graphKeysLock.  The ticker keeps one  *)
(* tick for a loop that is late.                                           *)
RefreshStart ==
    /\ next = 0
    /\ copy = {}
    /\ copy' = Cloned
    /\ next' = Interval
    /\ UNCHANGED <<late, ttl, graphKeys, streamVars, failures>>

(* One key of the copy after the other is written, in any order; a write   *)
(* that is refused is not tried again in this round.                       *)
RefreshKey(k) ==
    /\ k \in copy
    /\ copy' = copy \ {k}
    /\ Write(k) \/ Refuse
    /\ UNCHANGED <<late, graphKeys, next, streamVars>>

-----------------------------------------------------------------------------
Handler(st) ==
    \/ TrackAdd(st)
    \/ TrackWrite(st)
    \/ TrackRefused(st)
    \/ Untrack(st)

Refresher == RefreshStart \/ \E k \in GraphKeys : RefreshKey(k)

Next ==
    \/ Tick
    \/ Refresher
    \/ \E st \in Streams : Resolve(st) \/ Leave(st) \/ Handler(st)

(* Time passes, whatever happens between two ticks, and goroutines run;    *)
(* nobody need call or hang up.                                            *)
Fairness ==
    /\ []<><<Tick>>_vars
    /\ WF_vars(Refresher)
    /\ \A st \in Streams : WF_vars(Handler(st))

Spec == Init /\ [][Next]_vars
FairSpec == Spec /\ Fairness

-----------------------------------------------------------------------------
(* The values of every variable; positions are within the request. *)
TypeOK ==
    /\ late \in BOOLEAN
    /\ ttl \in [GraphKeys -> 0..TTL]
    /\ graphKeys \subseteq GraphKeys
    /\ copy \subseteq GraphKeys
    /\ next \in 0..Interval
    /\ pc \in [Streams -> {"idle", "track", "write", "observe", "untrack", "ended"}]
    /\ at \in [Streams -> Nat]
    /\ \A st \in Streams :
            /\ Busy(st) => at[st] \in 1..Len(KeysOf[st])
            /\ ~Busy(st) => at[st] = 1
            /\ pc[st] = "observe" => KeysOf[st] # <<>>
    /\ tries \in [Streams -> 0..(Attempts - 1)]
    /\ gone \in [Streams -> SUBSET Streams]
    /\ failures \in 0..MaxFailures

(* A key in graphKeys whose first write is over is in etcd all the time:   *)
(* the attempts of TrackServiceGraph and the rounds of the refresh loop    *)
(* make up for writes that are refused.  Not if they come late.            *)
TrackedStaysAlive ==
    late \/ \A k \in graphKeys :
        (\A st \in Streams : pc[st] = "write" => KeyAt(st) # k) => Alive(k)

(* Whether a stream that is ending, or has ended since st began, untracks  *)
(* k as well.                                                              *)
UntrackedByNamesake(st, k) ==
    \E other \in Streams \ gone[st] :
        pc[other] \in {"untrack", "ended"} /\ k \in Keys(other)

(* The keys of a stream that is connected are tracked, unless another      *)
(* stream with the same caller and callee has ended meanwhile: then the    *)
(* key of a caller that is still connected is left to expire.              *)
TrackedUnlessNamesake ==
    \A st \in Streams : pc[st] = "observe" =>
        \A k \in Keys(st) : k \in graphKeys \/ UntrackedByNamesake(st, k)

(* A key that stays tracked is in etcd again and again, however late the   *)
(* loop and the handlers are.                                              *)
TrackedComesBack ==
    \A k \in GraphKeys : <>[](k \in graphKeys) => []<>Alive(k)

(* "With a reasonable TTL, the obsolete dependencies will vanish           *)
(* eventually" (docs/service-dependency-graph.md), though a round of the   *)
(* loop may write a key that has been untracked since the copy.            *)
ObsoleteVanishes ==
    \A k \in GraphKeys :
        <>[](\A st \in Streams : k \in Keys(st) => pc[st] = "ended") => <>[]~Alive(k)
=============================================================================
