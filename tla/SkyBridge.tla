------------------------------ MODULE SkyBridge ------------------------------
(***************************************************************************)
(* SkyBridge (cmd/skybridge/bridge.go): it copies the keys of services     *)
(* from the etcd of a Kubernetes master to the etcd of SkyLB, then follows *)
(* the changes of the former one event after the other.                    *)
(***************************************************************************)
EXTENDS Integers, Sequences

CONSTANTS
    Keys,         \* keys of endpoints
    MaxVersion,   \* bound: changes of a key
    MaxEvents     \* bound: events a watcher has not read; a change beyond it
                  \* has to wait

ASSUME BoundAssumption == MaxVersion \in Nat /\ MaxEvents \in Nat

(* What an etcd has at a key.  The version counts the changes of the key   *)
(* in the first etcd, deletions too; it tells values apart.                *)
Contents == [ver : 0..MaxVersion, there : BOOLEAN]
Absent(v) == [ver |-> v, there |-> FALSE]
Change == [key : Keys, put : Contents]

VARIABLES
    from,    \* per key, what the etcd of Kubernetes has
    to,      \* per key, what the etcd of SkyLB has
    pc,      \* where startBridge is
    todo,    \* what initialCopy has still to copy: the keys ...
    read,    \* ... and the contents it has read
    events,  \* what the watcher has not read yet
    missed   \* keys whose last change did not or will not get through (history)

vars == <<from, to, pc, todo, read, events, missed>>

Init ==
    /\ from \in [Keys -> {Absent(0), [ver |-> 0, there |-> TRUE]}]
    /\ to = [k \in Keys |-> Absent(0)]
    /\ pc = "connect"
    /\ todo = {}
    /\ read = from
    /\ events = <<>>
    /\ missed = {}

-----------------------------------------------------------------------------
(* The etcd of Kubernetes. *)

(* A change raises an event for a watcher that waits, which writes `put`;  *)
(* one that comes before the watcher's first request, and after the keys   *)
(* were read, goes unseen.                                                 *)
Changed(k, new, put) ==
    /\ from' = [from EXCEPT ![k] = new]
    /\ IF pc = "watch"
       THEN /\ Len(events) < MaxEvents
            /\ events' = Append(events, [key |-> k, put |-> put])
            /\ missed' = IF put = new THEN missed \ {k} ELSE missed \cup {k}
       ELSE /\ events' = events
            /\ missed' = IF pc \in {"copy", "copied"} THEN missed \cup {k} ELSE missed
    /\ UNCHANGED <<to, pc, todo, read>>

(* Actions create, set and compareAndSwap. *)
SetFrom(k) ==
    LET new == [ver |-> from[k].ver + 1, there |-> TRUE]
    IN  /\ from[k].ver < MaxVersion
        /\ Changed(k, new, new)

(* Actions delete and expire. *)
DeleteFrom(k) ==
    LET new == Absent(from[k].ver + 1)
    IN  /\ from[k].there
        /\ from[k].ver < MaxVersion
        /\ Changed(k, new, new)

(* Action compareAndDelete: watchChanges treats it like a set, and writes  *)
(* the node of the event, which has the key and an empty value.            *)
CompareAndDelete(k) ==
    /\ from[k].there
    /\ from[k].ver < MaxVersion
    /\ Changed(k, Absent(from[k].ver + 1), [ver |-> from[k].ver + 1, there |-> TRUE])

-----------------------------------------------------------------------------
(* The bridge. *)

(* setKey and deleteKey; an error is logged and the key stays as it is. *)
Put(k, new) == to' = [to EXCEPT ![k] = new]

(* The keys of etcd are read.  Those SkyLB's etcd has and this one has not *)
(* are not looked for: they stay.  When the read fails, startBridge tries   *)
(* it again.                                                                *)
Load ==
    /\ pc = "connect"
    /\ read' = from
    /\ todo' = {k \in Keys : from[k].there}
    /\ missed' = {k \in Keys : ~from[k].there /\ to[k].there}
    /\ pc' = "copy"
    /\ UNCHANGED <<from, to, events>>

(* walkNodes calls setKey for one key after the other. *)
CopyKey(k) ==
    /\ pc = "copy"
    /\ k \in todo
    /\ todo' = todo \ {k}
    /\ Put(k, read[k])
    /\ UNCHANGED <<from, pc, read, events, missed>>

CopyError(k) ==
    /\ pc = "copy"
    /\ k \in todo
    /\ todo' = todo \ {k}
    /\ missed' = missed \cup {k}
    /\ UNCHANGED <<from, to, pc, read, events>>

CopyDone ==
    /\ pc = "copy"
    /\ todo = {}
    /\ pc' = "copied"
    /\ UNCHANGED <<from, to, todo, read, events, missed>>

(* The first w.Next of watchChanges reaches etcd. *)
StartWatch ==
    /\ pc = "copied"
    /\ pc' = "watch"
    /\ UNCHANGED <<from, to, todo, read, events, missed>>

PutSetOnly(k, new) ==  \* mutant: no case for deletions
    to' = [to EXCEPT ![k] = IF new.there THEN new ELSE @]
PutChange(k, new) == Put(k, new)

(* watchChanges: an event is applied ... *)
Follow ==
    LET e == Head(events)
    IN  /\ pc = "watch"
        /\ events # <<>>
        /\ events' = Tail(events)
        /\ PutChange(e.key, e.put)
        /\ UNCHANGED <<from, pc, todo, read, missed>>

(* ... or could not be: only the next change of the key makes up for it.   *)
FollowError ==
    LET e == Head(events)
        again == \E i \in 2..Len(events) : events[i].key = e.key
    IN  /\ pc = "watch"
        /\ events # <<>>
        /\ events' = Tail(events)
        /\ missed' = IF again THEN missed ELSE missed \cup {e.key}
        /\ UNCHANGED <<from, to, pc, todo, read>>

KeptEvents == events  \* mutant: the new watcher starts where the old one was
NoEvents == <<>>

(* The watch fails, or the program dies anywhere: connect and copy again.  *)
StartAgain ==
    /\ pc # "connect"
    /\ pc' = "connect"
    /\ todo' = {}
    /\ events' = NoEvents
    /\ UNCHANGED <<from, to, read, missed>>

-----------------------------------------------------------------------------
Kubernetes == \E k \in Keys : SetFrom(k) \/ DeleteFrom(k) \/ CompareAndDelete(k)

Copy == CopyDone \/ StartWatch \/ \E k \in Keys : CopyKey(k) \/ CopyError(k)

Next ==
    \/ Kubernetes
    \/ Load
    \/ Copy
    \/ Follow
    \/ FollowError
    \/ StartAgain

(* The bridge runs, and a request that was sent comes back. *)
Fairness ==
    /\ WF_vars(Load)
    /\ WF_vars(Copy)
    /\ WF_vars(Follow \/ FollowError)

Spec == Init /\ [][Next]_vars
FairSpec == Spec /\ Fairness

-----------------------------------------------------------------------------
(* Properties. *)

(* Two etcds have the same at a key, or neither has it. *)
Agree(c, d) == c.there = d.there /\ (c.there => c.ver = d.ver)

(* What SkyLB's etcd will have at a key when all that has been read and    *)
(* all that is waiting has been written.                                   *)
Pending(k) == {i \in DOMAIN events : events[i].key = k}
Newest(k) == CHOOSE i \in Pending(k) : \A j \in Pending(k) : j <= i
Foreseen(k) ==
    IF Pending(k) # {} THEN events[Newest(k)].put
    ELSE IF k \in todo THEN read[k]
    ELSE to[k]

(* The copy and the events leave no gap but those marked as missed: a      *)
(* change between the read and the first w.Next, a write that failed, a    *)
(* key that was deleted while the bridge was not connected, and one that   *)
(* went by compareAndDelete.  They are what "TO etcd might be out sync     *)
(* with FROM etcd" (setKey) warns of, and more.                            *)
NoOtherGap ==
    pc # "connect" => \A k \in Keys \ missed : Agree(Foreseen(k), from[k])

(* SkyLB's etcd never gets an older value of a key than it has, whatever   *)
(* copies and events follow each other.                                    *)
NeverGoesBack == [][\A k \in Keys : to[k].ver <= to'[k].ver]_vars

(* A bridge that stays connected brings each key that was not missed up to *)
(* date.                                                                   *)
CatchesUp ==
    \A k \in Keys :
        <>[](pc = "watch" /\ k \notin missed) => <>[]Agree(to[k], from[k])
=============================================================================
