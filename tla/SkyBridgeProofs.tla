--------------------------- MODULE SkyBridgeProofs ---------------------------
(***************************************************************************)
(* Theorems about SkyBridge, for any keys, numbers of changes and waiting  *)
(* events.                                                                 *)
(***************************************************************************)
EXTENDS SkyBridge, SequenceTheorems, TLAPS

-----------------------------------------------------------------------------
(* Types. *)

(* The values of every variable; only the watcher has events, and only the *)
(* initial copy has keys to do.                                            *)
TypeOK ==
  /\ from \in [Keys -> Contents]
  /\ to \in [Keys -> Contents]
  /\ pc \in {"connect", "copy", "copied", "watch"}
  /\ todo \subseteq Keys
  /\ read \in [Keys -> Contents]
  /\ events \in Seq(Change)
  /\ missed \subseteq Keys
  /\ pc # "watch" => events = <<>>
  /\ pc # "copy" => todo = {}

LEMMA AbsentType == ASSUME NEW v \in 0..MaxVersion PROVE Absent(v) \in Contents
  BY DEF Absent, Contents

LEMMA TypeInit == Init => TypeOK
<1> SUFFICES ASSUME Init PROVE TypeOK
  OBVIOUS
<1>1. 0 \in 0..MaxVersion
  BY BoundAssumption
<1>2. Absent(0) \in Contents /\ [ver |-> 0, there |-> TRUE] \in Contents
  BY <1>1, AbsentType DEF Contents
<1>3. {Absent(0), [ver |-> 0, there |-> TRUE]} \subseteq Contents
  BY <1>2
<1>4. from \in [Keys -> Contents]
  BY <1>3 DEF Init
<1>5. to \in [Keys -> Contents]
  BY <1>2 DEF Init
<1> QED  BY <1>4, <1>5 DEF Init, TypeOK

LEMMA ChangedType ==
  ASSUME TypeOK, NEW k \in Keys, NEW new \in Contents, NEW put \in Contents, Changed(k, new, put)
  PROVE  TypeOK'
<1>1. [key |-> k, put |-> put] \in Change
  BY DEF Change
<1>2. events' \in Seq(Change) /\ (pc # "watch" => events' = events)
  BY <1>1 DEF Changed, TypeOK
<1>3. missed' \subseteq Keys
  BY DEF Changed, TypeOK
<1>4. from' \in [Keys -> Contents] /\ UNCHANGED <<to, pc, todo, read>>
  BY DEF Changed, TypeOK
<1> QED  BY <1>2, <1>3, <1>4 DEF TypeOK

(* A change in Kubernetes counts the version of its key up; what is put    *)
(* into the event has that version too.                                    *)
LEMMA KubernetesChanges ==
  ASSUME TypeOK, Kubernetes
  PROVE  \E k \in Keys, new, put \in Contents :
            /\ Changed(k, new, put)
            /\ new.ver = from[k].ver + 1
            /\ put.ver = from[k].ver + 1
<1>1. PICK k \in Keys : SetFrom(k) \/ DeleteFrom(k) \/ CompareAndDelete(k)
  BY DEF Kubernetes
<1>2. from[k].ver + 1 \in 0..MaxVersion
  BY <1>1, BoundAssumption DEF SetFrom, DeleteFrom, CompareAndDelete, TypeOK, Contents
<1> DEFINE set == [ver |-> from[k].ver + 1, there |-> TRUE]
           gone == Absent(from[k].ver + 1)
<1>3. /\ set \in Contents /\ set.ver = from[k].ver + 1
      /\ gone \in Contents /\ gone.ver = from[k].ver + 1
  BY <1>2 DEF Contents, Absent
<1>4. Changed(k, set, set) \/ Changed(k, gone, gone) \/ Changed(k, gone, set)
  BY <1>1 DEF SetFrom, DeleteFrom, CompareAndDelete
<1> QED  BY <1>3, <1>4

LEMMA HeadType ==
  ASSUME TypeOK, events # <<>>
  PROVE  /\ Head(events) = events[1]
         /\ events[1] \in Change
         /\ Tail(events) \in Seq(Change)
         /\ Len(Tail(events)) = Len(events) - 1
         /\ Len(events) \in Nat \ {0}
         /\ \A i \in 1..(Len(events) - 1) : Tail(events)[i] = events[i + 1]
<1>1. events \in Seq(Change)
  BY DEF TypeOK
<1> QED  BY <1>1

LEMMA TypeStep == TypeOK /\ [Next]_vars => TypeOK'
<1> SUFFICES ASSUME TypeOK, [Next]_vars PROVE TypeOK'
  OBVIOUS
<1>1. CASE Kubernetes
  BY <1>1, KubernetesChanges, ChangedType
<1>2. CASE Load
  BY <1>2 DEF Load, TypeOK
<1>3. CASE Copy
  BY <1>3 DEF Copy, CopyDone, StartWatch, CopyKey, CopyError, Put, TypeOK
<1>4. CASE Follow
  <2>1. events # <<>> /\ pc = "watch" /\ events' = Tail(events)
        /\ to' = [to EXCEPT ![Head(events).key] = Head(events).put]
        /\ UNCHANGED <<from, pc, todo, read, missed>>
    BY <1>4 DEF Follow, PutChange, Put
  <2>2. Head(events).put \in Contents
    BY <2>1, HeadType DEF Change
  <2>3. to' \in [Keys -> Contents]
    BY <2>1, <2>2 DEF TypeOK
  <2> QED  BY <2>1, <2>3, HeadType DEF TypeOK
<1>5. CASE FollowError
  <2>1. events # <<>> /\ pc = "watch" /\ events' = Tail(events)
        /\ (missed' = missed \/ missed' = missed \cup {Head(events).key})
        /\ UNCHANGED <<from, to, pc, todo, read>>
    BY <1>5 DEF FollowError
  <2>2. Head(events).key \in Keys
    BY <2>1, HeadType DEF Change
  <2> QED  BY <2>1, <2>2, HeadType DEF TypeOK
<1>6. CASE StartAgain
  BY <1>6 DEF StartAgain, NoEvents, TypeOK
<1>7. CASE UNCHANGED vars
  BY <1>7 DEF vars, TypeOK
<1> QED  BY <1>1, <1>2, <1>3, <1>4, <1>5, <1>6, <1>7 DEF Next

(* Every variable keeps its type, through failures and new starts.         *)
THEOREM TypeCorrect == Spec => []TypeOK
  BY TypeInit, TypeStep, PTL DEF Spec

-----------------------------------------------------------------------------
(* The events that wait. *)

(* The positions of events are shown one step on: an event joins at the    *)
(* end, or the first one leaves and the others move up.                    *)
LEMMA PendingType ==
  ASSUME TypeOK, NEW k, NEW i \in Pending(k)
  PROVE  i \in 1..Len(events) /\ i \in Int /\ events[i].key = k /\ events[i] \in Change
<1>1. events \in Seq(Change)
  BY DEF TypeOK
<1> QED  BY <1>1 DEF Pending

LEMMA EventJoins ==
  ASSUME TypeOK, NEW e \in Change, events' = Append(events, e)
  PROVE  /\ Len(events) + 1 \in Nat
         /\ events'[Len(events) + 1] = e
         /\ \A i \in 1..Len(events) : events'[i] = events[i]
         /\ \A k : Pending(k)' = Pending(k) \cup (IF k = e.key THEN {Len(events) + 1} ELSE {})
<1>1. events \in Seq(Change)
  BY DEF TypeOK
<1>2. /\ Len(events) \in Nat
      /\ DOMAIN events = 1..Len(events)
      /\ DOMAIN events' = 1..(Len(events) + 1)
      /\ events'[Len(events) + 1] = e
      /\ \A i \in 1..Len(events) : events'[i] = events[i]
  BY <1>1
<1> QED  BY <1>2 DEF Pending

LEMMA EventLeaves ==
  ASSUME TypeOK, events # <<>>, events' = Tail(events), NEW k
  PROVE  /\ 1 \in Pending(k) <=> events[1].key = k
         /\ \A i \in Pending(k) : i # 1 => i - 1 \in Pending(k)'
         /\ \A i \in Pending(k)' : i + 1 \in Pending(k) /\ i \in Int /\ i >= 1 /\ events'[i] = events[i + 1]
<1>1. events \in Seq(Change) /\ events' \in Seq(Change)
  BY HeadType DEF TypeOK
<1>2. DOMAIN events = 1..Len(events) /\ DOMAIN events' = 1..(Len(events) - 1)
  BY <1>1, HeadType
<1> QED  BY <1>2, HeadType DEF Pending

(* The newest of the events of a key.  There is one: Newest is well        *)
(* defined.                                                                *)
IsNewest(k, i) == i \in Pending(k) /\ \A j \in Pending(k) : j <= i
HasNewest == \A k \in Keys : Pending(k) # {} => \E i \in Pending(k) : IsNewest(k, i)

LEMMA NewestOf ==
  ASSUME TypeOK, NEW k, NEW i, IsNewest(k, i)
  PROVE  Newest(k) = i
<1>1. \A j \in Pending(k) : (\A h \in Pending(k) : h <= j) => j = i
  BY PendingType DEF IsNewest
<1> QED  BY <1>1 DEF Newest, IsNewest

LEMMA NewestJoins ==
  ASSUME TypeOK, NEW e \in Change, events' = Append(events, e), NEW n, n = Len(events) + 1
  PROVE  IsNewest(e.key, n)' /\ events'[n] = e
<1>1. \A i \in Pending(e.key) : i <= Len(events) /\ i \in Int
  BY PendingType
<1>2. Len(events) \in Nat /\ Pending(e.key)' = Pending(e.key) \cup {n} /\ events'[n] = e
  BY EventJoins DEF TypeOK
<1>3. \A j \in Pending(e.key)' : j <= n
  BY <1>1, <1>2
<1> QED  BY <1>2, <1>3 DEF IsNewest

LEMMA NewestStays ==
  ASSUME TypeOK, NEW e \in Change, events' = Append(events, e), NEW k, k # e.key
  PROVE  /\ Pending(k)' = Pending(k)
         /\ \A i \in Pending(k) : events'[i] = events[i]
<1>1. Pending(k)' = Pending(k)
  BY EventJoins
<1> QED  BY <1>1, EventJoins, PendingType

LEMMA NewestLeaves ==
  ASSUME TypeOK, events # <<>>, events' = Tail(events), NEW k, NEW i, IsNewest(k, i)
  PROVE  IF i = 1 THEN Pending(k)' = {} /\ events[1].key = k
                  ELSE IsNewest(k, i - 1)' /\ events'[i - 1] = events[i]
<1>1. i \in Int /\ \A j \in Pending(k)' : j + 1 <= i /\ j \in Int /\ j >= 1
  BY EventLeaves, PendingType DEF IsNewest
<1>2. CASE i = 1
  <2>1. Pending(k)' = {}
    BY <1>1, <1>2
  <2> QED  BY <1>2, <2>1, EventLeaves DEF IsNewest
<1>3. CASE i # 1
  <2>1. i - 1 \in Pending(k)'
    BY <1>3, EventLeaves DEF IsNewest
  <2>2. \A j \in Pending(k)' : j <= i - 1
    BY <1>1
  <2>3. events'[i - 1] = events[i]
    <3>1. events'[i - 1] = events[(i - 1) + 1]
      BY <2>1, EventLeaves
    <3>2. (i - 1) + 1 = i
      BY <1>1
    <3> QED  BY <3>1, <3>2
  <2> QED  BY <1>3, <2>1, <2>2, <2>3 DEF IsNewest
<1> QED  BY <1>2, <1>3

LEMMA NewestStep == TypeOK /\ HasNewest /\ [Next]_vars => HasNewest'
<1> SUFFICES ASSUME TypeOK, HasNewest, [Next]_vars, NEW k \in Keys, Pending(k)' # {}
             PROVE  \E i \in Pending(k)' : IsNewest(k, i)'
  BY DEF HasNewest
<1>1. CASE events' = events
  BY <1>1 DEF HasNewest, IsNewest, Pending
<1>2. CASE events' = <<>>
  BY <1>2 DEF Pending
<1>3. ASSUME NEW e \in Change, events' = Append(events, e)
      PROVE  \E i \in Pending(k)' : IsNewest(k, i)'
  <2>1. PICK n \in Nat : n = Len(events) + 1
    BY <1>3, EventJoins
  <2>2. CASE k = e.key
    BY <1>3, <2>1, <2>2, NewestJoins DEF IsNewest
  <2>3. CASE k # e.key
    <3>1. Pending(k)' = Pending(k)
      BY <1>3, <2>3, NewestStays
    <3> QED  BY <3>1 DEF HasNewest, IsNewest
  <2> QED  BY <2>2, <2>3
<1>4. CASE events # <<>> /\ events' = Tail(events)
  <2>1. PICK i \in Pending(k) : IsNewest(k, i)
    BY <1>4, EventLeaves DEF HasNewest
  <2> QED  BY <1>4, <2>1, NewestLeaves DEF IsNewest
<1>5. CASE Kubernetes
  <2>1. PICK c \in Keys, new \in Contents, put \in Contents : Changed(c, new, put)
    BY <1>5, KubernetesChanges
  <2>2. [key |-> c, put |-> put] \in Change
    BY DEF Change
  <2> QED  BY <1>1, <1>3, <2>1, <2>2 DEF Changed
<1> QED  BY <1>1, <1>2, <1>4, <1>5 DEF Next, Load, Copy, CopyDone, StartWatch, CopyKey, CopyError, Follow,
            FollowError, StartAgain, NoEvents, vars

LEMMA NewestInit == Init => HasNewest
  BY DEF Init, HasNewest, Pending

-----------------------------------------------------------------------------
(* No gap but the marked ones. *)

ForeseenIsNewest == \A k, i : IsNewest(k, i) => Foreseen(k) = events[i].put

LEMMA ForeseenNewest == TypeOK => ForeseenIsNewest
<1> SUFFICES ASSUME TypeOK, NEW k, NEW i, IsNewest(k, i) PROVE Foreseen(k) = events[i].put
  BY DEF ForeseenIsNewest
<1>1. Newest(k) = i /\ Pending(k) # {}
  BY NewestOf DEF IsNewest
<1> QED  BY <1>1 DEF Foreseen

LEMMA ForeseenWritten ==
  \A k : Pending(k) = {} => Foreseen(k) = IF k \in todo THEN read[k] ELSE to[k]
  BY DEF Foreseen

(* What is foreseen for a key when the first event leaves: the same, when  *)
(* it was not the newest of the key.                                       *)
LEMMA ForeseenLeaves ==
  ASSUME TypeOK, TypeOK', HasNewest, pc = "watch", events # <<>>, events' = Tail(events),
         UNCHANGED <<todo, read>>, NEW k \in Keys
  PROVE  \/ Foreseen(k)' = Foreseen(k)
         \/ /\ IsNewest(k, 1)
            /\ events[1].key = k
            /\ Foreseen(k) = events[1].put
            /\ Foreseen(k)' = to'[k]
         \/ /\ Foreseen(k) = to[k]
            /\ Foreseen(k)' = to'[k]
            /\ events[1].key # k
<1>1. todo = {} /\ todo' = {}
  BY DEF TypeOK
<1>2. ForeseenIsNewest'
  BY ForeseenNewest, PTL
<1>3. (\A c : Pending(c) = {} => Foreseen(c) = IF c \in todo THEN read[c] ELSE to[c])'
  BY DEF Foreseen
<1>4. CASE Pending(k) = {}
  <2>1. Pending(k)' = {}
    BY <1>4, EventLeaves
  <2>2. events[1].key # k
    BY <1>4, EventLeaves
  <2> QED  BY <1>1, <1>3, <1>4, <2>1, <2>2, ForeseenWritten
<1>5. CASE Pending(k) # {}
  <2>1. PICK i : IsNewest(k, i)
    BY <1>5 DEF HasNewest
  <2>2. Foreseen(k) = events[i].put
    BY <2>1, ForeseenNewest DEF ForeseenIsNewest
  <2>3. CASE i = 1
    <3>1. Pending(k)' = {} /\ events[1].key = k
      BY <2>1, <2>3, NewestLeaves
    <3>2. Foreseen(k)' = to'[k]
      BY <3>1, <1>1, <1>3
    <3> QED  BY <2>1, <2>2, <2>3, <3>1, <3>2
  <2>4. CASE i # 1
    <3>1. PICK j : j = i - 1
      OBVIOUS
    <3>2. IsNewest(k, j)' /\ events'[j] = events[i]
      BY <2>1, <2>4, <3>1, NewestLeaves
    <3>3. Foreseen(k)' = events'[j].put
      BY <3>2, <1>2 DEF ForeseenIsNewest
    <3> QED  BY <2>2, <3>2, <3>3
  <2> QED  BY <2>3, <2>4
<1> QED  BY <1>4, <1>5

(* A change in Kubernetes: the watcher gets an event of it, or the key is  *)
(* marked.                                                                 *)
LEMMA GapKubernetes ==
  ASSUME TypeOK, TypeOK', HasNewest, NoOtherGap, NEW c \in Keys, NEW new \in Contents,
         NEW put \in Contents, Changed(c, new, put)
  PROVE  NoOtherGap'
<1> SUFFICES ASSUME pc' # "connect", NEW k \in Keys, k \notin missed'
             PROVE  Agree(Foreseen(k)', from'[k])
  BY DEF NoOtherGap, Agree
<1>1. /\ UNCHANGED <<to, pc, todo, read>>
      /\ from' = [from EXCEPT ![c] = new]
      /\ pc \in {"copy", "copied", "watch"}
  BY DEF Changed, TypeOK
<1>2. ForeseenIsNewest'
  BY ForeseenNewest, PTL
<1>3. CASE pc = "watch"
  <2>1. [key |-> c, put |-> put] \in Change
    BY DEF Change
  <2>2. PICK e \in Change : e = [key |-> c, put |-> put]
    BY <2>1
  <2>3. e.key = c /\ e.put = put
    BY <2>2
  <2>4. /\ events' = Append(events, e)
        /\ missed' = IF put = new THEN missed \ {c} ELSE missed \cup {c}
    BY <1>3, <2>2 DEF Changed
  <2>5. PICK n \in Nat : n = Len(events) + 1
    BY <2>4, <2>1, EventJoins
  <2>6. CASE k = c
    <3>1. IsNewest(k, n)' /\ events'[n] = e
      BY <2>3, <2>4, <2>5, <2>6, NewestJoins
    <3>2. Foreseen(k)' = put
      BY <3>1, <2>3, <1>2 DEF ForeseenIsNewest
    <3>3. put = new
      BY <2>4, <2>6
    <3>4. from'[k] = new
      BY <1>1, <2>6 DEF TypeOK
    <3> QED  BY <3>2, <3>3, <3>4 DEF Agree
  <2>7. CASE k # c
    <3>1. /\ Pending(k)' = Pending(k)
          /\ \A i \in Pending(k) : events'[i] = events[i]
      BY <2>3, <2>4, <2>7, NewestStays
    <3>2. Foreseen(k)' = Foreseen(k)
      <4>1. CASE Pending(k) = {}
        <5>1. (\A d : Pending(d) = {} => Foreseen(d) = IF d \in todo THEN read[d] ELSE to[d])'
          BY DEF Foreseen
        <5> QED  BY <1>1, <3>1, <4>1, <5>1, ForeseenWritten
      <4>2. CASE Pending(k) # {}
        <5>1. PICK i : IsNewest(k, i)
          BY <4>2 DEF HasNewest
        <5>2. IsNewest(k, i)' /\ events'[i] = events[i]
          BY <3>1, <5>1 DEF IsNewest
        <5> QED  BY <1>2, <5>1, <5>2, ForeseenNewest DEF ForeseenIsNewest
      <4> QED  BY <4>1, <4>2
    <3>3. k \notin missed /\ from'[k] = from[k]
      BY <1>1, <2>4, <2>7 DEF TypeOK
    <3> QED  BY <1>1, <3>2, <3>3 DEF NoOtherGap
  <2> QED  BY <2>6, <2>7
<1>4. CASE pc # "watch"
  <2>1. events' = events /\ missed' = missed \cup {c}
    BY <1>1, <1>4 DEF Changed
  <2>2. k # c /\ k \notin missed /\ from'[k] = from[k]
    BY <1>1, <2>1 DEF TypeOK
  <2>3. Foreseen(k)' = Foreseen(k)
    BY <1>1, <2>1 DEF Foreseen, Newest, Pending
  <2> QED  BY <1>1, <2>2, <2>3 DEF NoOtherGap
<1> QED  BY <1>3, <1>4

LEMMA GapStep == TypeOK /\ TypeOK' /\ HasNewest /\ NoOtherGap /\ [Next]_vars => NoOtherGap'
<1> SUFFICES ASSUME TypeOK, TypeOK', HasNewest, NoOtherGap, [Next]_vars
             PROVE  NoOtherGap'
  OBVIOUS
<1>1. CASE Kubernetes
  BY <1>1, KubernetesChanges, GapKubernetes
<1> SUFFICES ASSUME pc' # "connect", NEW k \in Keys, k \notin missed', ~Kubernetes
             PROVE  Agree(Foreseen(k)', from'[k])
  BY <1>1 DEF NoOtherGap, Agree
<1>2. (\A c : Pending(c) = {} => Foreseen(c) = IF c \in todo THEN read[c] ELSE to[c])'
  BY DEF Foreseen
<1>3. pc # "watch" => Pending(k) = {}
  BY DEF TypeOK, Pending
<1>4. CASE Load
  <2>1. /\ read' = from /\ from' = from /\ to' = to
        /\ (k \in todo' <=> from[k].there)
        /\ (from[k].there \/ ~to[k].there)
        /\ Pending(k)' = {}
    BY <1>3, <1>4 DEF Load, Pending
  <2>2. Foreseen(k)' = IF k \in todo' THEN read'[k] ELSE to'[k]
    BY <1>2, <2>1
  <2>3. CASE from[k].there
    BY <2>1, <2>2, <2>3 DEF Agree
  <2>4. CASE ~from[k].there
    <3>1. from[k].there = FALSE /\ to[k].there = FALSE
      BY <2>1, <2>4 DEF TypeOK, Contents
    <3> QED  BY <2>1, <2>2, <2>4, <3>1 DEF Agree
  <2> QED  BY <2>3, <2>4
<1>5. CASE Copy
  <2>1. /\ events' = events /\ from' = from /\ read' = read /\ pc # "connect"
        /\ Pending(k) = {} /\ Pending(k)' = {}
    BY <1>3, <1>5 DEF Copy, CopyDone, StartWatch, CopyKey, CopyError, Pending
  <2>2. k \notin missed /\ Foreseen(k)' = Foreseen(k)
    <3>1. ASSUME NEW c \in Keys, CopyKey(c) PROVE k \notin missed /\ Foreseen(k)' = Foreseen(k)
      BY <1>2, <2>1, <3>1, ForeseenWritten DEF CopyKey, Put, TypeOK
    <3>2. ASSUME NEW c \in Keys, CopyError(c) PROVE k \notin missed /\ Foreseen(k)' = Foreseen(k)
      BY <1>2, <2>1, <3>2, ForeseenWritten DEF CopyError
    <3>3. CASE CopyDone \/ StartWatch
      BY <1>2, <2>1, <3>3, ForeseenWritten DEF CopyDone, StartWatch
    <3> QED  BY <1>5, <3>1, <3>2, <3>3 DEF Copy
  <2> QED  BY <2>1, <2>2 DEF NoOtherGap
<1>6. CASE Follow
  <2>1. /\ pc = "watch" /\ events # <<>> /\ events' = Tail(events)
        /\ to' = [to EXCEPT ![events[1].key] = events[1].put]
        /\ UNCHANGED <<from, todo, read, missed>>
    BY <1>6, HeadType DEF Follow, PutChange, Put
  <2>2. events[1].key = k => to'[k] = events[1].put
    BY <2>1 DEF TypeOK
  <2>3. events[1].key # k => to'[k] = to[k]
    BY <2>1, HeadType DEF TypeOK
  <2>4. Foreseen(k)' = Foreseen(k)
    BY <2>1, <2>2, <2>3, ForeseenLeaves
  <2> QED  BY <2>1, <2>4 DEF NoOtherGap
<1>7. CASE FollowError
  <2>1. /\ pc = "watch" /\ events # <<>> /\ events' = Tail(events)
        /\ UNCHANGED <<from, to, todo, read>>
        /\ missed' = IF \E i \in 2..Len(events) : events[i].key = events[1].key
                     THEN missed ELSE missed \cup {events[1].key}
    BY <1>7, HeadType DEF FollowError
  <2>2. k \notin missed
    BY <2>1
  <2>3. ~(IsNewest(k, 1) /\ events[1].key = k)
    <3>1. SUFFICES ASSUME IsNewest(k, 1), events[1].key = k PROVE FALSE
      OBVIOUS
    <3>2. PICK i \in 2..Len(events) : events[i].key = k
      BY <2>1, <3>1
    <3>3. i \in Pending(k)
      BY <3>2 DEF Pending, TypeOK
    <3> QED  BY <3>1, <3>2, <3>3 DEF IsNewest
  <2>4. Foreseen(k)' = Foreseen(k)
    BY <2>1, <2>3, ForeseenLeaves
  <2> QED  BY <2>1, <2>2, <2>4 DEF NoOtherGap
<1>8. CASE StartAgain
  BY <1>8 DEF StartAgain
<1>9. CASE UNCHANGED vars
  BY <1>9 DEF vars, NoOtherGap, Foreseen, Newest, Pending
<1> QED  BY <1>4, <1>5, <1>6, <1>7, <1>8, <1>9 DEF Next

(* For any keys and any number of changes, failed writes and new starts:   *)
(* what SkyLB's etcd has, or will have once the keys read by               *)
(* initialCopy and the events watchChanges has not got to are written, is  *)
(* what the etcd of Kubernetes has, except for the keys that are marked.   *)
THEOREM OnlyMarkedGaps == Spec => []NoOtherGap
<1>1. Init => NoOtherGap
  BY DEF Init, NoOtherGap
<1> QED  BY <1>1, TypeInit, TypeStep, NewestInit, NewestStep, GapStep, PTL DEF Spec

-----------------------------------------------------------------------------
(* Versions only rise. *)

(* On its way from one etcd to the other a key's value meets older ones    *)
(* ahead of it and newer ones behind.                                      *)
VersionsRise ==
  \A k \in Keys :
    /\ to[k].ver <= from[k].ver
    /\ k \in todo => (to[k].ver <= read[k].ver /\ read[k].ver <= from[k].ver)
    /\ \A i \in Pending(k) :
          to[k].ver <= events[i].put.ver /\ events[i].put.ver <= from[k].ver
    /\ \A i, j \in Pending(k) : i < j => events[i].put.ver <= events[j].put.ver

LEMMA VersionType ==
  ASSUME TypeOK
  PROVE  /\ \A k \in Keys : to[k].ver \in Int /\ from[k].ver \in Int /\ read[k].ver \in Int
         /\ \A k, i : i \in Pending(k) => events[i].put.ver \in Int
<1>1. 0..MaxVersion \subseteq Int
  BY BoundAssumption
<1> QED  BY <1>1, PendingType DEF TypeOK, Contents, Change

LEMMA RiseKubernetes ==
  ASSUME TypeOK, VersionsRise, NEW c \in Keys, NEW new \in Contents, NEW put \in Contents,
         Changed(c, new, put), new.ver = from[c].ver + 1, put.ver = from[c].ver + 1
  PROVE  VersionsRise'
<1> SUFFICES ASSUME NEW k \in Keys
             PROVE  /\ to'[k].ver <= from'[k].ver
                    /\ k \in todo' => (to'[k].ver <= read'[k].ver /\ read'[k].ver <= from'[k].ver)
                    /\ \A i \in Pending(k)' :
                          to'[k].ver <= events'[i].put.ver /\ events'[i].put.ver <= from'[k].ver
                    /\ \A i, j \in Pending(k)' : i < j => events'[i].put.ver <= events'[j].put.ver
  BY DEF VersionsRise
<1>1. UNCHANGED <<to, pc, todo, read>> /\ from' = [from EXCEPT ![c] = new]
  BY DEF Changed
<1>2. /\ to[k].ver \in Int /\ from[k].ver \in Int /\ read[k].ver \in Int
      /\ \A i \in Pending(k) : i \in Int /\ i <= Len(events) /\ events[i].put.ver \in Int
  BY VersionType, PendingType
<1>3. from[k].ver <= from'[k].ver /\ from'[k].ver \in Int
  BY <1>1, <1>2 DEF TypeOK
<1>4. /\ to[k].ver <= from[k].ver
      /\ k \in todo => (to[k].ver <= read[k].ver /\ read[k].ver <= from[k].ver)
      /\ \A i \in Pending(k) : to[k].ver <= events[i].put.ver /\ events[i].put.ver <= from[k].ver
      /\ \A i, j \in Pending(k) : i < j => events[i].put.ver <= events[j].put.ver
  BY DEF VersionsRise
<1>5. /\ to'[k].ver <= from'[k].ver
      /\ k \in todo' => (to'[k].ver <= read'[k].ver /\ read'[k].ver <= from'[k].ver)
  BY <1>1, <1>2, <1>3, <1>4
<1>6. CASE events' = events
  BY <1>1, <1>2, <1>3, <1>4, <1>5, <1>6 DEF Pending
<1>7. CASE events' # events
  <2>1. [key |-> c, put |-> put] \in Change
    BY DEF Change
  <2>2. PICK e \in Change : e = [key |-> c, put |-> put]
    BY <2>1
  <2>3. e.key = c /\ e.put = put
    BY <2>2
  <2>4. events' = Append(events, e)
    BY <1>7, <2>2 DEF Changed
  <2>5. CASE k # c
    <3>1. /\ Pending(k)' = Pending(k)
          /\ \A i \in Pending(k) : events'[i] = events[i]
      BY <2>3, <2>4, <2>5, NewestStays
    <3> QED  BY <1>1, <1>2, <1>3, <1>4, <1>5, <3>1
  <2>6. CASE k = c
    <3>1. PICK n \in Nat : n = Len(events) + 1
      BY <2>4, EventJoins
    <3>2. /\ Pending(k)' = Pending(k) \cup {n}
          /\ events'[n] = e
          /\ \A i \in Pending(k) : events'[i] = events[i]
      BY <2>3, <2>4, <2>6, <3>1, EventJoins, PendingType
    <3>3. events'[n].put.ver = from'[k].ver
      BY <1>1, <2>3, <2>6, <3>2 DEF TypeOK
    <3>4. Len(events) \in Nat
      BY DEF TypeOK
    <3>5. \A i \in Pending(k)' :
            to'[k].ver <= events'[i].put.ver /\ events'[i].put.ver <= from'[k].ver
      BY <1>1, <1>2, <1>3, <1>4, <1>5, <3>2, <3>3
    <3>6. ASSUME NEW i \in Pending(k)', NEW j \in Pending(k)', i < j
          PROVE  events'[i].put.ver <= events'[j].put.ver
      <4>1. CASE j = n
        BY <3>3, <3>5, <4>1
      <4>2. CASE j # n
        <5>1. j \in Pending(k) /\ i \in Pending(k)
          BY <1>2, <3>1, <3>2, <3>4, <3>6, <4>2
        <5> QED  BY <1>4, <3>2, <3>6, <5>1
      <4> QED  BY <4>1, <4>2
    <3> QED  BY <1>5, <3>5, <3>6
  <2> QED  BY <2>5, <2>6
<1> QED  BY <1>6, <1>7

(* The first event leaves: it is written, or it is not.                    *)
LEMMA RiseLeaves ==
  ASSUME TypeOK, VersionsRise, pc = "watch", events # <<>>, events' = Tail(events),
         UNCHANGED <<from, todo, read>>,
         to' = to \/ to' = [to EXCEPT ![events[1].key] = events[1].put]
  PROVE  VersionsRise' /\ \A k \in Keys : to[k].ver <= to'[k].ver
<1> SUFFICES ASSUME NEW k \in Keys
             PROVE  /\ to'[k].ver <= from[k].ver
                    /\ \A i \in Pending(k)' :
                          to'[k].ver <= events'[i].put.ver /\ events'[i].put.ver <= from[k].ver
                    /\ \A i, j \in Pending(k)' : i < j => events'[i].put.ver <= events'[j].put.ver
                    /\ to[k].ver <= to'[k].ver
  BY DEF VersionsRise, TypeOK
<1>1. /\ to[k].ver \in Int /\ from[k].ver \in Int
      /\ \A i \in Pending(k) : i \in Int /\ i <= Len(events) /\ events[i].put.ver \in Int
  BY VersionType, PendingType
<1>2. /\ to[k].ver <= from[k].ver
      /\ \A i \in Pending(k) : to[k].ver <= events[i].put.ver /\ events[i].put.ver <= from[k].ver
      /\ \A i, j \in Pending(k) : i < j => events[i].put.ver <= events[j].put.ver
  BY DEF VersionsRise
<1>3. \A i \in Pending(k)' : i + 1 \in Pending(k) /\ i \in Int /\ i >= 1 /\ events'[i] = events[i + 1]
  BY EventLeaves
<1>4. \A i, j \in Pending(k)' : i < j => events'[i].put.ver <= events'[j].put.ver
  <2>1. \A i, j \in Pending(k)' : i < j => i + 1 < j + 1
    BY <1>3
  <2> QED  BY <1>2, <1>3, <2>1
<1>5. CASE to'[k] = to[k]
  BY <1>1, <1>2, <1>3, <1>4, <1>5
<1>6. CASE events[1].key = k /\ to'[k] = events[1].put
  <2>1. 1 \in Pending(k)
    BY <1>6, EventLeaves
  <2>2. \A i \in Pending(k)' : 1 < i + 1
    BY <1>3
  <2>3. \A i \in Pending(k)' : events[1].put.ver <= events'[i].put.ver
    BY <1>2, <1>3, <2>1, <2>2
  <2> QED  BY <1>1, <1>2, <1>3, <1>4, <1>6, <2>1, <2>3
<1>7. events[1].key \in Keys
  BY HeadType DEF Change
<1> QED  BY <1>5, <1>6, <1>7 DEF TypeOK

LEMMA RiseStep ==
  TypeOK /\ VersionsRise /\ [Next]_vars
    => VersionsRise' /\ \A k \in Keys : to[k].ver <= to'[k].ver
<1> SUFFICES ASSUME TypeOK, VersionsRise, [Next]_vars
             PROVE  VersionsRise' /\ \A k \in Keys : to[k].ver <= to'[k].ver
  OBVIOUS
<1>1. \A k \in Keys : to[k].ver \in Int /\ from[k].ver \in Int /\ read[k].ver \in Int
  BY VersionType
<1>2. pc # "watch" => \A k : Pending(k) = {}
  BY DEF TypeOK, Pending
<1>3. CASE Kubernetes
  <2>1. PICK c \in Keys, new \in Contents, put \in Contents :
          /\ Changed(c, new, put)
          /\ new.ver = from[c].ver + 1
          /\ put.ver = from[c].ver + 1
    BY <1>3, KubernetesChanges
  <2>2. to' = to
    BY <2>1 DEF Changed
  <2> QED  BY <1>1, <2>1, <2>2, RiseKubernetes
<1>4. CASE Load
  <2>1. /\ to' = to /\ from' = from /\ read' = from /\ events' = events
        /\ pc = "connect"
    BY <1>4 DEF Load
  <2>2. \A k : Pending(k) = {} /\ Pending(k)' = {}
    BY <1>2, <2>1 DEF Pending
  <2> QED  BY <1>1, <2>1, <2>2 DEF VersionsRise
<1>5. CASE Copy
  <2>1. /\ from' = from /\ read' = read /\ events' = events /\ pc # "watch" /\ todo' \subseteq todo
        /\ \/ to' = to
           \/ \E c \in todo : todo' = todo \ {c} /\ to' = [to EXCEPT ![c] = read[c]]
    BY <1>5 DEF Copy, CopyDone, StartWatch, CopyKey, CopyError, Put
  <2>2. \A k : Pending(k) = {} /\ Pending(k)' = {}
    BY <1>2, <2>1 DEF Pending
  <2>3. CASE to' = to
    BY <1>1, <2>1, <2>2, <2>3 DEF VersionsRise
  <2>4. ASSUME NEW c \in todo, todo' = todo \ {c}, to' = [to EXCEPT ![c] = read[c]]
        PROVE  VersionsRise' /\ \A k \in Keys : to[k].ver <= to'[k].ver
    <3>1. \A k \in Keys : to'[k] = IF k = c THEN read[k] ELSE to[k]
      BY <2>4 DEF TypeOK
    <3>2. to[c].ver <= read[c].ver /\ read[c].ver <= from[c].ver
      BY DEF VersionsRise, TypeOK
    <3> QED  BY <1>1, <2>1, <2>2, <2>4, <3>1, <3>2 DEF VersionsRise
  <2> QED  BY <2>1, <2>3, <2>4
<1>6. CASE Follow
  <2>1. /\ pc = "watch" /\ events # <<>> /\ events' = Tail(events)
        /\ to' = [to EXCEPT ![events[1].key] = events[1].put]
        /\ UNCHANGED <<from, todo, read>>
    BY <1>6, HeadType DEF Follow, PutChange, Put
  <2> QED  BY <2>1, RiseLeaves
<1>7. CASE FollowError
  <2>1. /\ pc = "watch" /\ events # <<>> /\ events' = Tail(events)
        /\ UNCHANGED <<from, to, todo, read>>
    BY <1>7 DEF FollowError
  <2> QED  BY <2>1, RiseLeaves
<1>8. CASE StartAgain
  <2>1. to' = to /\ from' = from /\ todo' = {} /\ \A k : Pending(k)' = {}
    BY <1>8 DEF StartAgain, NoEvents, Pending
  <2> QED  BY <1>1, <2>1 DEF VersionsRise
<1>9. CASE UNCHANGED vars
  BY <1>1, <1>9 DEF vars, VersionsRise, Pending
<1> QED  BY <1>3, <1>4, <1>5, <1>6, <1>7, <1>8, <1>9 DEF Next

(* For any keys and any number of changes: no copy and no event, in        *)
(* whatever order they are written and however often the bridge starts     *)
(* again, puts back an older value of a key.                               *)
THEOREM VersionsOnlyRise == Spec => NeverGoesBack
<1>1. Init => VersionsRise
  <2> SUFFICES ASSUME Init PROVE VersionsRise
    OBVIOUS
  <2>1. ASSUME NEW k \in Keys PROVE to[k].ver = 0 /\ from[k].ver = 0
    <3>1. from[k] \in {Absent(0), [ver |-> 0, there |-> TRUE]} /\ to[k] = Absent(0)
      BY DEF Init
    <3>2. Absent(0).ver = 0 /\ [ver |-> 0, there |-> TRUE].ver = 0
      BY DEF Absent
    <3> QED  BY <3>1, <3>2
  <2>2. todo = {} /\ \A k : Pending(k) = {}
    BY DEF Init, Pending
  <2>3. \A k \in Keys : to[k].ver <= from[k].ver
    <3>1. 0 <= 0
      OBVIOUS
    <3> QED  BY <2>1, <3>1, Zenon
  <2>4. \A k : k \notin todo /\ \A i : i \notin Pending(k)
    BY <2>2
  <2> QED  BY <2>3, <2>4, Zenon DEF VersionsRise
<1>2. TypeOK /\ VersionsRise /\ [Next]_vars => [\A k \in Keys : to[k].ver <= to'[k].ver]_vars
  BY RiseStep
<1> QED  BY <1>1, <1>2, TypeInit, TypeStep, RiseStep, PTL DEF Spec, NeverGoesBack
=============================================================================
