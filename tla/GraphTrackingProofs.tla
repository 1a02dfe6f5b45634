------------------------- MODULE GraphTrackingProofs -------------------------
(***************************************************************************)
(* Theorems about GraphTracking, for all keys, streams and requests, and   *)
(* all times that satisfy LifeAssumption.                                  *)
(***************************************************************************)
EXTENDS GraphTracking, TLAPS

-----------------------------------------------------------------------------
(* Types. *)

LEMMA KeyType ==
  ASSUME NEW st \in Streams, NEW i \in 1..Len(KeysOf[st])
  PROVE  KeysOf[st][i] \in GraphKeys
  BY KeyAssumption

LEMMA KeyAtType ==
  ASSUME TypeOK, NEW st \in Streams, Busy(st)
  PROVE  KeyAt(st) \in GraphKeys
  BY KeyType DEF KeyAt, TypeOK

LEMMA LenType == \A st \in Streams : Len(KeysOf[st]) \in Nat
  BY KeyAssumption

LEMMA TypeInit == Init => TypeOK
  BY TimeAssumption, LenType DEF Init, TypeOK, Attempts, Busy

(* A write that succeeds, and one that is refused. *)
LEMMA WriteType ==
  ASSUME TypeOK, NEW k \in GraphKeys, Write(k) \/ Refuse
  PROVE  ttl' \in [GraphKeys -> 0..TTL] /\ failures' \in 0..MaxFailures
<1>1. ttl \in [GraphKeys -> 0..TTL] /\ failures \in 0..MaxFailures
  BY DEF TypeOK
<1>2. TTL \in 0..TTL /\ MaxFailures \in Nat
  BY TimeAssumption
<1>3. CASE Write(k)
  BY <1>1, <1>2, <1>3 DEF Write
<1>4. CASE Refuse
  BY <1>1, <1>2, <1>4 DEF Refuse
<1> QED  BY <1>3, <1>4

(* A loop over the specs of a request moves on to pc "more", or ends. *)
LEMMA LoopType ==
  ASSUME TypeOK, NEW st \in Streams, Busy(st),
         NEW more \in {"track", "untrack"}, NEW done \in {"observe", "ended"},
         at' = [at EXCEPT ![st] = IF More(st) THEN @ + 1 ELSE 1],
         GoTo(st, IF More(st) THEN more ELSE done)
  PROVE  /\ pc' \in [Streams -> {"idle", "track", "write", "observe", "untrack", "ended"}]
         /\ at' \in [Streams -> Nat]
         /\ \A s \in Streams :
              /\ Busy(s)' => at'[s] \in 1..Len(KeysOf[s])
              /\ ~Busy(s)' => at'[s] = 1
              /\ pc'[s] = "observe" => KeysOf[s] # <<>>
<1>1. at[st] \in 1..Len(KeysOf[st]) /\ Len(KeysOf[st]) \in Nat /\ KeysOf[st] # <<>>
  BY LenType DEF TypeOK
<1>2. pc' = [pc EXCEPT ![st] = IF More(st) THEN more ELSE done]
  BY DEF GoTo
<1>3. CASE More(st)
  BY <1>1, <1>2, <1>3 DEF More, Busy, TypeOK
<1>4. CASE ~More(st)
  BY <1>1, <1>2, <1>4 DEF More, Busy, TypeOK
<1> QED  BY <1>3, <1>4

LEMMA TypeStep == TypeOK /\ [Next]_vars => TypeOK'
<1> SUFFICES ASSUME TypeOK, [Next]_vars PROVE TypeOK'
  OBVIOUS
<1> USE DEF loopVars, streamVars
<1>1. CASE Tick
  BY <1>1, TimeAssumption DEF Tick, Less, TypeOK, Busy
<1>2. CASE RefreshStart
  BY <1>2, TimeAssumption DEF RefreshStart, Cloned, TypeOK, Busy
<1>3. ASSUME NEW k \in GraphKeys, RefreshKey(k) PROVE TypeOK'
  <2>1. ttl' \in [GraphKeys -> 0..TTL] /\ failures' \in 0..MaxFailures
    BY <1>3, WriteType DEF RefreshKey
  <2>2. copy' \subseteq GraphKeys /\ UNCHANGED <<late, graphKeys, next, streamVars>>
    BY <1>3 DEF RefreshKey, TypeOK
  <2> QED  BY <2>1, <2>2 DEF TypeOK, Busy
<1>4. ASSUME NEW st \in Streams, Resolve(st) PROVE TypeOK'
  <2>1. KeysOf[st] # <<>> => 1 \in 1..Len(KeysOf[st])
    BY KeyAssumption
  <2>2. at[st] = 1
    BY <1>4 DEF Resolve, TypeOK, Busy
  <2>3. gone' \in [Streams -> SUBSET Streams]
    BY <1>4 DEF Resolve, TypeOK
  <2>4. UNCHANGED <<late, ttl, graphKeys, loopVars, at, tries, failures>>
    BY <1>4 DEF Resolve
  <2>5. pc' = [pc EXCEPT ![st] = IF KeysOf[st] = <<>> THEN "ended" ELSE "track"]
    BY <1>4 DEF Resolve, GoTo
  <2> QED  BY <2>1, <2>2, <2>3, <2>4, <2>5 DEF TypeOK, Busy
<1>5. ASSUME NEW st \in Streams, Leave(st) PROVE TypeOK'
  <2>1. KeysOf[st] # <<>> /\ at[st] = 1
    BY <1>5 DEF Leave, TypeOK, Busy
  <2>2. 1 \in 1..Len(KeysOf[st])
    BY <2>1, KeyAssumption
  <2>3. pc' = [pc EXCEPT ![st] = "untrack"]
    BY <1>5 DEF Leave, GoTo
  <2>4. UNCHANGED <<late, ttl, graphKeys, loopVars, at, tries, gone, failures>>
    BY <1>5 DEF Leave
  <2> QED  BY <2>1, <2>2, <2>3, <2>4 DEF TypeOK, Busy
<1>6. ASSUME NEW st \in Streams, TrackAdd(st) PROVE TypeOK'
  <2>1. KeyAt(st) \in GraphKeys
    BY <1>6, KeyAtType DEF TrackAdd, Busy
  <2>2. pc' = [pc EXCEPT ![st] = "write"] /\ pc[st] = "track"
    BY <1>6 DEF TrackAdd, GoTo
  <2>3. graphKeys' \subseteq GraphKeys
    BY <1>6, <2>1 DEF TrackAdd, Added, TypeOK
  <2>4. UNCHANGED <<late, ttl, loopVars, at, tries, gone, failures>>
    BY <1>6 DEF TrackAdd
  <2> QED  BY <2>2, <2>3, <2>4 DEF TypeOK, Busy
<1>7. ASSUME NEW st \in Streams, TrackWrite(st) \/ TrackRefused(st) PROVE TypeOK'
  <2>1. Busy(st)
    BY <1>7 DEF TrackWrite, TrackRefused, Busy
  <2>2. ttl' \in [GraphKeys -> 0..TTL] /\ failures' \in 0..MaxFailures
    BY <1>7, <2>1, KeyAtType, WriteType DEF TrackWrite, TrackRefused
  <2>3. UNCHANGED <<late, graphKeys, loopVars, gone>>
    BY <1>7 DEF TrackWrite, TrackRefused
  <2>4. CASE Tracked(st)
    <3>1. tries' \in [Streams -> 0..(Attempts - 1)]
      BY <2>4 DEF Tracked, TypeOK, Attempts
    <3>2. /\ at' = [at EXCEPT ![st] = IF More(st) THEN @ + 1 ELSE 1]
          /\ GoTo(st, IF More(st) THEN "track" ELSE "observe")
      BY <2>4 DEF Tracked
    <3> QED  BY <2>1, <2>2, <2>3, <3>1, <3>2, LoopType DEF TypeOK
  <2>5. CASE tries[st] + 1 # Attempts /\ tries' = [tries EXCEPT ![st] = @ + 1] /\ UNCHANGED <<at, pc>>
    <3>1. tries' \in [Streams -> 0..(Attempts - 1)]
      BY <2>5 DEF TypeOK, Attempts
    <3> QED  BY <2>2, <2>3, <2>5, <3>1 DEF TypeOK, Busy
  <2> QED  BY <1>7, <2>4, <2>5 DEF TrackWrite, TrackRefused
<1>8. ASSUME NEW st \in Streams, Untrack(st) PROVE TypeOK'
  <2>1. Busy(st)
    BY <1>8 DEF Untrack, Busy
  <2>2. /\ at' = [at EXCEPT ![st] = IF More(st) THEN @ + 1 ELSE 1]
        /\ GoTo(st, IF More(st) THEN "untrack" ELSE "ended")
        /\ UNCHANGED <<late, ttl, loopVars, tries, gone, failures>>
    BY <1>8 DEF Untrack
  <2>3. graphKeys' \subseteq GraphKeys
    BY <1>8 DEF Untrack, Remaining, TypeOK
  <2> QED  BY <2>1, <2>2, <2>3, LoopType DEF TypeOK
<1>9. CASE UNCHANGED vars
  BY <1>9 DEF vars, TypeOK, Busy
<1> QED  BY <1>1, <1>2, <1>3, <1>4, <1>5, <1>6, <1>7, <1>8, <1>9 DEF Next, Refresher, Handler

(* Every variable keeps its type: the loops of Resolve over the specs of   *)
(* its request, TrackServiceGraph's attempts and the refresh loop's copy.  *)
THEOREM TypeCorrect == Spec => []TypeOK
  BY TypeInit, TypeStep, PTL DEF Spec

-----------------------------------------------------------------------------
(* Tracked keys stay alive. *)

(* The life a key needs to outlast the refusals that may still come. *)
Reserve(f) == Interval * (MaxFailures - f)

LEMMA ReserveFacts ==
  ASSUME NEW f \in 0..MaxFailures
  PROVE  /\ Reserve(f) \in Nat
         /\ TTL > Interval + Reserve(f)
         /\ f < MaxFailures => Reserve(f) = Interval + Reserve(f + 1)
<1>1. Interval \in Nat \ {0} /\ MaxFailures \in Nat /\ TTL \in Nat /\ f \in Nat /\ f <= MaxFailures
  BY TimeAssumption
<1>2. MaxFailures - f \in Nat
  BY <1>1
<1>3. Reserve(f) \in Nat
  BY <1>1, <1>2 DEF Reserve
<1>4. Interval * (MaxFailures + 1) = Interval + Interval * (MaxFailures - f) + Interval * f
  BY <1>1
<1>5. Interval * f \in Nat /\ (MaxFailures + 1) * Interval = Interval * (MaxFailures + 1)
  BY <1>1
<1>6. Interval * (MaxFailures - f) = Interval + Interval * (MaxFailures - (f + 1))
  BY <1>1
<1> QED  BY <1>1, <1>3, <1>4, <1>5, <1>6, LifeAssumption DEF Reserve

Writing(k) == \E st \in Streams : pc[st] = "write" /\ KeyAt(st) = k

(* A key that is tracked and not being written for the first time lives    *)
(* until its next refresh and through all refusals that may still come.    *)
(* TrackedStaysAlive is not inductive: it says nothing of the next tick.   *)
LifeInv ==
  ~late =>
    /\ \A st \in Streams : tries[st] <= failures
    /\ copy # {} => next = Interval
    /\ \A k \in graphKeys : ~Writing(k) =>
        /\ k \notin copy => ttl[k] > next + Reserve(failures)
        /\ k \in copy => ttl[k] > Reserve(failures)

LEMMA LifeInit == Init => LifeInv
  BY TimeAssumption DEF Init, LifeInv

(* What a write does to the life of each key. *)
LEMMA WriteLife ==
  ASSUME TypeOK, NEW w \in GraphKeys, NEW k \in GraphKeys, Write(w) \/ Refuse
  PROVE  /\ failures' \in 0..MaxFailures
         /\ Reserve(failures') \in Nat
         /\ Reserve(failures') <= Reserve(failures)
         /\ ttl'[k] = ttl[k] \/ ttl'[k] > Interval + Reserve(failures')
         /\ Write(w) => ttl'[w] > Interval + Reserve(failures')
         /\ Refuse => Reserve(failures) = Interval + Reserve(failures')
<1>1. failures \in 0..MaxFailures /\ failures' \in 0..MaxFailures /\ Interval \in Nat
  BY WriteType, TimeAssumption DEF TypeOK
<1>2. /\ Reserve(failures') \in Nat
      /\ Reserve(failures) \in Nat
      /\ TTL > Interval + Reserve(failures')
  BY <1>1, ReserveFacts
<1>3. CASE Write(w)
  <2>1. failures' = failures /\ ttl' = [ttl EXCEPT ![w] = TTL]
    BY <1>3 DEF Write
  <2>2. ttl'[w] = TTL /\ (ttl'[k] = ttl[k] \/ ttl'[k] = TTL)
    BY <2>1 DEF TypeOK
  <2>3. Refuse => FALSE
    BY <2>1, <1>1 DEF Refuse
  <2> QED  BY <1>1, <1>2, <2>1, <2>2, <2>3
<1>4. CASE Refuse
  <2>1. failures < MaxFailures /\ failures' = failures + 1 /\ ttl' = ttl
    BY <1>4 DEF Refuse
  <2>2. Reserve(failures) = Interval + Reserve(failures')
    BY <1>1, <2>1, ReserveFacts
  <2>3. Write(w) => FALSE
    BY <2>1, <1>1 DEF Write
  <2> QED  BY <1>1, <1>2, <2>1, <2>2, <2>3
<1> QED  BY <1>3, <1>4

LEMMA LifeStep ==
  ASSUME MaxFailures < Attempts, TypeOK, TypeOK', LifeInv, [Next]_vars
  PROVE  LifeInv'
<1> USE DEF loopVars, streamVars
<1>l. late' = late
  BY DEF Next, vars, Tick, Refresher, RefreshStart, RefreshKey, Handler, Resolve, Leave,
         TrackAdd, TrackWrite, TrackRefused, Untrack
<1> SUFFICES ASSUME ~late PROVE LifeInv'
  BY <1>l DEF LifeInv
<1>a. /\ \A st \in Streams : tries[st] <= failures
      /\ copy # {} => next = Interval
      /\ \A k \in graphKeys : ~Writing(k) =>
           /\ k \notin copy => ttl[k] > next + Reserve(failures)
           /\ k \in copy => ttl[k] > Reserve(failures)
  BY DEF LifeInv
<1>b. /\ \A k \in GraphKeys : ttl[k] \in Int /\ ttl'[k] \in Int
      /\ next \in 0..Interval /\ next' \in 0..Interval
      /\ failures \in 0..MaxFailures /\ failures' \in 0..MaxFailures
      /\ graphKeys \subseteq GraphKeys /\ graphKeys' \subseteq GraphKeys
      /\ Interval \in Nat /\ MaxFailures \in Nat
      /\ Reserve(failures) \in Nat /\ Reserve(failures') \in Nat
      /\ \A st \in Streams : tries[st] \in Int
  BY TimeAssumption, ReserveFacts DEF TypeOK
(* Steps that leave time, etcd and the keys that are settled alone. *)
<1>c. ASSUME UNCHANGED <<ttl, copy, next, tries, failures>>,
             \A k \in graphKeys' : ~Writing(k)' => k \in graphKeys /\ ~Writing(k)
      PROVE  LifeInv'
  BY <1>a, <1>c DEF LifeInv, Reserve
<1>1. CASE Tick
  <2>1. next > 0 /\ copy = {} /\ next' = next - 1
    BY <1>1, <1>b DEF Tick, Less
  <2>2. UNCHANGED <<graphKeys, copy, pc, at, tries, failures>>
    BY <1>1 DEF Tick
  <2>3. ASSUME NEW k \in graphKeys, ~Writing(k)
        PROVE  ttl'[k] > next' + Reserve(failures)
    <3>1. ttl[k] > next + Reserve(failures) /\ k \in GraphKeys
      BY <1>a, <1>b, <2>1, <2>3
    <3>2. ttl'[k] = Less(ttl[k])
      BY <1>1, <3>1 DEF Tick
    <3> QED  BY <3>1, <3>2, <2>1, <1>b DEF Less
  <2>4. \A k : Writing(k)' <=> Writing(k)
    BY <2>2 DEF Writing, KeyAt
  <2> QED  BY <1>a, <2>1, <2>2, <2>3, <2>4 DEF LifeInv, Reserve
<1>2. CASE RefreshStart
  <2>1. next = 0 /\ copy = {} /\ copy' = graphKeys /\ next' = Interval
    BY <1>2 DEF RefreshStart, Cloned
  <2>2. UNCHANGED <<ttl, graphKeys, pc, at, tries, failures>>
    BY <1>2 DEF RefreshStart
  <2>3. \A k : Writing(k)' <=> Writing(k)
    BY <2>2 DEF Writing, KeyAt
  <2>4. \A k \in graphKeys : ~Writing(k) => ttl[k] > Reserve(failures)
    BY <1>a, <1>b, <2>1
  <2> QED  BY <1>a, <2>1, <2>2, <2>3, <2>4 DEF LifeInv, Reserve
<1>3. ASSUME NEW w \in GraphKeys, RefreshKey(w) PROVE LifeInv'
  <2>1. w \in copy /\ copy' = copy \ {w} /\ next = Interval
    BY <1>3, <1>a DEF RefreshKey
  <2>2. UNCHANGED <<graphKeys, next, pc, at, tries>>
    BY <1>3 DEF RefreshKey
  <2>3. Write(w) \/ Refuse
    BY <1>3 DEF RefreshKey
  <2>4. \A k : Writing(k)' <=> Writing(k)
    BY <2>2 DEF Writing, KeyAt
  <2>5. failures' >= failures
    BY <2>3, <1>b DEF Write, Refuse
  <2>6. ASSUME NEW k \in graphKeys, ~Writing(k)
        PROVE  /\ k \notin copy' => ttl'[k] > next + Reserve(failures')
               /\ k \in copy' => ttl'[k] > Reserve(failures')
    <3>1. k \in GraphKeys
      BY <1>b
    <3>2. /\ Reserve(failures') <= Reserve(failures)
          /\ ttl'[k] = ttl[k] \/ ttl'[k] > Interval + Reserve(failures')
          /\ Write(w) => ttl'[w] > Interval + Reserve(failures')
          /\ Refuse => Reserve(failures) = Interval + Reserve(failures')
      BY <2>3, <3>1, WriteLife
    <3>3. CASE k # w
      BY <1>a, <1>b, <2>1, <2>6, <3>1, <3>2, <3>3
    <3>4. CASE k = w /\ Write(w)
      BY <1>b, <2>1, <3>2, <3>4
    <3>5. CASE k = w /\ Refuse
      <4>1. ttl'[k] = ttl[k]
        BY <3>5 DEF Refuse
      <4>2. ttl[k] > Reserve(failures)
        BY <1>a, <2>1, <2>6, <3>5
      <4> QED  BY <4>1, <4>2, <2>1, <3>2, <3>5, <1>b
    <3> QED  BY <2>3, <3>3, <3>4, <3>5
  <2>7. \A st \in Streams : tries[st] <= failures'
    BY <1>a, <1>b, <2>5
  <2> QED  BY <1>l, <2>1, <2>2, <2>4, <2>6, <2>7, <1>a DEF LifeInv
<1>4. ASSUME NEW st \in Streams, Resolve(st) PROVE LifeInv'
  <2>1. pc' = [pc EXCEPT ![st] = IF KeysOf[st] = <<>> THEN "ended" ELSE "track"] /\ pc[st] = "idle"
    BY <1>4 DEF Resolve, GoTo
  <2>2. UNCHANGED <<ttl, graphKeys, copy, next, at, tries, failures>>
    BY <1>4 DEF Resolve
  <2>3. \A k : Writing(k) => Writing(k)'
    BY <2>1, <2>2 DEF Writing, KeyAt, TypeOK
  <2> QED  BY <1>c, <2>2, <2>3
<1>5. ASSUME NEW st \in Streams, Leave(st) PROVE LifeInv'
  <2>1. pc' = [pc EXCEPT ![st] = "untrack"] /\ pc[st] = "observe"
    BY <1>5 DEF Leave, GoTo
  <2>2. UNCHANGED <<ttl, graphKeys, copy, next, at, tries, failures>>
    BY <1>5 DEF Leave
  <2>3. \A k : Writing(k) => Writing(k)'
    BY <2>1, <2>2 DEF Writing, KeyAt, TypeOK
  <2> QED  BY <1>c, <2>2, <2>3
<1>6. ASSUME NEW st \in Streams, TrackAdd(st) PROVE LifeInv'
  (* The new key is being written. *)
  <2>1. pc' = [pc EXCEPT ![st] = "write"] /\ pc[st] = "track"
    BY <1>6 DEF TrackAdd, GoTo
  <2>2. UNCHANGED <<ttl, copy, next, at, tries, failures>> /\ graphKeys' = graphKeys \cup {KeyAt(st)}
    BY <1>6 DEF TrackAdd, Added
  <2>3. \A k : Writing(k) => Writing(k)'
    BY <2>1, <2>2 DEF Writing, KeyAt, TypeOK
  <2>4. \A k : k = KeyAt(st) => Writing(k)'
    BY <2>1, <2>2 DEF Writing, KeyAt, TypeOK
  <2>5. \A k \in graphKeys' : ~Writing(k)' => k \in graphKeys /\ ~Writing(k)
    <3> SUFFICES ASSUME NEW k \in graphKeys', ~Writing(k)'
                 PROVE  k \in graphKeys /\ ~Writing(k)
      OBVIOUS
    <3>1. k # KeyAt(st)
      BY <2>4
    <3>2. ~Writing(k)
      BY <2>3
    <3> QED  BY <2>2, <3>1, <3>2
  <2> QED  BY <1>c, <2>2, <2>5
<1>7. ASSUME NEW st \in Streams, Untrack(st) PROVE LifeInv'
  <2>1. pc[st] = "untrack" /\ pc' = [pc EXCEPT ![st] = IF More(st) THEN "untrack" ELSE "ended"]
    BY <1>7 DEF Untrack, GoTo
  <2>2. /\ UNCHANGED <<ttl, copy, next, tries, failures>>
        /\ graphKeys' \subseteq graphKeys
        /\ at' = [at EXCEPT ![st] = IF More(st) THEN @ + 1 ELSE 1]
    BY <1>7 DEF Untrack, Remaining
  <2>3. \A k : Writing(k) => Writing(k)'
    BY <2>1, <2>2 DEF Writing, KeyAt, TypeOK
  <2> QED  BY <1>c, <2>2, <2>3
<1>8. ASSUME NEW st \in Streams, TrackWrite(st) PROVE LifeInv'
  <2> DEFINE w == KeyAt(st)
  <2>1. w \in GraphKeys /\ pc[st] = "write"
    BY <1>8, KeyAtType DEF TrackWrite, Busy
  <2>2. Write(w) /\ UNCHANGED <<graphKeys, copy, next, failures>>
    BY <1>8 DEF TrackWrite, Write
  <2>3. /\ pc' = [pc EXCEPT ![st] = IF More(st) THEN "track" ELSE "observe"]
        /\ at' = [at EXCEPT ![st] = IF More(st) THEN @ + 1 ELSE 1]
        /\ tries' = [tries EXCEPT ![st] = 0]
    BY <1>8 DEF TrackWrite, Tracked, GoTo
  <2>4. \A k : k # w /\ Writing(k) => Writing(k)'
    BY <2>3 DEF Writing, KeyAt, TypeOK
  <2>5. \A s \in Streams : tries'[s] <= failures'
    BY <1>a, <1>b, <2>2, <2>3 DEF TypeOK
  <2>6. ASSUME NEW k \in graphKeys, ~Writing(k)'
        PROVE  /\ k \notin copy => ttl'[k] > next + Reserve(failures')
               /\ k \in copy => ttl'[k] > Reserve(failures')
    <3>1. k \in GraphKeys
      BY <1>b
    <3>2. /\ Reserve(failures') = Reserve(failures)
          /\ ttl'[k] = ttl[k] \/ ttl'[k] > Interval + Reserve(failures')
          /\ ttl'[w] > Interval + Reserve(failures')
      BY <2>1, <2>2, <3>1, WriteLife DEF Reserve
    <3>3. CASE k = w
      BY <1>b, <3>1, <3>2, <3>3
    <3>4. CASE k # w
      <4>1. ~Writing(k)
        BY <2>4, <2>6, <3>4
      <4> QED  BY <1>a, <1>b, <3>1, <3>2, <4>1
    <3> QED  BY <3>3, <3>4
  <2> QED  BY <1>l, <1>a, <2>2, <2>5, <2>6 DEF LifeInv
<1>9. ASSUME NEW st \in Streams, TrackRefused(st) PROVE LifeInv'
  <2>1. /\ UNCHANGED <<graphKeys, copy, next>>
        /\ pc[st] = "write"
        /\ failures < MaxFailures /\ failures' = failures + 1 /\ ttl' = ttl
    BY <1>9 DEF TrackRefused, Refuse
  (* There are not enough refusals for the last attempt to fail. *)
  <2>2. tries[st] + 1 # Attempts
    BY <1>a, <1>b, <2>1 DEF Attempts
  <2>3. tries' = [tries EXCEPT ![st] = @ + 1] /\ UNCHANGED <<at, pc>>
    BY <1>9, <2>2 DEF TrackRefused
  <2>4. \A s \in Streams : tries'[s] <= failures'
    BY <1>a, <1>b, <2>1, <2>3 DEF TypeOK
  <2>5. \A k : Writing(k)' <=> Writing(k)
    BY <2>3 DEF Writing, KeyAt
  <2>6. Reserve(failures) = Interval + Reserve(failures')
    BY <1>b, <2>1, ReserveFacts
  <2>7. ASSUME NEW k \in graphKeys, ~Writing(k)
        PROVE  /\ k \notin copy => ttl'[k] > next + Reserve(failures')
               /\ k \in copy => ttl'[k] > Reserve(failures')
    BY <1>a, <1>b, <2>1, <2>6, <2>7
  <2> QED  BY <1>l, <1>a, <2>1, <2>4, <2>5, <2>7 DEF LifeInv
<1>10. CASE UNCHANGED vars
  <2>1. \A k : Writing(k)' <=> Writing(k)
    BY <1>10 DEF vars, Writing, KeyAt
  <2> QED  BY <1>c, <1>10, <2>1 DEF vars
<1> QED  BY <1>1, <1>2, <1>3, <1>4, <1>5, <1>6, <1>7, <1>8, <1>9, <1>10
         DEF Next, Refresher, Handler

(* While writes and refreshes are in time and etcd refuses fewer writes    *)
(* than TrackServiceGraph has attempts, a tracked key never expires once   *)
(* its first write is over: TrackedStaysAlive for all callers and callees. *)
THEOREM TrackedKeysLive ==
  ASSUME MaxFailures < Attempts
  PROVE  Spec => []TrackedStaysAlive
<1>1. TypeOK /\ LifeInv => TrackedStaysAlive
  <2> SUFFICES ASSUME TypeOK, LifeInv, ~late, NEW k \in graphKeys, ~Writing(k)
               PROVE  Alive(k)
    BY DEF TrackedStaysAlive, Writing
  <2>1. ttl[k] > Reserve(failures) \/ ttl[k] > next + Reserve(failures)
    BY DEF LifeInv
  <2>2. Reserve(failures) \in Nat /\ ttl[k] \in Int /\ next \in Nat
    BY ReserveFacts, TimeAssumption DEF TypeOK
  <2> QED  BY <2>1, <2>2 DEF Alive
<1>2. TypeOK /\ TypeOK' /\ LifeInv /\ [Next]_vars => LifeInv'
  BY LifeStep
<1> QED  BY <1>1, <1>2, LifeInit, TypeCorrect, PTL DEF Spec

-----------------------------------------------------------------------------
(* The keys of a stream that is connected. *)

(* Position i of its request is behind a handler that tracks. *)
HasTracked(st, i) ==
  \/ pc[st] = "track" /\ i < at[st]
  \/ pc[st] = "write" /\ i <= at[st]
  \/ pc[st] = "observe"

(* TrackedUnlessNamesake is about the end of the first loop of Resolve;    *)
(* this is about every position in it.  A stream that had ended when st    *)
(* began is over, so that whoever untracks a key later counts as a         *)
(* namesake.                                                               *)
TrackInv ==
  \A st \in Streams :
    /\ \A other \in Streams : other \in gone[st] => pc[other] = "ended"
    /\ \A i \in 1..Len(KeysOf[st]) : HasTracked(st, i) =>
          KeysOf[st][i] \in graphKeys \/ UntrackedByNamesake(st, KeysOf[st][i])

LEMMA TrackInit == Init => TrackInv
  BY DEF Init, TrackInv, HasTracked

(* Nothing is lost by a step in which each stream that ends or untracks    *)
(* goes on doing so, nobody gets further and no key goes away.             *)
LEMMA TrackFrame ==
  ASSUME TrackInv, gone' = gone,
         \A st \in Streams :
            /\ pc[st] = "ended" => pc'[st] = "ended"
            /\ pc[st] = "untrack" => pc'[st] \in {"untrack", "ended"}
            /\ \A i \in 1..Len(KeysOf[st]) : HasTracked(st, i)' =>
                  \/ KeysOf[st][i] \in graphKeys'
                  \/ HasTracked(st, i) /\ (KeysOf[st][i] \in graphKeys => KeysOf[st][i] \in graphKeys')
                  \/ HasTracked(st, i) /\ UntrackedByNamesake(st, KeysOf[st][i])'
  PROVE  TrackInv'
<1> SUFFICES ASSUME NEW st \in Streams
             PROVE  /\ \A other \in Streams : other \in gone'[st] => pc'[other] = "ended"
                    /\ \A i \in 1..Len(KeysOf[st]) : HasTracked(st, i)' =>
                          \/ KeysOf[st][i] \in graphKeys'
                          \/ UntrackedByNamesake(st, KeysOf[st][i])'
  BY DEF TrackInv
<1>1. \A k : UntrackedByNamesake(st, k) => UntrackedByNamesake(st, k)'
  BY DEF UntrackedByNamesake, Keys
<1> QED  BY <1>1 DEF TrackInv

LEMMA TrackStep == TypeOK /\ TrackInv /\ [Next]_vars => TrackInv'
<1> SUFFICES ASSUME TypeOK, TrackInv, [Next]_vars PROVE TrackInv'
  OBVIOUS
<1> USE DEF loopVars, streamVars
<1>t. \A st \in Streams :
        /\ pc[st] \in {"idle", "track", "write", "observe", "untrack", "ended"}
        /\ at[st] \in Nat /\ Len(KeysOf[st]) \in Nat
  BY LenType DEF TypeOK
<1>1. CASE Tick \/ Refresher \/ UNCHANGED vars
  <2>1. UNCHANGED <<graphKeys, pc, at, gone>>
    BY <1>1 DEF Tick, Refresher, RefreshStart, RefreshKey, vars
  <2> QED  BY <2>1, TrackFrame DEF HasTracked
<1>2. ASSUME NEW st \in Streams, Resolve(st) PROVE TrackInv'
  <2>1. /\ pc[st] = "idle" /\ UNCHANGED <<graphKeys, at>>
        /\ pc' = [pc EXCEPT ![st] = IF KeysOf[st] = <<>> THEN "ended" ELSE "track"]
        /\ gone' = [gone EXCEPT ![st] = {other \in Streams : pc[other] = "ended"}]
    BY <1>2 DEF Resolve, GoTo
  <2>2. at[st] = 1 /\ pc'[st] \in {"track", "ended"}
    BY <2>1 DEF TypeOK, Busy
  <2>3. \A s \in Streams : s # st => pc'[s] = pc[s] /\ gone'[s] = gone[s]
    BY <2>1 DEF TypeOK
  <2>4. gone'[st] = {other \in Streams : pc[other] = "ended"} /\ \A s \in Streams : gone[s] \subseteq Streams
    BY <2>1 DEF TypeOK
  <2>5. \A s \in Streams : pc[s] \in {"untrack", "ended"} => pc'[s] = pc[s]
    BY <2>1, <2>3
  <2>6. ASSUME NEW s \in Streams
        PROVE  /\ \A other \in Streams : other \in gone'[s] => pc'[other] = "ended"
               /\ \A i \in 1..Len(KeysOf[s]) : HasTracked(s, i)' =>
                     \/ KeysOf[s][i] \in graphKeys'
                     \/ UntrackedByNamesake(s, KeysOf[s][i])'
    <3>1. CASE s = st
      BY <2>1, <2>2, <2>4, <2>5, <3>1 DEF HasTracked
    <3>2. CASE s # st
      <4>1. \A k : UntrackedByNamesake(s, k) => UntrackedByNamesake(s, k)'
        BY <2>3, <2>5, <3>2 DEF UntrackedByNamesake, Keys
      <4> QED  BY <2>1, <2>3, <2>4, <2>5, <3>2, <4>1 DEF TrackInv, HasTracked
    <3> QED  BY <3>1, <3>2
  <2> QED  BY <2>6 DEF TrackInv
<1>3. ASSUME NEW st \in Streams, Leave(st) \/ (TrackRefused(st) /\ UNCHANGED pc) PROVE TrackInv'
  <2>1. /\ UNCHANGED <<graphKeys, gone>>
        /\ \/ pc' = pc /\ at' = at
           \/ pc[st] = "observe" /\ pc' = [pc EXCEPT ![st] = "untrack"] /\ at' = at
    BY <1>3 DEF Leave, TrackRefused, Tracked, GoTo, TypeOK
  <2>2. \A s \in Streams : \A i : HasTracked(s, i)' => HasTracked(s, i)
    BY <2>1 DEF HasTracked, TypeOK
  <2> QED  BY <2>1, <2>2, TrackFrame DEF TypeOK
<1>4. ASSUME NEW st \in Streams, TrackAdd(st) PROVE TrackInv'
  <2>1. /\ pc[st] = "track" /\ pc' = [pc EXCEPT ![st] = "write"]
        /\ UNCHANGED <<at, gone>> /\ graphKeys' = graphKeys \cup {KeysOf[st][at[st]]}
    BY <1>4 DEF TrackAdd, Added, KeyAt, GoTo
  <2>2. \A i \in 1..Len(KeysOf[st]) : HasTracked(st, i)' =>
            HasTracked(st, i) \/ KeysOf[st][i] \in graphKeys'
    BY <2>1, <1>t DEF HasTracked, TypeOK
  <2>3. \A s \in Streams : \A i : s # st /\ HasTracked(s, i)' => HasTracked(s, i)
    BY <2>1 DEF HasTracked, TypeOK
  <2> QED  BY <2>1, <2>2, <2>3, TrackFrame DEF TypeOK
<1>5. ASSUME NEW st \in Streams, TrackWrite(st) \/ TrackRefused(st), Tracked(st) PROVE TrackInv'
  <2>1. /\ pc[st] = "write"
        /\ pc' = [pc EXCEPT ![st] = IF More(st) THEN "track" ELSE "observe"]
        /\ at' = [at EXCEPT ![st] = IF More(st) THEN @ + 1 ELSE 1]
        /\ UNCHANGED <<graphKeys, gone>>
    BY <1>5 DEF TrackWrite, TrackRefused, Tracked, GoTo
  <2>2. at[st] \in 1..Len(KeysOf[st])
    BY <2>1 DEF TypeOK, Busy
  <2>3. \A i \in 1..Len(KeysOf[st]) : HasTracked(st, i)' => HasTracked(st, i)
    <3>1. CASE More(st)
      <4>1. pc'[st] = "track" /\ at'[st] = at[st] + 1
        BY <2>1, <3>1 DEF TypeOK
      <4> QED  BY <2>1, <2>2, <4>1, <1>t DEF HasTracked
    <3>2. CASE ~More(st)
      <4>1. at[st] = Len(KeysOf[st])
        BY <2>2, <3>2, <1>t DEF More
      <4> QED  BY <2>1, <4>1, <1>t DEF HasTracked
    <3> QED  BY <3>1, <3>2
  <2>4. \A s \in Streams : \A i : s # st /\ HasTracked(s, i)' => HasTracked(s, i)
    BY <2>1 DEF HasTracked, TypeOK
  <2> QED  BY <2>1, <2>3, <2>4, TrackFrame DEF TypeOK
(* The one step that takes a key away: its stream is a namesake of all     *)
(* others that have the key and are connected.                             *)
<1>6. ASSUME NEW st \in Streams, Untrack(st) PROVE TrackInv'
  <2>0. PICK k : k = KeysOf[st][at[st]]
    OBVIOUS
  <2>1. /\ pc[st] = "untrack" /\ pc' = [pc EXCEPT ![st] = IF More(st) THEN "untrack" ELSE "ended"]
        /\ at' = [at EXCEPT ![st] = IF More(st) THEN @ + 1 ELSE 1]
        /\ gone' = gone /\ graphKeys' = graphKeys \ {k}
    BY <1>6, <2>0 DEF Untrack, Remaining, KeyAt, GoTo
  <2>2. k \in Keys(st)
    BY <2>0, <2>1 DEF TypeOK, Busy, Keys
  <2>3. pc'[st] \in {"untrack", "ended"} /\ \A s \in Streams : s # st => pc'[s] = pc[s] /\ at'[s] = at[s]
    BY <2>1 DEF TypeOK
  <2>4. \A s \in Streams : \A i : HasTracked(s, i)' => HasTracked(s, i)
    BY <2>3 DEF HasTracked
  <2>5. ASSUME NEW s \in Streams PROVE UntrackedByNamesake(s, k)'
    <3>1. st \notin gone[s]
      BY <2>1 DEF TrackInv
    <3>2. pc'[st] \in {"untrack", "ended"} /\ k \in Keys(st) /\ st \in Streams \ gone'[s]
      BY <2>1, <2>2, <2>3, <3>1
    <3> QED  BY <3>2, <2>1 DEF UntrackedByNamesake, Keys
  <2>6. \A s \in Streams : \A i : KeysOf[s][i] = k => UntrackedByNamesake(s, KeysOf[s][i])'
    BY <2>5
  <2>7. \A s \in Streams : pc[s] = "ended" => pc'[s] = "ended"
    BY <2>1, <2>3
  <2>8. \A s \in Streams : pc[s] = "untrack" => pc'[s] \in {"untrack", "ended"}
    BY <2>1, <2>3
  <2>9. ASSUME NEW s \in Streams, NEW i \in 1..Len(KeysOf[s]), HasTracked(s, i)'
        PROVE  \/ HasTracked(s, i) /\ (KeysOf[s][i] \in graphKeys => KeysOf[s][i] \in graphKeys')
               \/ HasTracked(s, i) /\ UntrackedByNamesake(s, KeysOf[s][i])'
    <3>1. HasTracked(s, i)
      BY <2>4, <2>9
    <3>2. CASE KeysOf[s][i] = k
      BY <2>6, <3>1, <3>2
    <3>3. CASE KeysOf[s][i] # k
      BY <2>1, <3>1, <3>3
    <3> QED  BY <3>2, <3>3
  <2>10. gone' = gone
    BY <2>1
  <2> QED  BY <2>7, <2>8, <2>9, <2>10, TrackFrame
<1>7. ASSUME NEW st \in Streams, TrackWrite(st) \/ TrackRefused(st) PROVE TrackInv'
  <2>1. Tracked(st) \/ (TrackRefused(st) /\ UNCHANGED pc)
    BY <1>7 DEF TrackWrite, TrackRefused
  <2> QED  BY <1>3, <1>5, <1>7, <2>1
<1> QED  BY <1>1, <1>2, <1>3, <1>4, <1>6, <1>7 DEF Next, Handler

(* The keys of a stream that is connected are tracked, unless another      *)
(* stream that had not ended when it began has untracked the same key: for *)
(* all callers, callees and requests, however late writes are and however  *)
(* many of them etcd refuses.                                              *)
THEOREM TrackedUntilNamesakeLeaves == Spec => []TrackedUnlessNamesake
<1>1. TrackInv => TrackedUnlessNamesake
  BY DEF TrackInv, TrackedUnlessNamesake, HasTracked, Keys
<1> QED  BY <1>1, TrackInit, TrackStep, TypeCorrect, PTL DEF Spec
=============================================================================
