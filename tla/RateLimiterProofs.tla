------------------------- MODULE RateLimiterProofs -------------------------
(***************************************************************************)
(* Proofs about RateLimiter for every number of calls, addresses and cells *)
(* and every setting of the limiter.  The argument: a sweep only removes   *)
(* entries whose counter is zero; as long as counters are exact, those are *)
(* entries no closure points to; so closures always decrement the entry    *)
(* the map holds, which keeps the counters exact.  Cells are told apart by *)
(* the map being injective.                                                *)
(*                                                                         *)
(* The last part is the refinement of TokenBucket, under the hypotheses of *)
(* RateLimiterRefinement: a call reads the clock and takes the lock in one *)
(* tick, and a bucket is full again before its entry may be swept.  The    *)
(* first makes lastRefill and lastSeen of an entry equal (Punctual), so    *)
(* that by the second an entry that is swept stands for a full bucket, as  *)
(* no entry does (SweptIsFull).                                            *)
(***************************************************************************)
EXTENDS RateLimiterRefinement, FiniteSetTheorems, TLAPS

\* No two addresses share an entry.
EntriesDistinct ==
  \A a, b \in Addr : (entries[a] = entries[b] /\ entries[a] # NoCell) => a = b

\* The closure of an admitted call points to its address's entry.
HeldPoints ==
  \A c \in Call : phase[c] = "held" =>
    handle[c] \in Cell /\ entries[IpOf[c]] = handle[c]

\* The inductive invariant.
IInv == TypeOK /\ EntriesDistinct /\ HeldPoints /\ ActiveCountsInFlight

----------------------------------------------------------------------------
(***************************************************************************)
(* The entry operations of Acquire keep an entry well formed: tokens stay  *)
(* between zero and the capacity, and only Charged changes the counter.    *)
(***************************************************************************)
LEMMA CapacityType == Capacity \in Nat
BY LimiterAssumption DEF Capacity

LEMMA ProductNat ==
  ASSUME NEW m \in Nat, NEW n \in Nat
  PROVE  m * n \in Nat
OBVIOUS

\* The two updates of an entry, for a level that fits the bucket.
LEMMA EntryRefilled ==
  ASSUME NEW e \in Entry, NEW t \in 0 .. Capacity, NEW now \in Nat
  PROVE  /\ [e EXCEPT !.tokens = t, !.lastRefill = now] \in Entry
         /\ [e EXCEPT !.tokens = t, !.lastRefill = now].active = e.active
<1>1. [e EXCEPT !.tokens = t, !.lastRefill = now] \in Entry
  BY DEF Entry
<1>2. [e EXCEPT !.tokens = t, !.lastRefill = now].active = e.active
  BY DEF Entry
<1> QED
  BY <1>1, <1>2

LEMMA EntryCharged ==
  ASSUME NEW e \in Entry, NEW t \in 0 .. Capacity, NEW n \in Int
  PROVE  /\ [e EXCEPT !.tokens = t, !.active = n] \in Entry
         /\ [e EXCEPT !.tokens = t, !.active = n].active = n
<1>1. [e EXCEPT !.tokens = t, !.active = n] \in Entry
  BY DEF Entry
<1>2. [e EXCEPT !.tokens = t, !.active = n].active = n
  BY DEF Entry
<1> QED
  BY <1>1, <1>2

LEMMA RefillType ==
  ASSUME NEW e \in Entry, NEW now \in Nat
  PROVE  /\ Refill(e, now) \in Entry
         /\ Refill(e, now).active = e.active
<1>1. CASE now > e.lastRefill
  <2> DEFINE grown == e.tokens + (now - e.lastRefill) * Rate
             level == IF grown < Capacity THEN grown ELSE Capacity
  <2>1. (now - e.lastRefill) \in Nat
    BY <1>1 DEF Entry
  <2>2. (now - e.lastRefill) * Rate \in Nat
    BY <2>1, ProductNat, LimiterAssumption
  <2>3. grown \in Nat
    BY <2>2 DEF Entry
  <2>4. Refill(e, now) = [e EXCEPT !.tokens = level, !.lastRefill = now]
    BY <1>1 DEF Refill
  <2> HIDE DEF grown
  <2>5. level \in 0 .. Capacity
    BY <2>3, CapacityType
  <2> HIDE DEF level
  <2>6. /\ [e EXCEPT !.tokens = level, !.lastRefill = now] \in Entry
        /\ [e EXCEPT !.tokens = level, !.lastRefill = now].active = e.active
    BY <2>5, EntryRefilled, Zenon
  <2> QED
    BY <2>4, <2>6, Zenon
<1>2. CASE ~ (now > e.lastRefill)
  BY <1>2 DEF Refill
<1> QED
  BY <1>1, <1>2

LEMMA NewEntryType ==
  ASSUME NEW now \in Nat
  PROVE  NewEntry(now) \in Entry /\ NewEntry(now).active = 0
BY CapacityType DEF NewEntry, Entry

LEMMA TouchedType ==
  ASSUME NEW e \in Entry, NEW now \in Nat
  PROVE  /\ Touched(e, now) \in Entry
         /\ Touched(e, now).active = e.active
<1> DEFINE seen == [e EXCEPT !.lastSeen = now]
<1>1. seen \in Entry /\ seen.active = e.active
  BY DEF Entry
<1> QED
  BY <1>1, RefillType DEF Touched

LEMMA ChargedType ==
  ASSUME NEW e \in Entry, HasToken(e)
  PROVE  /\ Charged(e) \in Entry
         /\ Charged(e).active = e.active + 1
<1> DEFINE left  == IF Burst > 0 THEN e.tokens - TokenUnit ELSE e.tokens
           above == e.active + 1
<1>1. left \in 0 .. Capacity
  BY CapacityType, LimiterAssumption DEF HasToken, Entry
<1>2. above \in Int
  BY DEF Entry
<1>3. Charged(e) = [e EXCEPT !.tokens = left, !.active = above]
  BY DEF Charged
<1>4. /\ Charged(e) \in Entry
      /\ Charged(e).active = above
  <2> HIDE DEF left, above
  <2>1. /\ [e EXCEPT !.tokens = left, !.active = above] \in Entry
        /\ [e EXCEPT !.tokens = left, !.active = above].active = above
    BY <1>1, <1>2, EntryCharged, Zenon
  <2> QED
    BY <1>3, <2>1, Zenon
<1> QED
  BY <1>4

\* What Acquire finds or creates, and the counter it finds there.
LEMMA LookedType ==
  ASSUME TypeOK, NEW c \in Call, NEW k \in Cell
  PROVE  /\ Looked(c, k) \in Entry
         /\ Looked(c, k).active =
              IF Kept(stamp[c])[IpOf[c]] # NoCell THEN heap[k].active ELSE 0
<1>1. stamp[c] \in Nat /\ heap[k] \in Entry
  BY DEF TypeOK
<1>2. CASE Kept(stamp[c])[IpOf[c]] # NoCell
  BY <1>1, <1>2, TouchedType DEF Looked
<1>3. CASE ~ (Kept(stamp[c])[IpOf[c]] # NoCell)
  BY <1>1, <1>3, TouchedType, NewEntryType DEF Looked
<1> QED
  BY <1>2, <1>3

----------------------------------------------------------------------------
LEMMA LockedType ==
  ASSUME TypeOK, NEW c \in Call, NEW k \in Cell, NEW e \in Entry,
         Locked(c, k, e)
  PROVE  /\ clock' \in 0 .. MaxTime
         /\ entries' \in [Addr -> Cell \cup {NoCell}]
         /\ heap' \in [Cell -> Entry]
         /\ nextCleanup' \in Int
         /\ stamp' \in [Call -> Nat]
<1>1. stamp[c] \in Nat
  BY DEF TypeOK
<1>2. Kept(stamp[c]) \in [Addr -> Cell \cup {NoCell}]
  BY DEF Kept, TypeOK
<1>3. entries' \in [Addr -> Cell \cup {NoCell}]
  BY <1>2 DEF Locked
<1>4. Blank \in Entry
  BY NewEntryType DEF Blank
<1>5. heap' \in [Cell -> Entry]
  BY <1>4 DEF Locked, Stored, TypeOK
<1>6. nextCleanup' \in Int
  BY <1>1, LimiterAssumption DEF Locked, NextSweep, TypeOK
<1> QED
  BY <1>3, <1>5, <1>6 DEF Locked, TypeOK

LEMMA InitType == Init => TypeOK
<1> SUFFICES ASSUME Init PROVE TypeOK
  OBVIOUS
<1>1. Blank \in Entry
  BY NewEntryType DEF Blank
<1> QED
  BY <1>1, LimiterAssumption DEF Init, TypeOK, Phase

LEMMA NextType == TypeOK /\ [Next]_vars => TypeOK'
<1> SUFFICES ASSUME TypeOK, [Next]_vars PROVE TypeOK'
  OBVIOUS
<1>1. CASE UNCHANGED vars
  BY <1>1 DEF vars, TypeOK
<1>2. CASE Tick
  BY <1>2, LimiterAssumption DEF Tick, TypeOK
<1>3. ASSUME NEW c \in Call, CallAcquire(c) PROVE TypeOK'
  BY <1>3 DEF CallAcquire, TypeOK, Phase
<1>4. ASSUME NEW c \in Call, Admit(c) PROVE TypeOK'
  <2>1. PICK k \in Cell :
          /\ HasToken(Looked(c, k))
          /\ Locked(c, k, Charged(Looked(c, k)))
          /\ handle' = [handle EXCEPT ![c] = k]
    BY <1>4 DEF Admit
  <2>2. Charged(Looked(c, k)) \in Entry
    BY <2>1, LookedType, ChargedType
  <2>3. phase' \in [Call -> Phase] /\ handle' \in [Call -> Cell \cup {NoCell}]
    BY <1>4, <2>1 DEF Admit, TypeOK, Phase
  <2> QED
    BY <2>1, <2>2, <2>3, LockedType DEF TypeOK
<1>5. ASSUME NEW c \in Call, Refuse(c) PROVE TypeOK'
  <2>1. PICK k \in Cell : Locked(c, k, Looked(c, k))
    BY <1>5 DEF Refuse
  <2>2. Looked(c, k) \in Entry
    BY LookedType
  <2>3. phase' \in [Call -> Phase] /\ handle' \in [Call -> Cell \cup {NoCell}]
    BY <1>5 DEF Refuse, TypeOK, Phase
  <2> QED
    BY <2>1, <2>2, <2>3, LockedType DEF TypeOK
<1>6. ASSUME NEW c \in Call, Release(c) PROVE TypeOK'
  <2>1. \A e \in Entry, r \in BOOLEAN : Dropped(e, r) \in Entry
    BY DEF Dropped, Entry
  <2>2. heap' \in [Cell -> Entry]
    BY <1>6, <2>1 DEF Release, TypeOK
  <2> QED
    BY <1>6, <2>2 DEF Release, TypeOK, Phase
<1>7. ASSUME NEW c \in Call, Return(c) PROVE TypeOK'
  BY <1>7 DEF Return, TypeOK, Phase
<1> QED
  BY <1>1, <1>2, <1>3, <1>4, <1>5, <1>6, <1>7 DEF Next

(***************************************************************************)
(* Type correctness: in particular no bucket is ever overdrawn or filled   *)
(* beyond its capacity.                                                    *)
(***************************************************************************)
THEOREM TypeCorrect == Spec => []TypeOK
BY InitType, NextType, PTL DEF Spec

----------------------------------------------------------------------------
\* Counting the tests in flight.
LEMMA InFlightFinite ==
  ASSUME NEW a \in Addr
  PROVE  IsFiniteSet(InFlight(a)) /\ Cardinality(InFlight(a)) \in Nat
<1>1. InFlight(a) \subseteq Call
  BY DEF InFlight
<1>2. IsFiniteSet(InFlight(a))
  BY <1>1, FS_Subset, LimiterAssumption
<1> QED
  BY <1>2, FS_CardinalityType

\* A sweep changes nothing but the entries it drops.
LEMMA KeptType ==
  ASSUME NEW now \in Nat, NEW a \in Addr
  PROVE  Kept(now)[a] \in {entries[a], NoCell}
BY DEF Kept

(***************************************************************************)
(* The sweep spares the entry of an address with a test in flight: its     *)
(* counter equals the number of tests in flight, which is not zero.        *)
(***************************************************************************)
LEMMA KeptHeld ==
  ASSUME IInv, NEW now \in Nat, NEW a \in Addr, InFlight(a) # {}
  PROVE  Kept(now)[a] = entries[a] /\ entries[a] \in Cell
<1>1. PICK d \in Call : phase[d] = "held" /\ IpOf[d] = a
  BY DEF InFlight
<1>2. entries[a] \in Cell /\ entries[a] # NoCell
  BY <1>1, LimiterAssumption DEF IInv, HeldPoints
<1>3. Cardinality(InFlight(a)) # 0
  BY InFlightFinite, FS_EmptySet
<1>4. heap[entries[a]].active # 0
  BY <1>2, <1>3 DEF IInv, ActiveCountsInFlight
<1>5. ~ Expired(heap[entries[a]], now)
  BY <1>4 DEF Expired
<1> QED
  BY <1>2, <1>5 DEF Kept

(***************************************************************************)
(* The counter Acquire finds, or creates, is the number of tests in flight *)
(* for its address, also right after a sweep.                              *)
(***************************************************************************)
LEMMA LookedCounts ==
  ASSUME IInv, NEW c \in Call, NEW k \in Cell, Target(c, k)
  PROVE  Looked(c, k).active = Cardinality(InFlight(IpOf[c]))
<1> DEFINE ip == IpOf[c]
<1>1. ip \in Addr /\ stamp[c] \in Nat
  BY LimiterAssumption DEF IInv, TypeOK
<1>2. CASE Kept(stamp[c])[ip] # NoCell
  <2>1. k = entries[ip] /\ entries[ip] # NoCell
    BY <1>1, <1>2, KeptType DEF Target
  <2>2. Looked(c, k).active = heap[k].active
    BY <1>2, LookedType DEF IInv
  <2> QED
    BY <1>1, <2>1, <2>2 DEF IInv, ActiveCountsInFlight
<1>3. CASE Kept(stamp[c])[ip] = NoCell
  <2>1. InFlight(ip) = {}
    BY <1>1, <1>3, KeptHeld, LimiterAssumption
  <2>2. Looked(c, k).active = 0
    BY <1>3, LookedType DEF IInv
  <2> QED
    BY <2>1, <2>2, FS_EmptySet
<1> QED
  BY <1>2, <1>3

(***************************************************************************)
(* What the locked body leaves behind: the caller's entry in its cell, and *)
(* of the others, those the sweep kept, as they were.  Every closure still *)
(* points to the entry the map holds.                                      *)
(***************************************************************************)
LEMMA LockedSlots ==
  ASSUME IInv, NEW c \in Call, NEW k \in Cell, Target(c, k),
         NEW e \in Entry, Locked(c, k, e)
  PROVE  /\ entries'[IpOf[c]] = k /\ heap'[k] = e
         /\ \A a \in Addr \ {IpOf[c]} : entries'[a] # NoCell =>
              /\ entries'[a] # k
              /\ entries'[a] = entries[a]
              /\ heap'[entries'[a]] = heap[entries[a]]
         /\ EntriesDistinct'
         /\ \A d \in Call : phase[d] = "held" => entries'[IpOf[d]] = handle[d]
<1> DEFINE ip == IpOf[c]
           kept == Kept(stamp[c])
<1>1. ip \in Addr /\ stamp[c] \in Nat /\ k # NoCell
  BY LimiterAssumption DEF IInv, TypeOK
<1>2. kept \in [Addr -> Cell \cup {NoCell}]
  BY DEF Kept, IInv, TypeOK
<1>3. entries' = [kept EXCEPT ![ip] = k] /\ heap' = Stored(k, e, entries')
  BY DEF Locked
<1>4. kept[ip] \in {entries[ip], NoCell}
  BY <1>1, KeptType
<1>5. IF kept[ip] # NoCell THEN k = kept[ip] ELSE \A a \in Addr : entries[a] # k
  BY DEF Target
<1> HIDE DEF ip, kept
<1>6. entries'[ip] = k /\ heap'[k] = e
  BY <1>1, <1>2, <1>3 DEF Stored
<1>7. ASSUME NEW a \in Addr, a # ip, entries'[a] # NoCell
      PROVE  /\ entries'[a] # k
             /\ entries'[a] = entries[a]
             /\ heap'[entries'[a]] = heap[entries[a]]
  <2>1. entries'[a] = entries[a] /\ entries[a] \in Cell
    BY <1>1, <1>2, <1>3, <1>7, KeptType DEF kept, IInv, TypeOK
  <2>2. ASSUME kept[ip] # NoCell PROVE entries'[a] # k
    <3>1. k = entries[ip] /\ entries[ip] # NoCell
      BY <1>1, <1>4, <1>5, <2>2
    <3>2. entries[a] # entries[ip]
      BY <1>1, <1>7, <3>1 DEF IInv, EntriesDistinct
    <3> QED
      BY <2>1, <3>1, <3>2
  <2>3. ASSUME kept[ip] = NoCell PROVE entries'[a] # k
    BY <1>5, <2>1, <2>3
  <2>4. entries'[a] # k
    BY <2>2, <2>3
  <2>5. heap'[entries'[a]] = heap[entries[a]]
    BY <1>3, <2>1, <2>4 DEF Stored
  <2> QED
    BY <2>1, <2>4, <2>5
<1>8. EntriesDistinct'
  BY <1>6, <1>7 DEF IInv, EntriesDistinct
<1>9. ASSUME NEW d \in Call, phase[d] = "held"
      PROVE  entries'[IpOf[d]] = handle[d]
  <2>1. IpOf[d] \in Addr /\ d \in InFlight(IpOf[d])
    BY <1>9, LimiterAssumption DEF InFlight
  <2>2. kept[IpOf[d]] = entries[IpOf[d]] /\ entries[IpOf[d]] \in Cell
    BY <1>1, <2>1, KeptHeld DEF kept
  <2>3. entries[IpOf[d]] = handle[d]
    BY <1>9 DEF IInv, HeldPoints
  <2>4. CASE IpOf[d] = ip
    BY <1>6, <1>5, <2>2, <2>3, <2>4, LimiterAssumption
  <2>5. CASE IpOf[d] # ip
    BY <1>2, <1>3, <2>1, <2>2, <2>3, <2>5
  <2> QED
    BY <2>4, <2>5
<1> QED
  BY <1>6, <1>7, <1>8, <1>9 DEF ip

----------------------------------------------------------------------------
LEMMA InitIInv == Init => IInv
<1> SUFFICES ASSUME Init PROVE IInv
  OBVIOUS
<1>1. TypeOK
  BY InitType
<1>2. EntriesDistinct /\ HeldPoints /\ ActiveCountsInFlight
  BY DEF Init, EntriesDistinct, HeldPoints, ActiveCountsInFlight
<1> QED
  BY <1>1, <1>2 DEF IInv

(***************************************************************************)
(* Steps of Acquire.  k is the cell it works on and e the entry it leaves. *)
(***************************************************************************)
LEMMA AdmitIInv ==
  ASSUME IInv, NEW c \in Call, Admit(c)
  PROVE  /\ EntriesDistinct' /\ HeldPoints' /\ ActiveCountsInFlight'
         /\ GateHolds => GateHolds'
<1>1. PICK k \in Cell :
        /\ Target(c, k)
        /\ GateOpen(Looked(c, k))
        /\ HasToken(Looked(c, k))
        /\ Locked(c, k, Charged(Looked(c, k)))
        /\ handle' = [handle EXCEPT ![c] = k]
  BY DEF Admit
<1> DEFINE ip == IpOf[c]
           e  == Charged(Looked(c, k))
<1>2. ip \in Addr /\ k # NoCell
  BY LimiterAssumption
<1>3. e \in Entry /\ e.active = Cardinality(InFlight(ip)) + 1
  <2>1. Looked(c, k) \in Entry
    BY LookedType DEF IInv
  <2> QED
    BY <1>1, <2>1, ChargedType, LookedCounts
<1>4. phase[c] = "called" /\ phase' = [phase EXCEPT ![c] = "held"]
  BY DEF Admit
<1>5. InFlight(ip)' = InFlight(ip) \cup {c} /\ c \notin InFlight(ip)
  BY <1>4 DEF InFlight, IInv, TypeOK
<1>6. Cardinality(InFlight(ip)') = Cardinality(InFlight(ip)) + 1
  BY <1>2, <1>5, InFlightFinite, FS_AddElement
<1>7. \A a \in Addr : a # ip => InFlight(a)' = InFlight(a)
  BY <1>4 DEF InFlight, IInv, TypeOK
<1>8. /\ entries'[ip] = k /\ heap'[k] = e
      /\ \A a \in Addr \ {ip} : entries'[a] # NoCell =>
           /\ entries'[a] = entries[a]
           /\ heap'[entries'[a]] = heap[entries[a]]
      /\ EntriesDistinct'
      /\ \A d \in Call : phase[d] = "held" => entries'[IpOf[d]] = handle[d]
  BY <1>1, <1>3, LockedSlots
<1>9. HeldPoints'
  <2> SUFFICES ASSUME NEW d \in Call, phase'[d] = "held"
               PROVE  handle'[d] \in Cell /\ entries'[IpOf[d]] = handle'[d]
    BY DEF HeldPoints
  <2>1. CASE d = c
    BY <1>1, <1>8, <2>1 DEF IInv, TypeOK
  <2>2. CASE d # c
    BY <1>1, <1>4, <1>8, <2>2 DEF IInv, TypeOK, HeldPoints
  <2> QED
    BY <2>1, <2>2
<1> HIDE DEF e, ip
<1>10. ActiveCountsInFlight'
  <2> SUFFICES ASSUME NEW a \in Addr, entries'[a] # NoCell
               PROVE  heap'[entries'[a]].active = Cardinality(InFlight(a)')
    BY DEF ActiveCountsInFlight
  <2>1. CASE a = ip
    BY <1>3, <1>6, <1>8, <2>1
  <2>2. CASE a # ip
    BY <1>7, <1>8, <2>2 DEF IInv, ActiveCountsInFlight
  <2> QED
    BY <2>1, <2>2
<1>11. ASSUME GateHolds PROVE GateHolds'
  <2> SUFFICES ASSUME PerIP > 0, NEW a \in Addr
               PROVE  Cardinality(InFlight(a)') <= PerIP
    BY DEF GateHolds
  <2>1. CASE a = ip
    <3>1. Cardinality(InFlight(ip)) < PerIP
      BY <1>1, LookedCounts DEF GateOpen, ip
    <3> QED
      BY <1>2, <1>6, <2>1, <3>1, InFlightFinite, LimiterAssumption
  <2>2. CASE a # ip
    BY <1>7, <1>11, <2>2 DEF GateHolds
  <2> QED
    BY <2>1, <2>2
<1> QED
  BY <1>8, <1>9, <1>10, <1>11

LEMMA RefuseIInv ==
  ASSUME IInv, NEW c \in Call, Refuse(c)
  PROVE  /\ EntriesDistinct' /\ HeldPoints' /\ ActiveCountsInFlight'
         /\ GateHolds => GateHolds'
<1>1. PICK k \in Cell : Target(c, k) /\ Locked(c, k, Looked(c, k))
  BY DEF Refuse
<1> DEFINE ip == IpOf[c]
           e  == Looked(c, k)
<1>2. ip \in Addr /\ k # NoCell
  BY LimiterAssumption
<1>3. e \in Entry /\ e.active = Cardinality(InFlight(ip))
  BY <1>1, LookedType, LookedCounts DEF IInv
<1>4. /\ phase[c] = "called" /\ phase' = [phase EXCEPT ![c] = "refused"]
      /\ handle' = handle
  BY DEF Refuse
<1>5. \A d \in Call : phase'[d] = "held" <=> phase[d] = "held"
  BY <1>4 DEF IInv, TypeOK
<1>6. \A a \in Addr : InFlight(a)' = InFlight(a)
  BY <1>5 DEF InFlight
<1>7. /\ entries'[ip] = k /\ heap'[k] = e
      /\ \A a \in Addr \ {ip} : entries'[a] # NoCell =>
           /\ entries'[a] = entries[a]
           /\ heap'[entries'[a]] = heap[entries[a]]
      /\ EntriesDistinct'
      /\ \A d \in Call : phase[d] = "held" => entries'[IpOf[d]] = handle[d]
  BY <1>1, <1>3, LockedSlots
<1>8. HeldPoints'
  BY <1>4, <1>5, <1>7 DEF IInv, HeldPoints
<1> HIDE DEF e, ip
<1>9. ActiveCountsInFlight'
  <2> SUFFICES ASSUME NEW a \in Addr, entries'[a] # NoCell
               PROVE  heap'[entries'[a]].active = Cardinality(InFlight(a)')
    BY DEF ActiveCountsInFlight
  <2>1. CASE a = ip
    BY <1>3, <1>6, <1>7, <2>1
  <2>2. CASE a # ip
    BY <1>6, <1>7, <2>2 DEF IInv, ActiveCountsInFlight
  <2> QED
    BY <2>1, <2>2
<1>10. GateHolds => GateHolds'
  BY <1>6 DEF GateHolds
<1> QED
  BY <1>7, <1>8, <1>9, <1>10

(***************************************************************************)
(* The first run of a closure decrements the counter of its own address    *)
(* and of no other; any further run changes nothing.                       *)
(***************************************************************************)
LEMMA ReleaseIInv ==
  ASSUME IInv, NEW c \in Call, Release(c)
  PROVE  /\ EntriesDistinct' /\ HeldPoints' /\ ActiveCountsInFlight'
         /\ GateHolds => GateHolds'
<1> DEFINE ip == IpOf[c]
<1>1. /\ entries' = entries /\ handle' = handle
      /\ phase' = [phase EXCEPT ![c] = "released"]
      /\ heap' = [heap EXCEPT ![handle[c]] = Dropped(@, phase[c] = "released")]
  BY DEF Release
<1>2. ip \in Addr
  BY LimiterAssumption
<1>3. EntriesDistinct'
  BY <1>1 DEF IInv, EntriesDistinct
<1>4. HeldPoints'
  BY <1>1 DEF IInv, TypeOK, HeldPoints
<1>5. \A a \in Addr : a # ip => InFlight(a)' = InFlight(a)
  BY <1>1 DEF InFlight, IInv, TypeOK
<1>6. CASE phase[c] = "held"
  <2>1. entries[ip] = handle[c] /\ handle[c] \in Cell
    BY <1>6 DEF IInv, HeldPoints
  <2>2. InFlight(ip)' = InFlight(ip) \ {c} /\ c \in InFlight(ip)
    BY <1>1, <1>6 DEF InFlight, IInv, TypeOK
  <2>3. Cardinality(InFlight(ip)') = Cardinality(InFlight(ip)) - 1
    BY <1>2, <2>2, InFlightFinite, FS_RemoveElement
  <2>4. heap'[handle[c]].active = heap[handle[c]].active - 1
    BY <1>1, <1>6, <2>1 DEF Dropped, IInv, TypeOK, Entry
  <2>5. \A a \in Addr : (a # ip /\ entries[a] # NoCell) =>
                          heap'[entries[a]] = heap[entries[a]]
    BY <1>1, <1>2, <2>1, LimiterAssumption DEF IInv, TypeOK, EntriesDistinct
  <2>6. ActiveCountsInFlight'
    <3> SUFFICES ASSUME NEW a \in Addr, entries'[a] # NoCell
                 PROVE  heap'[entries'[a]].active = Cardinality(InFlight(a)')
      BY DEF ActiveCountsInFlight
    <3>1. heap[entries[a]].active = Cardinality(InFlight(a))
      BY <1>1 DEF IInv, ActiveCountsInFlight
    <3>2. CASE a = ip
      BY <1>1, <2>1, <2>3, <2>4, <3>1, <3>2
    <3>3. CASE a # ip
      BY <1>1, <1>5, <2>5, <3>1, <3>3
    <3> QED
      BY <3>2, <3>3
  <2>7. ASSUME GateHolds PROVE GateHolds'
    <3> SUFFICES ASSUME PerIP > 0, NEW a \in Addr
                 PROVE  Cardinality(InFlight(a)') <= PerIP
      BY DEF GateHolds
    <3>1. Cardinality(InFlight(a)) <= PerIP
      BY <2>7 DEF GateHolds
    <3>2. CASE a = ip
      BY <2>3, <3>1, <3>2, InFlightFinite, LimiterAssumption
    <3>3. CASE a # ip
      BY <1>5, <3>1, <3>3
    <3> QED
      BY <3>2, <3>3
  <2> QED
    BY <1>3, <1>4, <2>6, <2>7
<1>7. CASE phase[c] # "held"
  <2>1. phase[c] = "released"
    BY <1>7 DEF Release
  <2>2. heap' = heap
    BY <1>1, <2>1 DEF Dropped, IInv, TypeOK
  <2>3. \A a \in Addr : InFlight(a)' = InFlight(a)
    BY <1>1, <2>1 DEF InFlight, IInv, TypeOK
  <2> QED
    BY <1>1, <1>3, <1>4, <2>2, <2>3
       DEF IInv, ActiveCountsInFlight, GateHolds
<1> QED
  BY <1>6, <1>7

\* A step that neither starts nor ends a test, nor touches the map.
LEMMA QuietIInv ==
  ASSUME IInv, UNCHANGED <<entries, heap>>,
         \A d \in Call : phase'[d] = "held" <=> phase[d] = "held",
         \A d \in Call : phase[d] = "held" => handle'[d] = handle[d]
  PROVE  /\ EntriesDistinct' /\ HeldPoints' /\ ActiveCountsInFlight'
         /\ GateHolds => GateHolds'
<1>1. \A a \in Addr : InFlight(a)' = InFlight(a)
  BY DEF InFlight
<1> QED
  BY <1>1 DEF IInv, EntriesDistinct, HeldPoints, ActiveCountsInFlight, GateHolds

LEMMA NextIInv ==
  ASSUME IInv, [Next]_vars
  PROVE  IInv' /\ (GateHolds => GateHolds')
<1>1. TypeOK'
  BY NextType DEF IInv
<1>2. CASE UNCHANGED vars
  BY <1>1, <1>2, QuietIInv DEF vars, IInv
<1>3. CASE Tick
  BY <1>1, <1>3, QuietIInv DEF Tick, IInv
<1>4. ASSUME NEW c \in Call, CallAcquire(c)
      PROVE  IInv' /\ (GateHolds => GateHolds')
  BY <1>1, <1>4, QuietIInv DEF CallAcquire, IInv, TypeOK
<1>5. ASSUME NEW c \in Call, Admit(c)
      PROVE  IInv' /\ (GateHolds => GateHolds')
  BY <1>1, <1>5, AdmitIInv DEF IInv
<1>6. ASSUME NEW c \in Call, Refuse(c)
      PROVE  IInv' /\ (GateHolds => GateHolds')
  BY <1>1, <1>6, RefuseIInv DEF IInv
<1>7. ASSUME NEW c \in Call, Release(c)
      PROVE  IInv' /\ (GateHolds => GateHolds')
  BY <1>1, <1>7, ReleaseIInv DEF IInv
<1>8. ASSUME NEW c \in Call, Return(c)
      PROVE  IInv' /\ (GateHolds => GateHolds')
  BY <1>1, <1>8, QuietIInv DEF Return, IInv, TypeOK
<1> QED
  BY <1>2, <1>3, <1>4, <1>5, <1>6, <1>7, <1>8 DEF Next

LEMMA InitGate == Init => GateHolds
<1> SUFFICES ASSUME Init PROVE GateHolds
  OBVIOUS
<1>1. \A a \in Addr : InFlight(a) = {}
  BY DEF Init, InFlight
<1> QED
  BY <1>1, FS_EmptySet, LimiterAssumption DEF GateHolds

(***************************************************************************)
(* The counters are exact in every reachable state of every instance.      *)
(***************************************************************************)
THEOREM CountersExact == Spec => []ActiveCountsInFlight
<1>1. IInv => ActiveCountsInFlight
  BY DEF IInv
<1> QED
  BY <1>1, InitIInv, NextIInv, PTL DEF Spec

(***************************************************************************)
(* A release closure always points to the entry the map holds: no sweep    *)
(* ever separates the two.                                                 *)
(***************************************************************************)
THEOREM ClosuresLive == Spec => []HeldEntryIsLive
<1>1. IInv => HeldEntryIsLive
  BY DEF IInv, HeldPoints, HeldEntryIsLive
<1> QED
  BY <1>1, InitIInv, NextIInv, PTL DEF Spec

(***************************************************************************)
(* The concurrency gate: never more than PerIP tests of one address.       *)
(***************************************************************************)
THEOREM GateCorrect == Spec => []GateHolds
BY InitIInv, InitGate, NextIInv, PTL DEF Spec

----------------------------------------------------------------------------
(* RateLimiter implements TokenBucket.                                     *)

\* What Lag = 0 adds to the invariant of the limiter.
Punctual ==
  /\ \A c \in Call : phase[c] = "called" => stamp[c] = clock
  /\ \A a \in Addr : entries[a] # NoCell =>
       /\ heap[entries[a]].lastRefill <= clock
       /\ heap[entries[a]].lastSeen = heap[entries[a]].lastRefill

RInv == IInv /\ Punctual

----------------------------------------------------------------------------
(* Buckets.                                                                *)

\* The tokens of an entry when it is brought forward to t.
LEMMA LevelAt ==
  ASSUME NEW e \in Entry, NEW t \in Nat
  PROVE  Refill(e, t).tokens =
           IF t > e.lastRefill
           THEN IF e.tokens + (t - e.lastRefill) * Rate < Capacity
                THEN e.tokens + (t - e.lastRefill) * Rate ELSE Capacity
           ELSE e.tokens
<1>1. CASE t > e.lastRefill
  <2> DEFINE grown == e.tokens + (t - e.lastRefill) * Rate
             level == IF grown < Capacity THEN grown ELSE Capacity
  <2>1. Refill(e, t) = [e EXCEPT !.tokens = level, !.lastRefill = t]
    BY <1>1 DEF Refill
  <2> HIDE DEF level
  <2>2. Refill(e, t).tokens = level
    BY <2>1 DEF Entry
  <2>3. QED
    BY <1>1, <2>2 DEF level
<1>2. CASE ~ (t > e.lastRefill)
  BY <1>2 DEF Refill
<1>3. QED
  BY <1>1, <1>2

\* Only tokens and lastRefill count.
LEMMA LevelDepends ==
  ASSUME NEW e \in Entry, NEW f \in Entry, NEW t \in Nat,
         e.tokens = f.tokens, e.lastRefill = f.lastRefill
  PROVE  Refill(e, t).tokens = Refill(f, t).tokens
BY LevelAt

\* One more tick brings Rate, up to the capacity.
LEMMA LevelNext ==
  ASSUME NEW e \in Entry, NEW t \in Nat, e.lastRefill <= t
  PROVE  Refill(e, t + 1).tokens =
           IF Refill(e, t).tokens + Rate < Capacity
           THEN Refill(e, t).tokens + Rate ELSE Capacity
<1> DEFINE gain == (t - e.lastRefill) * Rate
           more == (t + 1 - e.lastRefill) * Rate
           now  == Refill(e, t).tokens
<1>1. e.tokens \in Nat /\ e.tokens <= Capacity /\ e.lastRefill \in Nat
      /\ Rate \in Nat /\ Capacity \in Nat /\ t \in Nat
  BY CapacityType, LimiterAssumption DEF Entry
<1>2. gain \in Nat /\ more = gain + Rate /\ (t = e.lastRefill => gain = 0)
  <2>1. PICK d \in Nat : d = t - e.lastRefill
    BY <1>1
  <2>2. t + 1 - e.lastRefill = d + 1 /\ d * Rate \in Nat
    BY <1>1, <2>1, ProductNat
  <2>3. (d + 1) * Rate = d * Rate + Rate
    BY <1>1, <2>1
  <2>4. d = 0 => d * Rate = 0
    BY <1>1
  <2>5. QED
    BY <1>1, <2>1, <2>2, <2>3, <2>4
<1>3. Refill(e, t + 1).tokens =
        IF e.tokens + more < Capacity THEN e.tokens + more ELSE Capacity
  BY <1>1, LevelAt
<1>4. now = IF t > e.lastRefill
            THEN IF e.tokens + gain < Capacity THEN e.tokens + gain ELSE Capacity
            ELSE e.tokens
  BY LevelAt
<1> HIDE DEF gain, more, now
<1>5. Refill(e, t + 1).tokens =
        IF now + Rate < Capacity THEN now + Rate ELSE Capacity
  BY <1>1, <1>2, <1>3, <1>4
<1>6. QED
  BY <1>5 DEF now

LEMMA ProductSum ==
  ASSUME NEW m \in Nat, NEW n \in Nat, NEW r \in Nat
  PROVE  (m + n) * r = r * m + n * r
OBVIOUS

\* What is swept was full.
LEMMA SweptIsFull ==
  ASSUME Lag = 0, EvictionIsHarmless, NEW e \in Entry, NEW t \in Nat,
         Expired(e, t), e.lastSeen = e.lastRefill
  PROVE  Refill(e, t).tokens = Capacity
<1>1. /\ e.tokens \in Nat /\ e.lastRefill \in Nat /\ IdleTTL \in Nat
      /\ Rate \in Nat /\ Capacity \in Nat
  BY CapacityType, LimiterAssumption DEF Entry
<1>2. t - e.lastRefill > IdleTTL /\ Capacity <= Rate * IdleTTL
  BY <1>1 DEF Expired, EvictionIsHarmless
<1> DEFINE d == t - e.lastRefill - IdleTTL
<1>3. d \in Nat /\ t - e.lastRefill = IdleTTL + d
  BY <1>1, <1>2
<1> HIDE DEF d
<1>4. (IdleTTL + d) * Rate = Rate * IdleTTL + d * Rate
  BY <1>1, <1>3, ProductSum
<1>5. d * Rate \in Nat /\ Rate * IdleTTL \in Nat
  BY <1>1, <1>3, ProductNat
<1>6. e.tokens + (t - e.lastRefill) * Rate >= Capacity
  BY <1>1, <1>2, <1>3, <1>4, <1>5
<1>7. QED
  <2>1. t > e.lastRefill
    BY <1>1, <1>2
  <2>2. (t - e.lastRefill) * Rate \in Nat
    BY <1>1, <1>2, ProductNat
  <2>3. QED
    BY <1>1, <1>6, <2>1, <2>2, LevelAt

LEMMA TouchedFields ==
  ASSUME NEW e \in Entry, NEW t \in Nat, e.lastRefill <= t
  PROVE  LET f == Touched(e, t) IN
         /\ f.tokens = Refill(e, t).tokens /\ f.lastRefill = t /\ f.lastSeen = t
<1> DEFINE seen == [e EXCEPT !.lastSeen = t]
<1>1. seen \in Entry /\ seen.tokens = e.tokens /\ seen.lastRefill = e.lastRefill
      /\ seen.lastSeen = t
  BY DEF Entry
<1> HIDE DEF seen
<1>2. Refill(seen, t).tokens = Refill(e, t).tokens
  BY <1>1, LevelDepends
<1>3. Refill(seen, t).lastRefill = t /\ Refill(seen, t).lastSeen = t
  <2>1. CASE t > seen.lastRefill
    <3> DEFINE grown == seen.tokens + (t - seen.lastRefill) * Rate
               level == IF grown < Capacity THEN grown ELSE Capacity
    <3>1. Refill(seen, t) = [seen EXCEPT !.tokens = level, !.lastRefill = t]
      BY <2>1 DEF Refill
    <3> HIDE DEF level
    <3>2. QED
      BY <1>1, <3>1 DEF Entry
  <2>2. CASE ~ (t > seen.lastRefill)
    <3>1. Refill(seen, t) = seen /\ seen.lastRefill \in Nat
      BY <1>1, <2>2 DEF Refill, Entry
    <3>2. QED
      BY <1>1, <2>2, <3>1
  <2>3. QED
    BY <2>1, <2>2
<1>4. Touched(e, t) = Refill(seen, t)
  BY DEF Touched, seen
<1>5. QED
  BY <1>2, <1>3, <1>4

LEMMA ChargedFields ==
  ASSUME NEW e \in Entry
  PROVE  /\ Charged(e).lastRefill = e.lastRefill /\ Charged(e).lastSeen = e.lastSeen
         /\ Charged(e).tokens = IF Burst > 0 THEN e.tokens - TokenUnit ELSE e.tokens
BY DEF Charged, Entry

----------------------------------------------------------------------------
(* The invariant.                                                          *)

LEMMA CalledNow ==
  ASSUME RInv, NEW c \in Call, phase[c] = "called"
  PROVE  stamp[c] = clock /\ clock \in Nat /\ IpOf[c] \in Addr
BY LimiterAssumption DEF RInv, IInv, TypeOK, Punctual

\* What is in the map, with its times.
LEMMA EntryNow ==
  ASSUME RInv, NEW a \in Addr, entries[a] # NoCell
  PROVE  LET e == heap[entries[a]] IN
         e \in Entry /\ e.lastRefill <= clock /\ e.lastSeen = e.lastRefill
BY DEF RInv, IInv, TypeOK, Punctual

\* Acquire finds the bucket at its abstract level, and brings it up to date.
LEMMA LookedNow ==
  ASSUME Lag = 0, EvictionIsHarmless, RInv,
         NEW c \in Call, phase[c] = "called", NEW k \in Cell, Target(c, k)
  PROVE  LET e == Looked(c, k) IN
         /\ e \in Entry
         /\ e.lastRefill = clock /\ e.lastSeen = clock
         /\ e.tokens = levelBar[IpOf[c]]
<1> DEFINE ip == IpOf[c]
<1>1. stamp[c] = clock /\ clock \in Nat /\ ip \in Addr
  BY CalledNow
<1>2. Looked(c, k) \in Entry
  BY LookedType DEF RInv, IInv
<1>3. Kept(clock)[ip] \in {entries[ip], NoCell}
  BY <1>1, KeptType
<1>4. CASE Kept(clock)[ip] # NoCell
  <2>1. k = entries[ip] /\ entries[ip] # NoCell
    BY <1>1, <1>3, <1>4 DEF Target
  <2>2. Looked(c, k) = Touched(heap[k], clock)
    BY <1>1, <1>4 DEF Looked
  <2>3. heap[k] \in Entry /\ heap[k].lastRefill <= clock
    BY <1>1, <2>1, EntryNow
  <2>4. levelBar[ip] = Refill(heap[k], clock).tokens
    BY <1>1, <2>1 DEF levelBar
  <2>5. QED
    BY <1>1, <1>2, <2>2, <2>3, <2>4, TouchedFields
<1>5. CASE Kept(clock)[ip] = NoCell
  <2> DEFINE new == NewEntry(clock)
  <2>1. Looked(c, k) = Touched(new, clock)
    BY <1>1, <1>5 DEF Looked
  <2>2. new \in Entry /\ new.lastRefill = clock /\ new.tokens = Capacity
    BY <1>1, NewEntryType DEF NewEntry
  <2> HIDE DEF new
  <2>3. Refill(new, clock).tokens = Capacity
    BY <1>1, <2>2, LevelAt
  <2>4. levelBar[ip] = Capacity
    <3>1. CASE entries[ip] = NoCell
      BY <1>1, <3>1 DEF levelBar
    <3>2. CASE entries[ip] # NoCell
      <4>1. Expired(heap[entries[ip]], clock)
        BY <1>1, <1>5, <3>2 DEF Kept
      <4>2. Refill(heap[entries[ip]], clock).tokens = Capacity
        BY <1>1, <3>2, <4>1, EntryNow, SweptIsFull
      <4>3. QED
        BY <1>1, <3>2, <4>2 DEF levelBar
    <3>3. QED
      BY <3>1, <3>2
  <2>5. QED
    BY <1>1, <1>2, <2>1, <2>2, <2>3, <2>4, TouchedFields
<1>6. QED
  BY <1>4, <1>5

\* The locked body touches one bucket.
LEMMA LockedLevels ==
  ASSUME Lag = 0, EvictionIsHarmless, RInv,
         NEW c \in Call, phase[c] = "called", NEW k \in Cell, Target(c, k),
         NEW e \in Entry, Locked(c, k, e), e.lastRefill = clock, e.lastSeen = clock
  PROVE  /\ levelBar' = [levelBar EXCEPT ![IpOf[c]] = e.tokens]
         /\ \A a \in Addr : entries'[a] # NoCell =>
              /\ heap'[entries'[a]].lastRefill <= clock'
              /\ heap'[entries'[a]].lastSeen = heap'[entries'[a]].lastRefill
<1> DEFINE ip == IpOf[c]
<1>1. stamp[c] = clock /\ clock \in Nat /\ ip \in Addr /\ clock' = clock
  BY CalledNow DEF Locked
<1>2. /\ entries'[ip] = k /\ heap'[k] = e /\ k # NoCell
      /\ \A a \in Addr \ {ip} : entries'[a] # NoCell =>
           /\ entries'[a] = entries[a]
           /\ heap'[entries'[a]] = heap[entries[a]]
  BY LockedSlots, LimiterAssumption DEF RInv
<1>3. levelBar'[ip] = e.tokens
  <2>1. levelBar'[ip] = Refill(e, clock).tokens
    BY <1>1, <1>2 DEF levelBar
  <2>2. QED
    BY <1>1, <2>1, LevelAt
<1>4. ASSUME NEW a \in Addr, a # ip PROVE levelBar'[a] = levelBar[a]
  <2>1. CASE entries'[a] # NoCell
    BY <1>1, <1>2, <1>4, <2>1 DEF levelBar
  <2>2. CASE entries'[a] = NoCell /\ entries[a] = NoCell
    BY <2>2 DEF levelBar
  <2>3. CASE entries'[a] = NoCell /\ entries[a] # NoCell
    <3>1. entries' = [Kept(stamp[c]) EXCEPT ![ip] = k]
      BY DEF Locked
    <3>2. Kept(clock)[a] = NoCell
      BY <1>1, <1>4, <2>3, <3>1 DEF Kept
    <3>3. Expired(heap[entries[a]], clock)
      BY <2>3, <3>2 DEF Kept
    <3>4. Refill(heap[entries[a]], clock).tokens = Capacity
      BY <1>1, <2>3, <3>3, EntryNow, SweptIsFull
    <3>5. QED
      BY <2>3, <3>4 DEF levelBar
  <2>4. QED
    BY <2>1, <2>2, <2>3
<1>5. levelBar' = [levelBar EXCEPT ![ip] = e.tokens]
  <2>1. /\ levelBar = [a \in Addr |-> levelBar[a]]
        /\ levelBar' = [a \in Addr |-> levelBar'[a]]
    BY DEF levelBar
  <2>2. QED
    BY <1>3, <1>4, <2>1
<1>6. ASSUME NEW a \in Addr, entries'[a] # NoCell
      PROVE  /\ heap'[entries'[a]].lastRefill <= clock'
             /\ heap'[entries'[a]].lastSeen = heap'[entries'[a]].lastRefill
  <2>1. CASE a = ip
    BY <1>1, <1>2, <2>1
  <2>2. CASE a # ip
    <3>1. entries'[a] = entries[a] /\ heap'[entries'[a]] = heap[entries[a]]
      BY <1>2, <1>6, <2>2
    <3>2. QED
      BY <1>1, <1>6, <3>1, EntryNow
  <2>3. QED
    BY <2>1, <2>2
<1>7. QED
  BY <1>5, <1>6

----------------------------------------------------------------------------
(* The steps.                                                              *)

LEMMA InsideIsInFlight ==
  ASSUME RInv, NEW a \in Addr PROVE TB!Inside(a) = InFlight(a)
BY DEF TB!Inside, InFlight, statusBar

\* The instance of TokenBucket counts as the limiter does.
LEMMA SameCardinality ==
  ASSUME NEW S PROVE TB!Cardinality(S) = Cardinality(S)
BY DEF TB!Cardinality, Cardinality

\* Acquire decides as the bucket does.
LEMMA AllowedIsLooked ==
  ASSUME Lag = 0, EvictionIsHarmless, RInv,
         NEW c \in Call, phase[c] = "called", NEW k \in Cell, Target(c, k)
  PROVE  TB!Allowed(IpOf[c]) <=> GateOpen(Looked(c, k)) /\ HasToken(Looked(c, k))
<1>1. Looked(c, k).active = Cardinality(TB!Inside(IpOf[c]))
  BY CalledNow, LookedCounts, InsideIsInFlight DEF RInv
<1>2. Looked(c, k).tokens = levelBar[IpOf[c]]
  BY LookedNow
<1> DEFINE e == Looked(c, k)
<1>3. TB!Allowed(IpOf[c]) <=>
        /\ PerIP > 0 => Cardinality(TB!Inside(IpOf[c])) < PerIP
        /\ Burst > 0 => levelBar[IpOf[c]] >= TokenUnit
  BY SameCardinality DEF TB!Allowed
<1>4. GateOpen(e) <=> (PerIP > 0 => Cardinality(TB!Inside(IpOf[c])) < PerIP)
  BY <1>1 DEF GateOpen
<1>5. HasToken(e) <=> (Burst > 0 => levelBar[IpOf[c]] >= TokenUnit)
  BY <1>2 DEF HasToken
<1>6. QED
  BY <1>3, <1>4, <1>5

\* Where nothing but a counter of an entry changes, buckets stay.
LEMMA QuietLevels ==
  ASSUME RInv, clock' = clock, entries' = entries,
         \A a \in Addr : entries[a] # NoCell =>
           /\ heap'[entries[a]] \in Entry
           /\ heap'[entries[a]].tokens = heap[entries[a]].tokens
           /\ heap'[entries[a]].lastRefill = heap[entries[a]].lastRefill
  PROVE  levelBar' = levelBar
<1>1. clock \in Nat
  BY DEF RInv, IInv, TypeOK
<1>2. ASSUME NEW a \in Addr, entries[a] # NoCell
      PROVE  Refill(heap'[entries[a]], clock).tokens = Refill(heap[entries[a]], clock).tokens
  BY <1>1, <1>2, EntryNow, LevelDepends
<1>3. QED
  BY <1>2 DEF levelBar

LEMMA AdmitStarts ==
  ASSUME Lag = 0, EvictionIsHarmless, RInv, NEW c \in Call, Admit(c)
  PROVE  TB!Start(c) /\ Punctual'
<1>1. PICK k \in Cell :
        /\ Target(c, k) /\ GateOpen(Looked(c, k)) /\ HasToken(Looked(c, k))
        /\ Locked(c, k, Charged(Looked(c, k)))
  BY DEF Admit
<1>2. phase[c] = "called" /\ phase' = [phase EXCEPT ![c] = "held"]
  BY DEF Admit
<1> DEFINE e == Charged(Looked(c, k))
<1>3. /\ Looked(c, k) \in Entry /\ Looked(c, k).lastRefill = clock
      /\ Looked(c, k).lastSeen = clock /\ Looked(c, k).tokens = levelBar[IpOf[c]]
  BY <1>1, <1>2, LookedNow
<1>4. /\ e \in Entry /\ e.lastRefill = clock /\ e.lastSeen = clock
      /\ e.tokens = IF Burst > 0 THEN levelBar[IpOf[c]] - TokenUnit ELSE levelBar[IpOf[c]]
  BY <1>1, <1>3, ChargedType, ChargedFields
<1>5. Locked(c, k, e)
  BY <1>1
<1> HIDE DEF e
<1>6. /\ levelBar' = [levelBar EXCEPT ![IpOf[c]] = e.tokens]
      /\ \A a \in Addr : entries'[a] # NoCell =>
           /\ heap'[entries'[a]].lastRefill <= clock'
           /\ heap'[entries'[a]].lastSeen = heap'[entries'[a]].lastRefill
  BY <1>1, <1>2, <1>4, <1>5, LockedLevels
<1>7. TB!Allowed(IpOf[c])
  BY <1>1, <1>2, AllowedIsLooked
<1>8. phase \in [Call -> Phase]
  BY DEF RInv, IInv, TypeOK
<1>9. statusBar[c] = "out" /\ statusBar' = [statusBar EXCEPT ![c] = "in"]
  BY <1>2, <1>8 DEF statusBar
<1>10. TB!Start(c)
  BY <1>4, <1>6, <1>7, <1>9 DEF TB!Start
<1>11. Punctual'
  BY <1>2, <1>5, <1>6, <1>8 DEF Punctual, RInv, Locked
<1>12. QED
  BY <1>10, <1>11

LEMMA RefuseRejects ==
  ASSUME Lag = 0, EvictionIsHarmless, RInv, NEW c \in Call, Refuse(c)
  PROVE  TB!Reject(c) /\ Punctual'
<1>1. PICK k \in Cell :
        /\ Target(c, k) /\ ~ (GateOpen(Looked(c, k)) /\ HasToken(Looked(c, k)))
        /\ Locked(c, k, Looked(c, k))
  BY DEF Refuse
<1>2. phase[c] = "called" /\ phase' = [phase EXCEPT ![c] = "refused"]
  BY DEF Refuse
<1>3. /\ Looked(c, k) \in Entry /\ Looked(c, k).lastRefill = clock
      /\ Looked(c, k).lastSeen = clock /\ Looked(c, k).tokens = levelBar[IpOf[c]]
  BY <1>1, <1>2, LookedNow
<1>4. /\ levelBar' = [levelBar EXCEPT ![IpOf[c]] = Looked(c, k).tokens]
      /\ \A a \in Addr : entries'[a] # NoCell =>
           /\ heap'[entries'[a]].lastRefill <= clock'
           /\ heap'[entries'[a]].lastSeen = heap'[entries'[a]].lastRefill
  BY <1>1, <1>2, <1>3, LockedLevels
<1>5. levelBar' = levelBar
  <2>1. levelBar = [a \in Addr |-> levelBar[a]]
    BY DEF levelBar
  <2>2. QED
    BY <1>3, <1>4, <2>1
<1>6. ~ TB!Allowed(IpOf[c])
  BY <1>1, <1>2, AllowedIsLooked
<1>7. phase \in [Call -> Phase]
  BY DEF RInv, IInv, TypeOK
<1>8. statusBar[c] = "out" /\ statusBar' = [statusBar EXCEPT ![c] = "rejected"]
  BY <1>2, <1>7 DEF statusBar
<1>9. TB!Reject(c)
  BY <1>5, <1>6, <1>8 DEF TB!Reject
<1>10. Punctual'
  BY <1>1, <1>2, <1>4, <1>7 DEF Punctual, RInv, Locked
<1>11. QED
  BY <1>9, <1>10

LEMMA ReleaseLeaves ==
  ASSUME RInv, NEW c \in Call, Release(c)
  PROVE  (TB!Leave(c) \/ UNCHANGED <<statusBar, levelBar>>) /\ Punctual'
<1>1. /\ phase[c] \in {"held", "released"}
      /\ heap' = [heap EXCEPT ![handle[c]] = Dropped(@, phase[c] = "released")]
      /\ phase' = [phase EXCEPT ![c] = "released"]
      /\ UNCHANGED <<clock, entries, stamp>>
  BY DEF Release
<1>2. phase \in [Call -> Phase] /\ heap \in [Cell -> Entry]
  BY DEF RInv, IInv, TypeOK
<1>3. ASSUME NEW k \in Cell
      PROVE  /\ heap'[k] \in Entry /\ heap'[k].tokens = heap[k].tokens
             /\ heap'[k].lastRefill = heap[k].lastRefill
             /\ heap'[k].lastSeen = heap[k].lastSeen
  <2> DEFINE fewer == [heap[k] EXCEPT !.active = @ - 1]
  <2>1. /\ fewer \in Entry /\ fewer.tokens = heap[k].tokens
        /\ fewer.lastRefill = heap[k].lastRefill /\ fewer.lastSeen = heap[k].lastSeen
    BY <1>2 DEF Entry
  <2>2. heap'[k] = heap[k] \/ heap'[k] = fewer
    BY <1>1, <1>2 DEF Dropped
  <2> HIDE DEF fewer
  <2>3. QED
    BY <1>2, <2>1, <2>2
<1>4. \A a \in Addr : entries[a] # NoCell => entries[a] \in Cell
  BY DEF RInv, IInv, TypeOK
<1>5. levelBar' = levelBar
  BY <1>1, <1>3, <1>4, QuietLevels
<1>6. Punctual'
  BY <1>1, <1>2, <1>3, <1>4 DEF Punctual, RInv
<1>7. TB!Leave(c) \/ UNCHANGED <<statusBar, levelBar>>
  <2>1. CASE phase[c] = "held"
    <3>1. statusBar[c] = "in" /\ statusBar' = [statusBar EXCEPT ![c] = "out"]
      BY <1>1, <1>2, <2>1 DEF statusBar
    <3>2. QED
      BY <1>5, <3>1 DEF TB!Leave
  <2>2. CASE phase[c] = "released"
    <3>1. statusBar' = statusBar
      BY <1>1, <1>2, <2>2 DEF statusBar
    <3>2. QED
      BY <1>5, <3>1
  <2>3. QED
    BY <1>1, <2>1, <2>2
<1>8. QED
  BY <1>6, <1>7

LEMMA CallAndReturn ==
  ASSUME RInv, NEW c \in Call, CallAcquire(c) \/ Return(c)
  PROVE  (TB!Leave(c) \/ UNCHANGED <<statusBar, levelBar>>) /\ Punctual'
<1>1. UNCHANGED <<clock, entries, heap>>
  BY DEF CallAcquire, Return
<1>2. phase \in [Call -> Phase] /\ heap \in [Cell -> Entry] /\ stamp \in [Call -> Nat]
      /\ \A a \in Addr : entries[a] # NoCell => entries[a] \in Cell
  BY DEF RInv, IInv, TypeOK
<1>3. levelBar' = levelBar
  BY <1>1, <1>2, QuietLevels
<1>4. TB!Leave(c) \/ UNCHANGED <<statusBar, levelBar>>
  <2>1. CASE phase[c] = "refused"
    <3>1. statusBar[c] = "rejected" /\ statusBar' = [statusBar EXCEPT ![c] = "out"]
      BY <1>2, <2>1 DEF CallAcquire, Return, statusBar
    <3>2. QED
      BY <1>3, <3>1 DEF TB!Leave
  <2>2. CASE phase[c] # "refused"
    <3>1. statusBar' = statusBar
      BY <1>2, <2>2 DEF CallAcquire, Return, statusBar
    <3>2. QED
      BY <1>3, <3>1
  <2>3. QED
    BY <2>1, <2>2
<1>5. Punctual'
  BY <1>1, <1>2 DEF CallAcquire, Return, Punctual, RInv
<1>6. QED
  BY <1>4, <1>5

LEMMA TickElapses ==
  ASSUME Lag = 0, RInv, Tick
  PROVE  TB!Elapse /\ Punctual'
<1>1. /\ clock' = clock + 1 /\ UNCHANGED <<entries, heap, phase, stamp>>
      /\ \A c \in Call : phase[c] = "called" => clock - stamp[c] < Lag
  BY DEF Tick
<1>2. clock \in Nat /\ Capacity \in Nat /\ Rate \in Nat
  BY CapacityType, LimiterAssumption DEF RInv, IInv, TypeOK
<1>3. \A c \in Call : phase[c] # "called"
  BY <1>1, <1>2, CalledNow
<1>4. ASSUME NEW a \in Addr
      PROVE  levelBar'[a] = IF levelBar[a] + Rate < Capacity
                            THEN levelBar[a] + Rate ELSE Capacity
  <2>1. CASE entries[a] = NoCell
    <3>1. levelBar'[a] = Capacity /\ levelBar[a] = Capacity
      BY <1>1, <2>1 DEF levelBar
    <3>2. QED
      BY <1>2, <3>1
  <2>2. CASE entries[a] # NoCell
    <3>1. /\ levelBar'[a] = Refill(heap[entries[a]], clock + 1).tokens
          /\ levelBar[a] = Refill(heap[entries[a]], clock).tokens
      BY <1>1, <2>2 DEF levelBar
    <3>2. QED
      BY <1>2, <2>2, <3>1, EntryNow, LevelNext
  <2>3. QED
    BY <2>1, <2>2
<1>5. levelBar' = [a \in Addr |-> levelBar'[a]]
  BY DEF levelBar
<1>6. statusBar' = statusBar
  BY <1>1 DEF statusBar
<1>7. TB!Full = Capacity
  BY DEF TB!Full, Capacity
<1>8. TB!Elapse
  BY <1>4, <1>5, <1>6, <1>7 DEF TB!Elapse
<1>9. Punctual'
  <2>1. \A a \in Addr : entries[a] # NoCell =>
          heap[entries[a]].lastRefill \in Nat
    BY EntryNow DEF Entry
  <2>2. QED
    BY <1>1, <1>2, <1>3, <2>1 DEF Punctual, RInv
<1>10. QED
  BY <1>8, <1>9

----------------------------------------------------------------------------
LEMMA RefinementInit == Init => TB!TBInit /\ RInv
<1> SUFFICES ASSUME Init PROVE TB!TBInit /\ RInv
  OBVIOUS
<1>1. statusBar = [c \in Call |-> "out"] /\ levelBar = [a \in Addr |-> Capacity]
  BY DEF Init, statusBar, levelBar
<1>2. TB!Full = Capacity
  BY DEF TB!Full, Capacity
<1>3. Punctual
  BY DEF Init, Punctual
<1>4. QED
  BY <1>1, <1>2, <1>3, InitIInv DEF TB!TBInit, RInv

LEMMA RefinementStep ==
  ASSUME Lag = 0, EvictionIsHarmless, RInv, [Next]_vars
  PROVE  [TB!TBNext]_(TB!tbvars) /\ RInv'
<1>1. IInv'
  BY NextIInv DEF RInv
<1>2. ASSUME NEW c \in Call, CallAcquire(c) \/ Admit(c) \/ Refuse(c)
                                \/ Release(c) \/ Return(c)
      PROVE  [TB!TBNext]_(TB!tbvars) /\ Punctual'
  BY <1>2, AdmitStarts, RefuseRejects, ReleaseLeaves, CallAndReturn
  DEF TB!TBNext, TB!tbvars
<1>3. CASE Tick
  BY <1>1, <1>3, TickElapses DEF TB!TBNext, RInv
<1>4. CASE UNCHANGED vars
  <2>1. UNCHANGED <<statusBar, levelBar>>
    BY <1>4 DEF vars, statusBar, levelBar
  <2>2. Punctual'
    BY <1>4 DEF vars, RInv, Punctual
  <2>3. QED
    BY <1>1, <2>1, <2>2 DEF TB!tbvars, RInv
<1>5. QED
  BY <1>1, <1>2, <1>3, <1>4 DEF Next, RInv

(***************************************************************************)
(* The limiter with its lazy refill, its entries and its sweep implements  *)
(* one ideal bucket and one exact count per address: initial states map to *)
(* initial states, every step to a step or to a stutter.                   *)
(***************************************************************************)
THEOREM LimiterImplementsBucket ==
  ASSUME Lag = 0, EvictionIsHarmless
  PROVE  Spec => ImplementsTokenBucket
<1>1. Init => TB!TBInit /\ RInv
  BY RefinementInit
<1>2. RInv /\ [Next]_vars => [TB!TBNext]_(TB!tbvars) /\ RInv'
  BY RefinementStep
<1>3. QED
  BY <1>1, <1>2, PTL DEF Spec, ImplementsTokenBucket, TB!TBSpec

----------------------------------------------------------------------------
(* The gate, for every lag and every setting.                              *)

\* The instance of SlotGate counts as the limiter does.
LEMMA GateCounts ==
  ASSUME NEW S PROVE SG!Cardinality(S) = Cardinality(S)
BY DEF SG!Cardinality, Cardinality

LEMMA AdmitEnters ==
  ASSUME IInv, NEW c \in Call, Admit(c)
  PROVE  SG!Enter(c, IpOf[c])
<1> DEFINE ip == IpOf[c]
<1>1. PICK k \in Cell : Target(c, k) /\ GateOpen(Looked(c, k))
  BY DEF Admit
<1>2. phase[c] = "called" /\ phase' = [phase EXCEPT ![c] = "held"] /\ ip \in Addr
  BY LimiterAssumption DEF Admit
<1>3. \A b \in Addr : c \notin insideBar[b]
  BY <1>2 DEF insideBar, InFlight
<1>4. PerIP > 0 => SG!Cardinality(insideBar[ip]) < PerIP
  <2>1. insideBar[ip] = InFlight(ip)
    BY <1>2 DEF insideBar
  <2>2. Looked(c, k).active = Cardinality(InFlight(ip))
    BY <1>1, LookedCounts
  <2>3. QED
    BY <1>1, <2>1, <2>2, GateCounts DEF GateOpen
<1>5. insideBar' = [insideBar EXCEPT ![ip] = @ \cup {c}]
  <2>1. InFlight(ip)' = InFlight(ip) \cup {c}
    BY <1>2 DEF InFlight, IInv, TypeOK
  <2>2. \A a \in Addr \ {ip} : InFlight(a)' = InFlight(a)
    BY <1>2 DEF InFlight, IInv, TypeOK
  <2>3. QED
    BY <2>1, <2>2 DEF insideBar
<1>6. QED
  BY <1>3, <1>4, <1>5 DEF SG!Enter

LEMMA ReleaseGivesBack ==
  ASSUME IInv, NEW c \in Call, Release(c), phase[c] = "held"
  PROVE  SG!Leave(c, IpOf[c])
<1> DEFINE ip == IpOf[c]
<1>1. phase' = [phase EXCEPT ![c] = "released"] /\ ip \in Addr
  BY LimiterAssumption DEF Release
<1>2. c \in insideBar[ip]
  BY <1>1 DEF insideBar, InFlight
<1>3. insideBar' = [insideBar EXCEPT ![ip] = @ \ {c}]
  <2>1. InFlight(ip)' = InFlight(ip) \ {c}
    BY <1>1 DEF InFlight, IInv, TypeOK
  <2>2. \A a \in Addr \ {ip} : InFlight(a)' = InFlight(a)
    BY <1>1 DEF InFlight, IInv, TypeOK
  <2>3. QED
    BY <2>1, <2>2 DEF insideBar
<1>4. QED
  BY <1>2, <1>3 DEF SG!Leave

\* Every other step leaves the tests in flight alone.
LEMMA OthersStayInside ==
  ASSUME IInv, \A d \in Call : phase'[d] = "held" <=> phase[d] = "held"
  PROVE  UNCHANGED insideBar
BY DEF insideBar, InFlight

LEMMA GateStep ==
  ASSUME IInv, [Next]_vars
  PROVE  [SG!SGNext]_insideBar
<1>1. ASSUME NEW c \in Call, Admit(c) PROVE SG!SGNext
  BY <1>1, AdmitEnters, LimiterAssumption DEF SG!SGNext
<1>2. ASSUME NEW c \in Call, Release(c) PROVE SG!SGNext \/ UNCHANGED insideBar
  <2>1. CASE phase[c] = "held"
    BY <1>2, <2>1, ReleaseGivesBack, LimiterAssumption DEF SG!SGNext
  <2>2. CASE phase[c] # "held"
    BY <1>2, <2>2, OthersStayInside DEF Release, IInv, TypeOK
  <2>3. QED
    BY <2>1, <2>2
<1>3. ASSUME NEW c \in Call, CallAcquire(c) \/ Refuse(c) \/ Return(c)
      PROVE  UNCHANGED insideBar
  BY <1>3, OthersStayInside DEF CallAcquire, Refuse, Return, IInv, TypeOK
<1>4. CASE Tick \/ UNCHANGED vars
  BY <1>4, OthersStayInside DEF Tick, vars
<1>5. QED
  BY <1>1, <1>2, <1>3, <1>4 DEF Next

(***************************************************************************)
(* The limiter is the gate that the model of the server has in its place,  *)
(* for every setting of its flags and however long calls wait for the      *)
(* mutex: neither EvictionIsHarmless nor a bound on Lag is needed here.    *)
(***************************************************************************)
THEOREM LimiterImplementsGate == Spec => ImplementsSlotGate
<1>1. Init => SG!SGInit
  BY DEF Init, SG!SGInit, insideBar, InFlight
<1>2. Init => IInv
  BY InitIInv
<1>3. IInv /\ [Next]_vars => [SG!SGNext]_insideBar /\ IInv'
  BY GateStep, NextIInv
<1>4. QED
  BY <1>1, <1>2, <1>3, PTL DEF Spec, ImplementsSlotGate, SG!SGSpec

=============================================================================
