------------------------- MODULE MeterHistoryProofs -------------------------
(***************************************************************************)
(* The incremental meter computes what its documentation defines over the  *)
(* whole history of calls, for every history.  The invariant adds to that  *)
(* that the base of the meter is the base of the history, that bytes were  *)
(* only added once the measurement had begun, and that the elapsed time is *)
(* the greatest of the spans and one of them.                              *)
(*                                                                         *)
(* A call changes the set of the calls that count in one of three ways: it *)
(* crosses the boundary, and nothing counts; the window is open, and the   *)
(* call counts; or the window is not open, and it counts if it is an Add.  *)
(***************************************************************************)
EXTENDS MeterHistory, FiniteSetTheorems, WellFoundedInduction, TLAPS

CallRecord == [stop : BOOLEAN, n : Nat, at : Nat]

HistoryType ==
  /\ meter \in Meter /\ now \in Nat /\ origin \in Nat \cup {Never}
  /\ calls \in Seq(CallRecord)

\* A call is not later than now; only an Add has bytes, and it has an origin.
InOrder ==
  /\ meter.started = origin
  /\ origin # Never => origin <= now
  /\ \A i \in DOMAIN calls :
       /\ calls[i].at <= now
       /\ IF calls[i].stop THEN calls[i].n = 0
                           ELSE origin # Never /\ origin <= calls[i].at

\* The bytes of the calls in S, one by one.
Units(S, f) == UNION {{i} \X (1 .. f[i].n) : i \in S}

\* Only FiniteUnits and the two bounds say more than MatchesReference.
FiniteUnits == IsFiniteSet(Units(Counted, calls))

LongestSpan ==
  IF origin = Never THEN meter.elapsed = 0
  ELSE meter.elapsed \in Spans /\ \A s \in Spans : s <= meter.elapsed

HInv ==
  /\ HistoryType /\ InOrder /\ FiniteUnits /\ LongestSpan
  /\ meter.bytes = Cardinality(Units(Counted, calls))
  /\ meter.graceEnded = WindowOpen
  /\ meter.baseTime = Base

----------------------------------------------------------------------------
(* The meter.                                                              *)

LEMMA StartFields ==
  ASSUME NEW m \in Meter, NEW t \in Nat
  PROVE  LET s == MeterStart(m, t)
         IN  /\ s \in Meter /\ s.grace = m.grace /\ s.started = t /\ s.baseTime = t
             /\ (s.graceEnded <=> m.grace = 0) /\ s.bytes = 0 /\ s.elapsed = 0
<1> DEFINE b == m.grace <= 0
           a == [m EXCEPT !.started = t, !.baseTime = t, !.graceEnded = b]
           s == [a EXCEPT !.bytes = 0, !.elapsed = 0]
<1>1. MeterStart(m, t) = s
  BY DEF MeterStart
<1>2. b \in BOOLEAN /\ (b <=> m.grace = 0) /\ t \in Int
  BY DEF Meter
<1> HIDE DEF b
<1>3. a \in Meter
  BY <1>2 DEF Meter
<1>4. a.grace = m.grace /\ a.started = t /\ a.baseTime = t /\ a.graceEnded = b
  BY DEF Meter
<1> HIDE DEF a
<1>5. /\ s \in Meter /\ s.grace = a.grace /\ s.started = a.started
      /\ s.baseTime = a.baseTime /\ s.graceEnded = a.graceEnded
      /\ s.bytes = 0 /\ s.elapsed = 0
  BY <1>3 DEF Meter
<1> HIDE DEF s
<1>6. QED
  BY <1>1, <1>2, <1>4, <1>5

LEMMA ResetFields ==
  ASSUME NEW m \in Meter, NEW t \in Nat
  PROVE  LET s == MeterReset(m, t)
         IN  /\ s \in Meter /\ s.grace = m.grace /\ s.started = m.started
             /\ s.baseTime = t /\ s.graceEnded /\ s.bytes = 0 /\ s.elapsed = 0
<1> DEFINE o == [m EXCEPT !.graceEnded = TRUE]
           a == [o EXCEPT !.baseTime = t]
           s == [a EXCEPT !.bytes = 0, !.elapsed = 0]
<1>1. MeterReset(m, t) = s
  BY DEF MeterReset
<1>2. a \in Meter
  <2>1. o \in Meter
    BY DEF Meter
  <2> HIDE DEF o
  <2>2. QED
    BY <2>1 DEF Meter
<1>3. a.grace = m.grace /\ a.started = m.started /\ a.baseTime = t /\ a.graceEnded
  BY DEF Meter
<1> HIDE DEF a
<1>4. /\ s \in Meter /\ s.grace = a.grace /\ s.started = a.started
      /\ s.baseTime = a.baseTime /\ s.graceEnded = a.graceEnded
      /\ s.bytes = 0 /\ s.elapsed = 0
  BY <1>2 DEF Meter
<1> HIDE DEF s
<1>5. QED
  BY <1>1, <1>3, <1>4

LEMMA ExtendedFields ==
  ASSUME NEW m \in Meter, NEW t \in Nat
  PROVE  LET s == Extended(m, t)
         IN  /\ s \in Meter /\ s.grace = m.grace /\ s.started = m.started
             /\ s.baseTime = m.baseTime /\ s.graceEnded = m.graceEnded
             /\ s.bytes = m.bytes
             /\ s.elapsed = IF t - m.baseTime > m.elapsed THEN t - m.baseTime
                                                          ELSE m.elapsed
<1> DEFINE e == IF t - m.baseTime > m.elapsed THEN t - m.baseTime ELSE m.elapsed
<1>1. e \in Nat
  BY DEF Meter
<1>2. Extended(m, t) = [m EXCEPT !.elapsed = e]
  BY DEF Extended
<1> HIDE DEF e
<1>3. QED
  BY <1>1, <1>2 DEF Meter, e

\* Add to a meter that was started.
LEMMA AddFields ==
  ASSUME NEW m \in Meter, NEW n \in Nat, NEW t \in Nat, m.started # Never
  PROVE  LET s == MeterAdd(m, n, t)
         IN  /\ s \in Meter /\ s.grace = m.grace /\ s.started = m.started
             /\ Crosses(m, t) =>
                  s.baseTime = t /\ s.graceEnded /\ s.bytes = 0 /\ s.elapsed = 0
             /\ ~ Crosses(m, t) =>
                  /\ s.baseTime = m.baseTime /\ s.graceEnded = m.graceEnded
                  /\ s.bytes = m.bytes + n
                  /\ s.elapsed = IF t - m.baseTime > m.elapsed THEN t - m.baseTime
                                                               ELSE m.elapsed
<1>1. CASE Crosses(m, t)
  <2>1. MeterAdd(m, n, t) = MeterReset(m, t)
    BY <1>1 DEF MeterAdd
  <2> DEFINE z == MeterReset(m, t)
  <2>2. /\ z \in Meter /\ z.grace = m.grace /\ z.started = m.started
        /\ z.baseTime = t /\ z.graceEnded /\ z.bytes = 0 /\ z.elapsed = 0
    BY ResetFields
  <2>3. z.graceEnded = TRUE
    BY <2>2 DEF Meter
  <2> HIDE DEF z
  <2>4. QED
    BY <1>1, <2>1, <2>2, <2>3 DEF z
<1>2. CASE ~ Crosses(m, t)
  <2> DEFINE a == [m EXCEPT !.bytes = @ + n]
  <2>1. /\ a \in Meter /\ a.grace = m.grace /\ a.started = m.started
        /\ a.baseTime = m.baseTime /\ a.graceEnded = m.graceEnded
        /\ a.bytes = m.bytes + n /\ a.elapsed = m.elapsed
    BY DEF Meter
  <2>2. MeterAdd(m, n, t) = Extended(a, t)
    BY <1>2 DEF MeterAdd
  <2> HIDE DEF a
  <2>3. QED
    BY <1>2, <2>1, <2>2, ExtendedFields
<1>3. QED
  BY <1>1, <1>2

\* Add to one that was not is Add to the one that is started then.
LEMMA ImplicitStart ==
  ASSUME NEW m \in Meter, NEW n \in Nat, NEW t \in Nat, m.started = Never
  PROVE  MeterAdd(m, n, t) = MeterAdd(MeterStart(m, t), n, t)
<1>1. MeterStart(m, t).started # Never
  BY StartFields DEF Never
<1>2. QED
  BY <1>1 DEF MeterAdd

----------------------------------------------------------------------------
(* The history.                                                            *)

LEMMA Appended ==
  ASSUME NEW f \in Seq(CallRecord), NEW c \in CallRecord
  PROVE  LET g == Append(f, c)
         IN  /\ g \in Seq(CallRecord) /\ Len(f) \in Nat
             /\ DOMAIN f = 1 .. Len(f) /\ DOMAIN g = 1 .. Len(f) + 1
             /\ \A i \in DOMAIN f : g[i] = f[i] /\ f[i] \in CallRecord
             /\ g[Len(f) + 1] = c
OBVIOUS

\* One more call, with n bytes.
LEMMA MoreUnits ==
  ASSUME NEW S, NEW x, x \notin S, NEW f, NEW g, \A i \in S : g[i] = f[i],
         NEW n \in Nat, g[x].n = n, IsFiniteSet(Units(S, f))
  PROVE  /\ IsFiniteSet(Units(S \cup {x}, g))
         /\ Cardinality(Units(S \cup {x}, g)) = Cardinality(Units(S, f)) + n
<1> DEFINE Own  == {x} \X (1 .. n)
           Rest == Units(S, f)
<1>1. Units(S \cup {x}, g) = Rest \cup Own
  BY DEF Units
<1>2. Rest \cap Own = {}
  <2>1. \A u \in Rest : u[1] \in S
    BY DEF Units
  <2>2. \A u \in Own : u[1] = x
    OBVIOUS
  <2>3. QED
    BY <2>1, <2>2
<1>3. IsFiniteSet(Own) /\ Cardinality(Own) = n
  <2>1. IsFiniteSet(1 .. n) /\ Cardinality(1 .. n) = n
    <3>1. 1 \in Int /\ n \in Int /\ (IF 1 > n THEN 0 ELSE n - 1 + 1) = n
      OBVIOUS
    <3>2. QED
      BY <3>1, FS_Interval, Zenon
  <2>2. IsFiniteSet({x}) /\ Cardinality({x}) = 1
    BY FS_Singleton
  <2>3. IsFiniteSet(Own) /\ Cardinality(Own) = Cardinality({x}) * Cardinality(1 .. n)
    BY <2>1, <2>2, FS_Product, Zenon
  <2>4. QED
    BY <2>1, <2>2, <2>3
<1>4. Cardinality(Rest \cap Own) = 0
  BY <1>2, FS_EmptySet, Zenon
<1>5. Cardinality(Rest) \in Nat
  BY FS_CardinalityType
<1>6. IsFiniteSet(Rest)
  OBVIOUS
<1> HIDE DEF Own, Rest
<1>7. /\ IsFiniteSet(Rest \cup Own)
      /\ Cardinality(Rest \cup Own)
           = Cardinality(Rest) + Cardinality(Own) - Cardinality(Rest \cap Own)
  BY <1>3, <1>6, FS_Union, Zenon
<1>8. Cardinality(Rest \cup Own) = Cardinality(Rest) + n
  BY <1>3, <1>4, <1>5, <1>7
<1>9. QED
  BY <1>1, <1>7, <1>8, Zenon DEF Rest

\* A set of positions that is not empty has a first one.
LEMMA FirstCrosser ==
  ASSUME NEW S \in SUBSET Nat, S # {}
  PROVE  Min(S) \in S /\ \A j \in S : Min(S) <= j
<1>1. PICK x \in S : \A y \in S : <<y, x>> \notin OpToRel(<, Nat)
  BY NatLessThanWellFounded, WFMin, Zenon
<1>2. \A y \in S : ~ (y < x)
  BY <1>1, Zenon DEF OpToRel
<1>3. \A y \in S : x <= y
  BY <1>2
<1>4. QED
  BY <1>3 DEF Min

LEMMA MinIs ==
  ASSUME NEW S \in SUBSET Nat, NEW x \in S, \A y \in S : x <= y
  PROVE  Min(S) = x
<1> DEFINE z == Min(S)
<1>1. z \in S /\ \A j \in S : z <= j
  BY FirstCrosser
<1> HIDE DEF z
<1>2. z <= x /\ x <= z /\ z \in Int /\ x \in Int
  BY <1>1
<1>3. QED
  BY <1>2 DEF z

LEMMA MaxIs ==
  ASSUME NEW S \in SUBSET Int, NEW x \in S, \A y \in S : y <= x
  PROVE  Max(S) = x
<1>1. x \in S /\ \A y \in S : x >= y
  OBVIOUS
<1>2. Max(S) \in S /\ \A y \in S : Max(S) >= y
  BY <1>1 DEF Max
<1>3. Max(S) >= x /\ x >= Max(S) /\ Max(S) \in Int /\ x \in Int
  BY <1>1, <1>2
<1>4. QED
  BY <1>3

\* Where the boundary is, and what counts, once the window is open.
LEMMA BoundaryType ==
  ASSUME HInv
  PROVE  /\ Boundary \in 0 .. Len(calls) /\ Base \in Int /\ Spans \subseteq Int
         /\ Counted \subseteq DOMAIN calls /\ Crossers \subseteq DOMAIN calls
         /\ Len(calls) \in Nat /\ DOMAIN calls = 1 .. Len(calls) /\ Grace \in Nat
         /\ meter.bytes \in Nat /\ meter.elapsed \in Nat
<1>1. /\ Len(calls) \in Nat /\ DOMAIN calls = 1 .. Len(calls) /\ meter \in Meter
      /\ \A i \in DOMAIN calls : calls[i].at \in Nat
      /\ origin \in Int
  <2>1. calls \in Seq(CallRecord) /\ meter \in Meter /\ origin \in Nat \cup {Never}
    BY DEF HInv, HistoryType
  <2>2. \A c \in CallRecord : c.at \in Nat
    BY DEF CallRecord
  <2>3. Never \in Int
    BY DEF Never
  <2> HIDE DEF CallRecord
  <2>4. QED
    BY <2>1, <2>2, <2>3
<1>2. Crossers \subseteq DOMAIN calls /\ Counted \subseteq DOMAIN calls
  BY DEF Crossers, Counted
<1>3. Boundary \in 0 .. Len(calls)
  <2>1. CASE Grace = 0 \/ Crossers = {}
    BY <1>1, <2>1 DEF Boundary
  <2>2. CASE ~ (Grace = 0 \/ Crossers = {})
    <3>1. Crossers \in SUBSET Nat /\ Crossers # {}
      BY <1>1, <1>2, <2>2
    <3>2. Min(Crossers) \in Crossers
      BY <3>1, FirstCrosser
    <3>3. QED
      BY <1>1, <1>2, <2>2, <3>2 DEF Boundary
  <2>3. QED
    BY <2>1, <2>2
<1>4. Base \in Int
  BY <1>1, <1>3 DEF Base
<1>5. Spans \subseteq Int
  BY <1>1, <1>2, <1>4 DEF Spans
<1>6. Grace \in Nat /\ meter.bytes \in Nat /\ meter.elapsed \in Nat
  BY <1>1 DEF Grace, Meter
<1>7. QED
  BY <1>1, <1>2, <1>3, <1>4, <1>5, <1>6

----------------------------------------------------------------------------
(* One more call.                                                          *)

\* What a call that says c appends to the history.
Calling(c) ==
  /\ c \in CallRecord /\ c.at >= now
  /\ calls' = Append(calls, c) /\ meter'.grace = meter.grace /\ now' = c.at

LEMMA CallAppended ==
  ASSUME HInv, NEW c, Calling(c)
  PROVE  LET x == Len(calls) + 1
         IN  /\ x \in Nat /\ x \notin DOMAIN calls /\ DOMAIN calls' = DOMAIN calls \cup {x}
             /\ \A i \in DOMAIN calls : calls'[i] = calls[i] /\ i < x
             /\ calls'[x] = c /\ calls' \in Seq(CallRecord) /\ Grace' = Grace
             /\ Crossers' = {i \in DOMAIN calls : ~ calls[i].stop /\ calls[i].at - origin' >= Grace}
                  \cup (IF ~ c.stop /\ c.at - origin' >= Grace THEN {x} ELSE {})
<1> DEFINE x == Len(calls) + 1
           Q(r) == ~ r.stop /\ r.at - origin' >= Grace
<1>1. calls \in Seq(CallRecord) /\ c \in CallRecord /\ calls' = Append(calls, c)
  BY DEF HInv, HistoryType, Calling
<1>2. /\ calls' \in Seq(CallRecord) /\ Len(calls) \in Nat
      /\ DOMAIN calls = 1 .. Len(calls) /\ DOMAIN calls' = 1 .. Len(calls) + 1
      /\ \A i \in DOMAIN calls : calls'[i] = calls[i]
      /\ calls'[x] = c
  BY <1>1, Appended, Zenon
<1>3. /\ x \in Nat /\ x \notin DOMAIN calls /\ DOMAIN calls' = DOMAIN calls \cup {x}
      /\ \A i \in DOMAIN calls : i < x
  BY <1>2
<1>4. Grace' = Grace
  BY DEF Calling, Grace
<1>5. Crossers' = {i \in DOMAIN calls' : Q(calls'[i])}
  BY <1>4 DEF Crossers
<1> HIDE DEF x, Q
<1>6. Crossers' = {i \in DOMAIN calls : Q(calls[i])} \cup (IF Q(c) THEN {x} ELSE {})
  BY <1>2, <1>3, <1>5
<1>7. QED
  BY <1>2, <1>3, <1>4, <1>6, Zenon DEF x, Q

\* With the window open the boundary stays, and the call counts.
LEMMA OpenCall ==
  ASSUME HInv, NEW c, Calling(c), WindowOpen, origin' = origin
  PROVE  /\ WindowOpen' /\ Base' = Base
         /\ Counted' = Counted \cup {Len(calls) + 1}
<1> DEFINE x == Len(calls) + 1
<1>1. /\ x \in Nat /\ x \notin DOMAIN calls /\ DOMAIN calls' = DOMAIN calls \cup {x}
      /\ \A i \in DOMAIN calls : calls'[i] = calls[i] /\ i < x
      /\ calls'[x] = c /\ Grace' = Grace
      /\ Crossers' = {i \in DOMAIN calls : ~ calls[i].stop /\ calls[i].at - origin >= Grace}
           \cup (IF ~ c.stop /\ c.at - origin >= Grace THEN {x} ELSE {})
  BY CallAppended
<1>2. Crossers' = Crossers \cup (IF ~ c.stop /\ c.at - origin >= Grace THEN {x} ELSE {})
  BY <1>1 DEF Crossers
<1>3. /\ Boundary \in 0 .. Len(calls) /\ Counted \subseteq DOMAIN calls
      /\ Crossers \subseteq DOMAIN calls /\ DOMAIN calls \subseteq Nat /\ Len(calls) \in Nat
  BY BoundaryType
<1> HIDE DEF x
<1>4. Boundary' = Boundary
  <2>1. CASE Grace = 0
    BY <1>1, <2>1 DEF Boundary
  <2>2. CASE Grace # 0
    <3> DEFINE y == Min(Crossers)
    <3>1. Crossers \in SUBSET Nat /\ Crossers # {}
      BY <1>3, <2>2 DEF WindowOpen
    <3>2. y \in Crossers /\ \A j \in Crossers : y <= j
      BY <3>1, FirstCrosser
    <3>3. y \in Nat /\ y < x
      BY <1>1, <1>3, <3>2
    <3> HIDE DEF y
    <3>4. /\ Crossers' \in SUBSET Nat /\ y \in Crossers'
          /\ \A j \in Crossers' : y <= j
      <4>1. /\ Crossers \subseteq Crossers' /\ x \in Nat
            /\ \A j \in Crossers' : j \in Crossers \/ j = x
        BY <1>1, <1>2
      <4>2. \A j \in Crossers' : j \in Nat /\ y <= j
        BY <3>1, <3>2, <3>3, <4>1
      <4>3. QED
        BY <3>2, <4>1, <4>2
    <3>5. Min(Crossers') = y
      <4> DEFINE S == Crossers'
      <4> HIDE DEF S
      <4>1. QED
        BY <3>4, MinIs DEF S
    <3>6. Crossers' # {}
      BY <3>4
    <3>7. QED
      BY <1>1, <2>2, <3>1, <3>5, <3>6 DEF Boundary, y
  <2>3. QED
    BY <2>1, <2>2
<1>5. WindowOpen'
  BY <1>1, <1>2 DEF WindowOpen
<1>6. Base' = Base
  BY <1>1, <1>3, <1>4 DEF Base
<1>7. Counted' = Counted \cup {x}
  <2>1. Counted' = {i \in DOMAIN calls' : i > Boundary}
    BY <1>4, <1>5 DEF Counted
  <2>2. Counted = {i \in DOMAIN calls : i > Boundary}
    BY DEF Counted
  <2>3. x > Boundary
    BY <1>3 DEF x
  <2>4. QED
    BY <1>1, <2>1, <2>2, <2>3
<1>8. QED
  BY <1>5, <1>6, <1>7 DEF x

\* Before the window opens only Adds count, from the start on.
LEMMA ClosedCall ==
  ASSUME HInv, NEW c, Calling(c), ~ WindowOpen, origin' = origin,
         c.stop \/ (origin # Never /\ ~ (c.at - origin >= Grace))
  PROVE  /\ ~ WindowOpen' /\ Base' = Base
         /\ Counted' = Counted \cup (IF c.stop THEN {} ELSE {Len(calls) + 1})
<1> DEFINE x == Len(calls) + 1
<1>1. /\ x \in Nat /\ x \notin DOMAIN calls /\ DOMAIN calls' = DOMAIN calls \cup {x}
      /\ \A i \in DOMAIN calls : calls'[i] = calls[i] /\ i < x
      /\ calls'[x] = c /\ Grace' = Grace
      /\ Crossers' = {i \in DOMAIN calls : ~ calls[i].stop /\ calls[i].at - origin >= Grace}
           \cup (IF ~ c.stop /\ c.at - origin >= Grace THEN {x} ELSE {})
  BY CallAppended
<1>2. Crossers' = Crossers
  BY <1>1 DEF Crossers
<1>3. Boundary = 0 /\ Boundary' = 0
  <2>1. Crossers = {}
    <3>1. CASE origin = Never
      BY <3>1 DEF Crossers, HInv, InOrder
    <3>2. CASE origin # Never
      BY <3>2 DEF WindowOpen
    <3>3. QED
      BY <3>1, <3>2
  <2>2. QED
    BY <1>1, <1>2, <2>1 DEF Boundary
<1>4. Base' = Base
  BY <1>3 DEF Base
<1>5. ~ WindowOpen'
  BY <1>1, <1>2 DEF WindowOpen
<1>6. Counted' = Counted \cup (IF c.stop THEN {} ELSE {x})
  <2>1. Counted' = {i \in DOMAIN calls' : i > 0 /\ ~ calls'[i].stop}
    BY <1>3, <1>5 DEF Counted
  <2>2. Counted = {i \in DOMAIN calls : i > 0 /\ ~ calls[i].stop}
    BY <1>3 DEF Counted
  <2>3. x > 0
    BY BoundaryType
  <2> HIDE DEF x
  <2>4. QED
    BY <1>1, <2>1, <2>2, <2>3
<1>7. QED
  BY <1>4, <1>5, <1>6

\* The bytes and the longest span, when the call counts.
LEMMA CountedCall ==
  ASSUME HInv, NEW c, Calling(c), origin' = origin, origin # Never, Base' = Base,
         Counted' = Counted \cup {Len(calls) + 1},
         meter'.bytes = meter.bytes + c.n,
         meter'.elapsed = IF c.at - Base > meter.elapsed THEN c.at - Base
                                                         ELSE meter.elapsed
  PROVE  FiniteUnits' /\ LongestSpan' /\ meter'.bytes = Cardinality(Units(Counted, calls))'
<1> DEFINE x == Len(calls) + 1
<1>1. /\ x \in Nat /\ x \notin DOMAIN calls
      /\ \A i \in DOMAIN calls : calls'[i] = calls[i]
      /\ calls'[x] = c
  BY CallAppended
<1>2. /\ Counted \subseteq DOMAIN calls /\ Base \in Int /\ Spans \subseteq Int
      /\ meter.bytes \in Nat /\ meter.elapsed \in Nat
  BY BoundaryType
<1>3. c.n \in Nat /\ c.at \in Nat
  BY DEF Calling, CallRecord
<1> HIDE DEF x
<1>4. /\ IsFiniteSet(Units(Counted \cup {x}, calls'))
      /\ Cardinality(Units(Counted \cup {x}, calls')) = Cardinality(Units(Counted, calls)) + c.n
  <2>1. IsFiniteSet(Units(Counted, calls))
    BY DEF HInv, FiniteUnits
  <2>2. /\ x \notin Counted /\ calls'[x].n = c.n
        /\ \A i \in Counted : calls'[i] = calls[i]
    BY <1>1, <1>2
  <2>3. QED
    <3> DEFINE S == Counted
               g == calls'
    <3>1. /\ IsFiniteSet(Units(S, calls)) /\ x \notin S /\ g[x].n = c.n /\ c.n \in Nat
          /\ \A i \in S : g[i] = calls[i]
      BY <1>3, <2>1, <2>2
    <3> HIDE DEF S, g
    <3>2. /\ IsFiniteSet(Units(S \cup {x}, g))
          /\ Cardinality(Units(S \cup {x}, g)) = Cardinality(Units(S, calls)) + c.n
      BY <3>1, MoreUnits
    <3>3. QED
      BY <3>2, Zenon DEF S, g
<1>5. Counted' = Counted \cup {x}
  BY DEF x
<1>6. FiniteUnits'
  BY <1>4, <1>5 DEF FiniteUnits
<1>7. meter'.bytes = Cardinality(Units(Counted, calls))'
  BY <1>4, <1>5 DEF HInv
<1>8. Spans' = Spans \cup {c.at - Base}
  BY <1>1, <1>2, <1>5 DEF Spans
<1>9. LongestSpan'
  <2>1. meter.elapsed \in Spans /\ \A s \in Spans : s <= meter.elapsed
    BY DEF HInv, LongestSpan
  <2>2. c.at - Base \in Int
    BY <1>2, <1>3
  <2>3. meter'.elapsed \in Spans' /\ \A s \in Spans' : s <= meter'.elapsed
    BY <1>2, <1>8, <2>1, <2>2
  <2>4. QED
    BY <2>3 DEF LongestSpan
<1>10. QED
  BY <1>6, <1>7, <1>9

\* The order of the calls, when an Add may have set the origin.
LEMMA OrderKept ==
  ASSUME HInv, NEW c, Calling(c), meter' \in Meter, meter'.started = origin',
         origin' = origin \/ (origin = Never /\ origin' = c.at),
         IF c.stop THEN c.n = 0 ELSE origin' # Never
  PROVE  HistoryType' /\ InOrder'
<1> DEFINE x == Len(calls) + 1
<1>1. /\ DOMAIN calls' = DOMAIN calls \cup {x} /\ calls'[x] = c
      /\ \A i \in DOMAIN calls : calls'[i] = calls[i]
      /\ calls' \in Seq(CallRecord)
  BY CallAppended
<1>2. /\ now \in Nat /\ origin \in Int /\ c.at \in Nat /\ c.at >= now /\ now' = c.at
      /\ Never \in Int
  BY DEF HInv, HistoryType, Never, Calling, CallRecord
<1>3. \A i \in DOMAIN calls : calls[i].at \in Nat
  <2>1. calls \in Seq(CallRecord)
    BY DEF HInv, HistoryType
  <2>2. \A r \in CallRecord : r.at \in Nat
    BY DEF CallRecord
  <2> HIDE DEF CallRecord
  <2>3. QED
    BY <2>1, <2>2
<1> HIDE DEF x
<1>4. HistoryType'
  BY <1>1, <1>2 DEF HInv, HistoryType
<1>5. origin' # Never => origin' <= now'
  BY <1>2 DEF HInv, InOrder
<1>6. ASSUME NEW i \in DOMAIN calls'
      PROVE  /\ calls'[i].at <= now'
             /\ IF calls'[i].stop THEN calls'[i].n = 0
                                  ELSE origin' # Never /\ origin' <= calls'[i].at
  <2>1. CASE i \in DOMAIN calls
    <3>1. /\ calls[i].at <= now
          /\ IF calls[i].stop THEN calls[i].n = 0
                              ELSE origin # Never /\ origin <= calls[i].at
      BY <2>1 DEF HInv, InOrder
    <3>2. calls'[i] = calls[i] /\ calls[i].at \in Nat
      BY <1>1, <1>3, <2>1
    <3>3. QED
      BY <1>2, <3>1, <3>2
  <2>2. CASE i = x
    <3>1. calls'[i] = c
      BY <1>1, <2>2
    <3>2. origin' # Never => origin' <= c.at
      BY <1>2, <1>5
    <3>3. QED
      BY <1>2, <3>1, <3>2
  <2>3. QED
    BY <1>1, <2>1, <2>2
<1>7. InOrder'
  BY <1>5, <1>6 DEF InOrder
<1>8. QED
  BY <1>4, <1>7

\* No call counts.
LEMMA NothingCounted ==
  ASSUME Counted' = {}, meter'.bytes = 0, meter'.elapsed = 0
  PROVE  FiniteUnits' /\ LongestSpan' /\ meter'.bytes = Cardinality(Units(Counted, calls))'
<1>1. Units(Counted, calls)' = {}
  BY DEF Units
<1>2. Spans' = {0}
  BY DEF Spans
<1>3. LongestSpan'
  BY <1>2 DEF LongestSpan
<1>4. QED
  BY <1>1, <1>3, FS_EmptySet DEF FiniteUnits

LEMMA AddCalls ==
  ASSUME HInv, NEW n \in Nat, NEW t \in Nat, t >= now, Add(n, t)
  PROVE  LET c == [stop |-> FALSE, n |-> n, at |-> t]
         IN  Calling(c) /\ c.stop = FALSE /\ c.n = n /\ c.at = t
<1> DEFINE c == [stop |-> FALSE, n |-> n, at |-> t]
<1>1. c \in CallRecord /\ c.stop = FALSE /\ c.n = n /\ c.at = t
  BY DEF CallRecord
<1>2. meter'.grace = meter.grace
  <2>1. meter \in Meter /\ meter' = MeterAdd(meter, n, t)
    BY DEF HInv, HistoryType, Add
  <2>2. CASE meter.started # Never
    BY <2>1, <2>2, AddFields
  <2>3. CASE meter.started = Never
    <3> DEFINE s == MeterStart(meter, t)
    <3>1. s \in Meter /\ s.grace = meter.grace /\ s.started # Never
      BY <2>1, StartFields DEF Never
    <3>2. meter' = MeterAdd(s, n, t)
      BY <2>1, <2>3, ImplicitStart
    <3> HIDE DEF s
    <3>3. QED
      BY <3>1, <3>2, AddFields
  <2>4. QED
    BY <2>2, <2>3
<1>3. calls' = Append(calls, c) /\ now' = t
  BY DEF Add
<1> HIDE DEF c
<1>4. QED
  BY <1>1, <1>2, <1>3 DEF Calling, c

\* The sample that crosses the boundary is discarded with all before it.
LEMMA AddCrosses ==
  ASSUME HInv, NEW n \in Nat, NEW t \in Nat, t >= now, Add(n, t), origin # Never,
         Crosses(meter, t)
  PROVE  HInv'
<1> DEFINE c == [stop |-> FALSE, n |-> n, at |-> t]
           x == Len(calls) + 1
<1>1. Calling(c) /\ c.stop = FALSE /\ c.n = n /\ c.at = t
  BY AddCalls
<1> HIDE DEF c
<1>2. meter \in Meter /\ meter.started = origin /\ origin' = origin /\ meter' = MeterAdd(meter, n, t)
  BY DEF HInv, HistoryType, InOrder, Add
<1>3. /\ meter' \in Meter /\ meter'.started = origin /\ meter'.baseTime = t
      /\ meter'.graceEnded /\ meter'.bytes = 0 /\ meter'.elapsed = 0
  BY <1>2, AddFields
<1>4. Grace # 0 /\ Crossers = {} /\ t - origin >= Grace
  BY <1>2 DEF Crosses, HInv, WindowOpen, Grace
<1>5. /\ x \in Nat /\ x # 0 /\ DOMAIN calls' = DOMAIN calls \cup {x} /\ Grace' = Grace
      /\ calls'[x] = c
      /\ \A i \in DOMAIN calls : i < x
      /\ Crossers' = {i \in DOMAIN calls : ~ calls[i].stop /\ calls[i].at - origin >= Grace} \cup {x}
  <2>1. /\ x \in Nat /\ DOMAIN calls' = DOMAIN calls \cup {x} /\ Grace' = Grace
        /\ calls'[x] = c
        /\ \A i \in DOMAIN calls : i < x
        /\ Crossers' = {i \in DOMAIN calls : ~ calls[i].stop /\ calls[i].at - origin' >= Grace}
             \cup (IF ~ c.stop /\ c.at - origin' >= Grace THEN {x} ELSE {})
    BY <1>1, CallAppended
  <2>2. (IF ~ c.stop /\ c.at - origin' >= Grace THEN {x} ELSE {}) = {x}
    BY <1>1, <1>2, <1>4
  <2>3. x # 0
    BY BoundaryType
  <2>4. QED
    BY <1>2, <2>1, <2>2, <2>3
<1> HIDE DEF x
<1>6. Crossers' = {x}
  BY <1>4, <1>5 DEF Crossers
<1>7. Boundary' = x
  <2>1. Min({x}) = x
    BY <1>5, MinIs
  <2>2. QED
    BY <1>4, <1>5, <1>6, <2>1 DEF Boundary
<1>8. WindowOpen'
  BY <1>2, <1>5, <1>6 DEF WindowOpen
<1>9. Base' = t
  BY <1>1, <1>5, <1>7 DEF Base
<1>10. Counted' = {}
  <2>1. ~ (x > x) /\ \A i \in DOMAIN calls : ~ (i > x)
    BY <1>5, BoundaryType
  <2>2. QED
    BY <1>5, <1>7, <2>1 DEF Counted
<1>11. FiniteUnits' /\ LongestSpan' /\ meter'.bytes = Cardinality(Units(Counted, calls))'
  BY <1>3, <1>10, NothingCounted
<1>12. HistoryType' /\ InOrder'
  BY <1>1, <1>2, <1>3, OrderKept
<1>13. meter'.graceEnded = WindowOpen'
  BY <1>3, <1>8 DEF HistoryType, Meter
<1>14. QED
  BY <1>3, <1>9, <1>11, <1>12, <1>13 DEF HInv

\* Any other sample counts.
LEMMA AddCounts ==
  ASSUME HInv, NEW n \in Nat, NEW t \in Nat, t >= now, Add(n, t), origin # Never,
         ~ Crosses(meter, t)
  PROVE  HInv'
<1> DEFINE c == [stop |-> FALSE, n |-> n, at |-> t]
<1>1. Calling(c) /\ ~ c.stop /\ c.n = n /\ c.at = t
  BY AddCalls
<1> HIDE DEF c
<1>2. meter \in Meter /\ meter.started = origin /\ origin' = origin /\ meter' = MeterAdd(meter, n, t)
  BY DEF HInv, HistoryType, InOrder, Add
<1>3. /\ meter' \in Meter /\ meter'.started = origin /\ meter'.baseTime = meter.baseTime
      /\ meter'.graceEnded = meter.graceEnded /\ meter'.bytes = meter.bytes + n
      /\ meter'.elapsed = IF t - meter.baseTime > meter.elapsed THEN t - meter.baseTime
                                                                ELSE meter.elapsed
  BY <1>2, AddFields
<1>4. /\ WindowOpen' = WindowOpen /\ Base' = Base
      /\ Counted' = Counted \cup {Len(calls) + 1}
  <2>1. CASE WindowOpen
    BY <1>1, <1>2, <2>1, OpenCall DEF WindowOpen
  <2>2. CASE ~ WindowOpen
    <3>1. ~ (c.at - origin >= Grace)
      BY <1>1, <1>2, <2>2 DEF Crosses, HInv, Grace
    <3>2. /\ ~ WindowOpen' /\ Base' = Base
          /\ Counted' = Counted \cup (IF c.stop THEN {} ELSE {Len(calls) + 1})
      BY <1>1, <1>2, <2>2, <3>1, ClosedCall
    <3>3. QED
      BY <1>1, <2>2, <3>2 DEF WindowOpen
  <2>3. QED
    BY <2>1, <2>2
<1>5. meter.baseTime = Base /\ meter.graceEnded = WindowOpen
  BY DEF HInv
<1>6. FiniteUnits' /\ LongestSpan' /\ meter'.bytes = Cardinality(Units(Counted, calls))'
  BY <1>1, <1>2, <1>3, <1>4, <1>5, CountedCall
<1>7. HistoryType' /\ InOrder'
  BY <1>1, <1>2, <1>3, OrderKept
<1>8. QED
  BY <1>3, <1>4, <1>5, <1>6, <1>7 DEF HInv

\* The sample that starts the measurement counts, and nothing before it does.
LEMMA AddStarts ==
  ASSUME HInv, NEW n \in Nat, NEW t \in Nat, t >= now, Add(n, t), origin = Never
  PROVE  HInv'
<1> DEFINE c == [stop |-> FALSE, n |-> n, at |-> t]
           x == Len(calls) + 1
           s == MeterStart(meter, t)
<1>1. Calling(c) /\ ~ c.stop /\ c.n = n /\ c.at = t
  BY AddCalls
<1> HIDE DEF c
<1>2. /\ meter \in Meter /\ meter.started = Never /\ origin' = t
      /\ meter' = MeterAdd(meter, n, t) /\ t # Never /\ meter.grace \in Nat
  BY DEF HInv, HistoryType, InOrder, Add, Never, Meter
<1>3. /\ s \in Meter /\ s.grace = meter.grace /\ s.started = t /\ s.baseTime = t
      /\ (s.graceEnded <=> meter.grace = 0) /\ s.bytes = 0 /\ s.elapsed = 0
  BY <1>2, StartFields
<1>4. meter' = MeterAdd(s, n, t)
  BY <1>2, ImplicitStart
<1> HIDE DEF s
<1>5. ~ Crosses(s, t)
  BY <1>2, <1>3 DEF Crosses
<1>6. /\ meter' \in Meter /\ meter'.started = t /\ meter'.baseTime = t
      /\ (meter'.graceEnded <=> Grace = 0) /\ meter'.bytes = n /\ meter'.elapsed = 0
  BY <1>2, <1>3, <1>4, <1>5, AddFields DEF Grace
<1>7. /\ x \in Nat /\ x > 0 /\ DOMAIN calls' = DOMAIN calls \cup {x} /\ Grace' = Grace
      /\ \A i \in DOMAIN calls : calls'[i] = calls[i]
      /\ calls'[x] = c
      /\ Crossers' = {i \in DOMAIN calls : ~ calls[i].stop /\ calls[i].at - origin' >= Grace}
           \cup (IF ~ c.stop /\ c.at - origin' >= Grace THEN {x} ELSE {})
  <2>1. x > 0
    BY BoundaryType
  <2>2. QED
    BY <1>1, <2>1, CallAppended, Zenon
<1>8. /\ \A i \in DOMAIN calls : calls[i].stop /\ calls[i].n = 0 /\ calls[i].at <= t
  <2>1. \A i \in DOMAIN calls : calls[i].at <= now /\ calls[i].stop /\ calls[i].n = 0
    BY DEF HInv, InOrder
  <2>2. calls \in Seq(CallRecord) /\ now \in Nat
    BY DEF HInv, HistoryType
  <2>3. \A r \in CallRecord : r.at \in Nat
    BY DEF CallRecord
  <2> HIDE DEF CallRecord
  <2>4. \A i \in DOMAIN calls : calls[i].at \in Nat
    BY <2>2, <2>3
  <2>5. QED
    BY <2>1, <2>2, <2>4
<1> HIDE DEF x
<1>9. Grace # 0 => Crossers' = {}
  <2>1. ~ (c.at - origin' >= Grace) \/ Grace = 0
    BY <1>1, <1>2 DEF Grace
  <2>2. QED
    BY <1>7, <1>8, <2>1
<1>10. Boundary' = 0 /\ Base' = t /\ WindowOpen' = (Grace = 0)
  BY <1>2, <1>7, <1>9 DEF Boundary, Base, WindowOpen
<1>11. x \in Counted' /\ Counted' \subseteq DOMAIN calls'
  BY <1>1, <1>7, <1>10 DEF Counted
<1>12. IsFiniteSet(Units(Counted, calls))' /\ Cardinality(Units(Counted, calls))' = n
  <2> DEFINE g == calls'
             S == Counted'
  <2>1. Units(S, g) = Units({} \cup {x}, g)
    <3>1. \A i \in S : i = x \/ g[i].n = 0
      BY <1>7, <1>8, <1>11
    <3>2. x \in S
      BY <1>11
    <3> HIDE DEF S, g
    <3>3. QED
      BY <3>1, <3>2 DEF Units
  <2>2. Units({}, calls) = {}
    BY DEF Units
  <2>3. g[x].n = n
    BY <1>1, <1>7
  <2> HIDE DEF S, g
  <2>4. /\ IsFiniteSet(Units({} \cup {x}, g))
        /\ Cardinality(Units({} \cup {x}, g)) = Cardinality(Units({}, calls)) + n
    <3> DEFINE none == {}
    <3>1. x \notin none /\ IsFiniteSet(Units(none, calls)) /\ \A i \in none : g[i] = calls[i]
      BY <2>2, FS_EmptySet
    <3> HIDE DEF none
    <3>2. /\ IsFiniteSet(Units(none \cup {x}, g))
          /\ Cardinality(Units(none \cup {x}, g)) = Cardinality(Units(none, calls)) + n
      BY <2>3, <3>1, MoreUnits
    <3>3. QED
      BY <3>2, Zenon DEF none
  <2>5. Cardinality(Units({} \cup {x}, g)) = n
    BY <2>2, <2>4, FS_EmptySet
  <2>6. QED
    BY <2>1, <2>4, <2>5, Zenon DEF S, g
<1>13. LongestSpan'
  <2>1. \A i \in Counted' : calls'[i].at - t <= 0
    <3>1. \A i \in DOMAIN calls : calls'[i].at <= t /\ calls'[i].at \in Int
      <4>1. HistoryType'
        BY <1>1, <1>2, <1>6, OrderKept
      <4>2. \A r \in CallRecord : r.at \in Int
        BY DEF CallRecord
      <4>3. calls' \in Seq(CallRecord)
        BY <4>1 DEF HistoryType
      <4> HIDE DEF CallRecord
      <4>4. \A i \in DOMAIN calls' : calls'[i].at \in Int
        BY <4>2, <4>3
      <4>5. QED
        BY <1>7, <1>8, <4>4
    <3>2. calls'[x].at = t
      BY <1>1, <1>7
    <3>3. QED
      BY <1>7, <1>11, <3>1, <3>2
  <2>2. Spans' = {0} \cup {calls'[i].at - t : i \in Counted'}
    BY <1>10 DEF Spans
  <2>3. \A y \in Spans' : y <= 0
    BY <2>1, <2>2
  <2>4. QED
    BY <1>2, <1>6, <2>2, <2>3 DEF LongestSpan
<1>14. HistoryType' /\ InOrder'
  BY <1>1, <1>2, <1>6, OrderKept
<1>15. meter'.graceEnded = WindowOpen'
  BY <1>6, <1>10 DEF Meter
<1>16. QED
  BY <1>6, <1>10, <1>12, <1>13, <1>14, <1>15 DEF HInv, FiniteUnits

----------------------------------------------------------------------------
(* The steps.                                                              *)

LEMMA StopStep ==
  ASSUME HInv, NEW t \in Nat, t >= now, Stop(t)
  PROVE  HInv'
<1> DEFINE c == [stop |-> TRUE, n |-> 0, at |-> t]
<1>1. c \in CallRecord /\ c.stop = TRUE /\ c.n = 0 /\ c.at = t
  BY DEF CallRecord
<1>2. /\ meter \in Meter /\ meter.started = origin /\ origin' = origin
      /\ meter' = MeterStop(meter, t) /\ meter.bytes \in Nat
      /\ meter.baseTime = Base /\ meter.graceEnded = WindowOpen
  BY DEF HInv, HistoryType, InOrder, Stop, Meter
<1>3. calls' = Append(calls, c) /\ now' = t
  BY DEF Stop
<1> HIDE DEF c
<1>4. CASE WindowOpen
  <2>1. meter' = Extended(meter, t) /\ origin # Never
    BY <1>2, <1>4 DEF MeterStop, WindowOpen
  <2>2. /\ meter' \in Meter /\ meter'.grace = meter.grace /\ meter'.started = origin
        /\ meter'.baseTime = Base /\ meter'.graceEnded = WindowOpen
        /\ meter'.bytes = meter.bytes + c.n
        /\ meter'.elapsed = IF c.at - Base > meter.elapsed THEN c.at - Base ELSE meter.elapsed
    <3> DEFINE s == Extended(meter, t)
    <3>1. /\ s \in Meter /\ s.grace = meter.grace /\ s.started = meter.started
          /\ s.baseTime = meter.baseTime /\ s.graceEnded = meter.graceEnded
          /\ s.bytes = meter.bytes
          /\ s.elapsed = IF t - meter.baseTime > meter.elapsed THEN t - meter.baseTime
                                                               ELSE meter.elapsed
      BY <1>2, ExtendedFields
    <3> HIDE DEF s
    <3>2. meter' = s /\ meter.bytes + c.n = meter.bytes
      BY <1>1, <1>2, <2>1 DEF s
    <3>3. QED
      BY <1>1, <1>2, <3>1, <3>2
  <2>3. Calling(c)
    BY <1>1, <1>3, <2>2 DEF Calling
  <2>4. /\ WindowOpen' /\ Base' = Base /\ Counted' = Counted \cup {Len(calls) + 1}
    BY <1>2, <1>4, <2>3, OpenCall
  <2>5. FiniteUnits' /\ LongestSpan' /\ meter'.bytes = Cardinality(Units(Counted, calls))'
    BY <1>2, <2>1, <2>2, <2>3, <2>4, CountedCall
  <2>6. HistoryType' /\ InOrder'
    BY <1>1, <1>2, <2>2, <2>3, OrderKept
  <2>7. WindowOpen' = WindowOpen
    BY <1>4, <2>4 DEF WindowOpen
  <2>8. QED
    BY <2>2, <2>4, <2>5, <2>6, <2>7 DEF HInv
<1>5. CASE ~ WindowOpen
  <2>1. meter' = meter
    BY <1>2, <1>5 DEF MeterStop
  <2>2. Calling(c)
    BY <1>1, <1>3, <2>1 DEF Calling
  <2>3. /\ ~ WindowOpen' /\ Base' = Base /\ Counted' = Counted
    BY <1>1, <1>2, <1>5, <2>2, ClosedCall
  <2>4. \A i \in DOMAIN calls : calls'[i] = calls[i]
    BY <2>2, CallAppended
  <2>5. Counted \subseteq DOMAIN calls
    BY BoundaryType
  <2>6. Units(Counted, calls)' = Units(Counted, calls)
    BY <2>3, <2>4, <2>5 DEF Units
  <2>7. Spans' = Spans
    BY <2>3, <2>4, <2>5 DEF Spans
  <2>8. FiniteUnits' /\ LongestSpan'
    BY <1>2, <2>1, <2>6, <2>7 DEF HInv, FiniteUnits, LongestSpan
  <2>9. HistoryType' /\ InOrder'
    BY <1>1, <1>2, <2>1, <2>2, OrderKept
  <2>10. WindowOpen' = WindowOpen
    BY <1>5, <2>3 DEF WindowOpen
  <2>11. QED
    BY <1>2, <2>1, <2>3, <2>6, <2>8, <2>9, <2>10 DEF HInv
<1>6. QED
  BY <1>4, <1>5

LEMMA StartStep ==
  ASSUME HInv, NEW t \in Nat, Start(t)
  PROVE  HInv'
<1>1. /\ meter' = MeterStart(meter, t) /\ meter \in Meter /\ now' = t /\ origin' = t
      /\ calls' = <<>> /\ t # Never /\ DOMAIN calls' = {}
  BY DEF Start, HInv, HistoryType, Never
<1>2. /\ meter' \in Meter /\ meter'.grace = meter.grace /\ meter'.started = t
      /\ meter'.baseTime = t /\ (meter'.graceEnded <=> meter'.grace = 0)
      /\ meter'.bytes = 0 /\ meter'.elapsed = 0
  BY <1>1, StartFields
<1>3. Crossers' = {} /\ Counted' = {}
  BY <1>1 DEF Crossers, Counted
<1>4. Boundary' = 0
  BY <1>3 DEF Boundary
<1>5. Base' = t /\ WindowOpen' = (meter'.grace = 0)
  BY <1>1, <1>3, <1>4 DEF Base, WindowOpen, Grace
<1>6. FiniteUnits' /\ LongestSpan' /\ meter'.bytes = Cardinality(Units(Counted, calls))'
  BY <1>2, <1>3, NothingCounted
<1>7. HistoryType' /\ InOrder'
  BY <1>1, <1>2 DEF HistoryType, InOrder
<1>8. meter'.graceEnded = WindowOpen'
  BY <1>2, <1>5 DEF Meter
<1>9. QED
  BY <1>2, <1>5, <1>6, <1>7, <1>8 DEF HInv

LEMMA HInitInv == HInit => HInv
<1> SUFFICES ASSUME HInit PROVE HInv
  OBVIOUS
<1>1. PICK g \in Graces : meter = NewMeter(g)
  BY DEF HInit
<1>2. now = 0 /\ origin = Never /\ calls = <<>> /\ g \in Nat /\ DOMAIN calls = {}
  BY MeterHistoryAssumption DEF HInit
<1>3. /\ meter \in Meter /\ meter.started = Never /\ meter.baseTime = Never
      /\ ~ meter.graceEnded /\ meter.bytes = 0 /\ meter.elapsed = 0
  BY <1>1, <1>2 DEF NewMeter, Meter, Never
<1>4. Crossers = {} /\ Counted = {} /\ Boundary = 0
  BY <1>2 DEF Crossers, Counted, Boundary
<1>5. Base = Never /\ ~ WindowOpen
  BY <1>2, <1>4 DEF Base, WindowOpen
<1>6. Units(Counted, calls) = {}
  BY <1>4 DEF Units
<1>7. HistoryType /\ InOrder
  BY <1>2, <1>3 DEF HistoryType, InOrder, Never
<1>8. FiniteUnits /\ LongestSpan /\ meter.bytes = Cardinality(Units(Counted, calls))
  BY <1>2, <1>3, <1>6, FS_EmptySet DEF FiniteUnits, LongestSpan
<1>9. meter.graceEnded = WindowOpen
  BY <1>3, <1>5 DEF Meter, WindowOpen
<1>10. QED
  BY <1>3, <1>5, <1>7, <1>8, <1>9 DEF HInv

LEMMA HStep == HInv /\ [HNext]_hvars => HInv'
<1> SUFFICES ASSUME HInv, [HNext]_hvars PROVE HInv'
  OBVIOUS
<1>1. CASE HNext
  <2>1. PICK t \in now .. MaxTime :
          \/ Start(t)
          \/ (\E n \in Sizes : Add(n, t)) \/ Stop(t)
    BY <1>1 DEF HNext
  <2>2. t \in Nat /\ t >= now
    BY MeterHistoryAssumption DEF HInv, HistoryType
  <2>3. CASE Start(t)
    BY <2>2, <2>3, StartStep
  <2>4. CASE Stop(t)
    BY <2>2, <2>4, StopStep
  <2>5. CASE \E n \in Sizes : Add(n, t)
    <3>1. PICK n \in Nat : Add(n, t)
      BY <2>5, MeterHistoryAssumption
    <3>2. QED
      BY <2>2, <3>1, AddStarts, AddCrosses, AddCounts
  <2>6. QED
    BY <2>1, <2>3, <2>4, <2>5
<1>2. CASE UNCHANGED hvars
  BY <1>2 DEF hvars, HInv, HistoryType, InOrder, FiniteUnits, LongestSpan, Units, Counted,
              WindowOpen, Base, Spans, Boundary, Crossers, Grace
<1>3. QED
  BY <1>1, <1>2

(***************************************************************************)
(* The meter's counters are what the documentation reads off the history,  *)
(* for every grace period, every sizes and times of samples, and however   *)
(* Start, Add and Stop follow each other.                                  *)
(***************************************************************************)
THEOREM MeterMatches == HSpec => []MatchesReference
<1>1. HInv => MatchesReference
  <2> SUFFICES ASSUME HInv PROVE MatchesReference
    OBVIOUS
  <2>1. RefBytes = Cardinality(Units(Counted, calls))
    BY DEF RefBytes, Units
  <2>2. RefElapsed = meter.elapsed
    <3>1. CASE origin = Never
      BY <3>1 DEF RefElapsed, HInv, LongestSpan
    <3>2. CASE origin # Never
      <4>1. meter.elapsed \in Spans /\ \A y \in Spans : y <= meter.elapsed
        BY <3>2 DEF HInv, LongestSpan
      <4>2. Max(Spans) = meter.elapsed
        BY <4>1, BoundaryType, MaxIs
      <4>3. QED
        BY <3>2, <4>2 DEF RefElapsed
    <3>3. QED
      BY <3>1, <3>2
  <2>3. QED
    BY <2>1, <2>2 DEF HInv, MatchesReference
<1>2. QED
  BY <1>1, HInitInv, HStep, PTL DEF HSpec

=============================================================================
