---------------------------- MODULE MeterHistory ----------------------------
(***************************************************************************)
(* A meter with the history of its calls, to compare its counters with     *)
(* what the documentation of the measurement defines from that history.    *)
(***************************************************************************)
EXTENDS ThroughputMeter, Sequences, FiniteSetsExt

CONSTANTS
  Graces,    \* grace periods in ticks
  Sizes,     \* sample sizes
  MaxTime,   \* bound on time
  MaxCalls   \* bound on Add and Stop calls

ASSUME MeterHistoryAssumption ==
  /\ Graces \subseteq Nat /\ Sizes \subseteq Nat \ {0}
  /\ MaxTime \in Nat /\ MaxCalls \in Nat

VARIABLES
  meter,
  now,      \* time of the latest call
  origin,   \* when the measurement began, or Never
  calls     \* the Add and Stop calls since, in order

hvars == <<meter, now, origin, calls>>

Grace == meter.grace

HInit ==
  /\ \E g \in Graces : meter = NewMeter(g)
  /\ now = 0
  /\ origin = Never
  /\ calls = <<>>

\* Start begins a measurement; a meter can be started again.
Start(t) ==
  /\ meter' = MeterStart(meter, t)
  /\ now' = t
  /\ origin' = t
  /\ calls' = <<>>

Add(n, t) ==
  /\ meter' = MeterAdd(meter, n, t)
  /\ now' = t
  /\ origin' = IF origin = Never THEN t ELSE origin
  /\ calls' = Append(calls, [stop |-> FALSE, n |-> n, at |-> t])

Stop(t) ==
  /\ meter' = MeterStop(meter, t)
  /\ now' = t
  /\ UNCHANGED origin
  /\ calls' = Append(calls, [stop |-> TRUE, n |-> 0, at |-> t])

HNext ==
  \E t \in now .. MaxTime :
    \/ Start(t)
    \/ /\ Len(calls) < MaxCalls
       /\ (\E n \in Sizes : Add(n, t)) \/ Stop(t)

HSpec == HInit /\ [][HNext]_hvars

----------------------------------------------------------------------------
\* The reference: read off the whole history.

Crossers ==
  {i \in DOMAIN calls : ~ calls[i].stop /\ calls[i].at - origin >= Grace}

\* The last call that does not count: 0 when every call counts.
Boundary == IF Grace = 0 \/ Crossers = {} THEN 0 ELSE Min(Crossers)

WindowOpen == origin # Never /\ (Grace = 0 \/ Crossers # {})

Base == IF Boundary = 0 THEN origin ELSE calls[Boundary].at

\* A Stop says something only about an open window.
Counted ==
  {i \in DOMAIN calls : i > Boundary /\ (calls[i].stop => WindowOpen)}

\* Their bytes, one by one: byte k of call i.
RefBytes == Cardinality(UNION {{i} \X (1 .. calls[i].n) : i \in Counted})

\* The times from the base to each of them.
Spans == {0} \cup {calls[i].at - Base : i \in Counted}

RefElapsed == IF origin = Never THEN 0 ELSE Max(Spans)

(***************************************************************************)
(* The incremental counters equal the definition over the history: the     *)
(* bytes after the sample that crossed the grace boundary, over the time   *)
(* from that sample to the last call, for every mix of Start, Add and Stop *)
(* (an implicit start, a Stop before the boundary, an Add after Stop).     *)
(***************************************************************************)
MatchesReference ==
  /\ meter.bytes = RefBytes
  /\ meter.elapsed = RefElapsed
  /\ meter.graceEnded = WindowOpen

=============================================================================
