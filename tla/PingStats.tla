----------------------------- MODULE PingStats -----------------------------
(***************************************************************************)
(* Ping and jitter out of round-trip times, twice: PingStats of            *)
(* internal/measure, which the CLI uses, and addSample of the browser's    *)
(* worker.js, as operators on records.                                     *)
(*                                                                         *)
(* The weights of the jitter average are tenths, so that jitter is counted *)
(* in Unit-ths of a tick, Unit a power of ten with enough zeros for the    *)
(* samples of a test.  What a double rounds is left out.                   *)
(***************************************************************************)
EXTENDS Integers

CONSTANT Unit

ASSUME UnitAssumption == Unit \in Nat \ {0}

Distance(a, b) == IF a > b THEN a - b ELSE b - a

\* A spike is followed at once, a calm one slowly.
Averaged(j, inst) ==
  IF inst > j THEN (3 * j + 7 * inst) \div 10 ELSE (8 * j + 2 * inst) \div 10

----------------------------------------------------------------------------
Stats == [min : Nat, last : Nat, count : Nat, jitter : Nat, init : BOOLEAN]

NewPingStats == [min |-> 0, last |-> 0, count |-> 0, jitter |-> 0, init |-> FALSE]

\* JitterEWMA.Update: the first change is taken as it is.
Updated(p, inst) ==
  [p EXCEPT !.init = TRUE, !.jitter = IF p.init THEN Averaged(@, inst) ELSE inst]

\* Faulty variant: changes are taken from the best time, not from the last.
PingAddFromMin(p, rtt) ==
  LET q == IF p.count = 0 THEN p ELSE Updated(p, Unit * Distance(rtt, p.min)) IN
  [min |-> IF p.count = 0 \/ rtt < p.min THEN rtt ELSE p.min, last |-> rtt,
   count |-> p.count + 1, jitter |-> q.jitter, init |-> q.init]

\* PingStats.Add
PingAdd(p, rtt) ==
  LET q == IF p.count = 0 THEN p ELSE Updated(p, Unit * Distance(rtt, p.last)) IN
  [min |-> IF p.count = 0 \/ rtt < p.min THEN rtt ELSE p.min, last |-> rtt,
   count |-> p.count + 1, jitter |-> q.jitter, init |-> q.init]

----------------------------------------------------------------------------
\* resetPing: minPing is Infinity and prevRtt null.
NotYet == -1

WorkerStats ==
  [minPing : Nat \cup {NotYet}, jitter : Nat, prevRtt : Nat \cup {NotYet}]

NewWorkerPing == [minPing |-> NotYet, jitter |-> 0, prevRtt |-> NotYet]

\* addSample: the average starts from zero.
AddSample(q, rtt) ==
  [minPing |-> IF q.minPing = NotYet \/ rtt < q.minPing THEN rtt ELSE q.minPing,
   jitter  |-> IF q.prevRtt = NotYet THEN q.jitter
               ELSE Averaged(q.jitter, Unit * Distance(rtt, q.prevRtt)),
   prevRtt |-> rtt]

=============================================================================
