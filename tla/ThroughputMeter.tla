-------------------------- MODULE ThroughputMeter --------------------------
(***************************************************************************)
(* The grace-period throughput meter, internal/measure/measure.go, as      *)
(* operators on a record.  The meter does no I/O and is not safe for       *)
(* concurrent use: its callers pass the time and serialise the calls.      *)
(*                                                                         *)
(* Times are Nat, with Never for the zero time.Time of a meter that was    *)
(* not started.  The overhead factor only scales the final quotient and is *)
(* left out.                                                               *)
(***************************************************************************)
EXTENDS Integers

Never == -1

Meter == [grace : Nat, started : Int, graceEnded : BOOLEAN, baseTime : Int,
          bytes : Nat, elapsed : Nat]

NewMeter(grace) ==
  [grace |-> grace, started |-> Never, graceEnded |-> FALSE,
   baseTime |-> Never, bytes |-> 0, elapsed |-> 0]

\* Without a grace period the window opens at once.
MeterStart(m, now) ==
  [m EXCEPT !.started = now, !.baseTime = now, !.graceEnded = m.grace <= 0,
            !.bytes = 0, !.elapsed = 0]

\* Faulty variant: time is counted from the nominal end of the grace period.
ExtendedFromGrace(m, now) == [m EXCEPT !.elapsed = now - m.started - m.grace]

\* elapsed reaches up to now; it never shrinks.
Extended(m, now) ==
  [m EXCEPT !.elapsed = IF now - m.baseTime > @ THEN now - m.baseTime ELSE @]

\* Faulty variant: the sample exactly at the boundary is still in the grace.
CrossesLate(m, now) == ~ m.graceEnded /\ now - m.started > m.grace

\* The first sample at or after the end of the grace period opens the window.
Crosses(m, now) == ~ m.graceEnded /\ now - m.started >= m.grace

\* Faulty variant: only the time is reset.
MeterResetTimeOnly(m, now) ==
  [m EXCEPT !.graceEnded = TRUE, !.baseTime = now, !.elapsed = 0]

\* That sample is discarded, with every byte and the time counted so far.
MeterReset(m, now) ==
  [m EXCEPT !.graceEnded = TRUE, !.baseTime = now, !.bytes = 0, !.elapsed = 0]

\* The first Add starts a meter that was not started.
MeterAdd(m, n, now) ==
  LET s == IF m.started = Never THEN MeterStart(m, now) ELSE m
  IN  IF Crosses(s, now)
      THEN MeterReset(s, now)
      ELSE Extended([s EXCEPT !.bytes = @ + n], now)

\* Faulty variant: the window ends with its last sample.
MeterStopNothing(m, now) == m

MeterStop(m, now) ==
  IF m.started = Never \/ ~ m.graceEnded THEN m ELSE Extended(m, now)

=============================================================================
