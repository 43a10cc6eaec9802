--------------------------- MODULE TransferPhase ---------------------------
(***************************************************************************)
(* What the download and the upload phase of the CLI share: runDownload    *)
(* and runUpload, cmd/go-speedtest-cli/main.go.                            *)
(*                                                                         *)
(* Each stream is a goroutine that repeats one request until the context   *)
(* of the phase, which times out after grace + duration, is done.  All     *)
(* streams add to one meter, each Add under its mutex with the clock read  *)
(* inside the lock.  The main goroutine waits for the streams, stops the   *)
(* meter and decides whether the phase failed.                             *)
(*                                                                         *)
(* The server and the network are the environment: a request may be        *)
(* answered or fail at any time.  DownloadPhase and UploadPhase add the    *)
(* request itself.                                                         *)
(***************************************************************************)
EXTENDS ThroughputMeter, FiniteSets

CONSTANTS
  Stream,    \* the parallel streams
  Grace,     \* grace period of the phase, ticks
  Duration,  \* measured duration, ticks
  Backoff,   \* retryBackoff, ticks
  MaxTime,   \* bound on the clock, at least Grace + Duration
  MaxMoved   \* bound on the payload units moved in a phase

ASSUME TransferAssumption ==
  /\ IsFiniteSet(Stream) /\ Stream # {}
  /\ Grace \in Nat
  /\ Duration \in Nat \ {0}
  /\ Backoff \in Nat \ {0}
  /\ MaxMoved \in Nat
  /\ MaxTime \in Nat /\ MaxTime >= Grace + Duration

VARIABLES
  clock,
  expired,   \* ctx.Err() # nil
  pc,        \* where each stream stands
  wake,      \* when a stream's backoff timer fires
  hand,      \* bytes a stream has but has not added, and what follows
  meter,
  verdict,   \* running, ok or failed
  moved,     \* history: payload units the streams have moved
  inWindow   \* history: those moved since the meter opened its window

vars == <<clock, expired, pc, wake, hand, meter, verdict, moved, inWindow>>

Total == Grace + Duration

Place == {"loop", "request", "body", "add", "failed", "backoff", "done"}

Hand == [n : Nat, next : {"loop", "body", "failed"}]

Empty == [n |-> 0, next |-> "loop"]

TypeOK ==
  /\ clock \in 0 .. MaxTime
  /\ expired \in BOOLEAN
  /\ pc \in [Stream -> Place]
  /\ wake \in [Stream -> Nat]
  /\ hand \in [Stream -> Hand]
  /\ meter \in Meter
  /\ verdict \in {"running", "ok", "failed"}
  /\ moved \in 0 .. MaxMoved
  /\ inWindow \in 0 .. moved

\* The meter is started before any stream runs.
Init ==
  /\ clock = 0
  /\ expired = FALSE
  /\ pc = [s \in Stream |-> "loop"]
  /\ wake = [s \in Stream |-> 0]
  /\ hand = [s \in Stream |-> Empty]
  /\ meter = MeterStart(NewMeter(Grace), 0)
  /\ verdict = "running"
  /\ moved = 0
  /\ inWindow = 0

----------------------------------------------------------------------------
Goto(s, place) == pc' = [pc EXCEPT ![s] = place]

Rest == <<clock, expired, meter, verdict, moved, inWindow>>

\* for ctx.Err() == nil
LoopTest(s) ==
  /\ pc[s] = "loop"
  /\ Goto(s, IF expired THEN "done" ELSE "request")
  /\ UNCHANGED <<wake, hand>> /\ UNCHANGED Rest

\* Faulty variant: a stream gives up after a failure.
AfterFailureGivesUp(s) ==
  /\ pc[s] = "failed"
  /\ Goto(s, "done")
  /\ UNCHANGED <<wake, hand>> /\ UNCHANGED Rest

\* A failed request ends the stream only if the phase is over.
AfterFailure(s) ==
  /\ pc[s] = "failed"
  /\ Goto(s, IF expired THEN "done" ELSE "backoff")
  /\ wake' = [wake EXCEPT ![s] = IF expired THEN @ ELSE clock + Backoff]
  /\ UNCHANGED hand /\ UNCHANGED Rest

\* sleepCtx: the timer and the context may both be ready.
WakeUp(s) ==
  /\ pc[s] = "backoff"
  /\ clock >= wake[s]
  /\ Goto(s, "loop")
  /\ UNCHANGED <<wake, hand>> /\ UNCHANGED Rest

CancelSleep(s) ==
  /\ pc[s] = "backoff"
  /\ expired
  /\ Goto(s, "done")
  /\ UNCHANGED <<wake, hand>> /\ UNCHANGED Rest

\* Faulty variant: the request is not bound to the context of the phase.
RequestFailsByPeer(s) ==
  /\ pc[s] \in {"request", "body"}
  /\ ~ expired
  /\ Goto(s, "failed")
  /\ UNCHANGED <<wake, hand>> /\ UNCHANGED Rest

\* The request fails: refused, reset, cut off, or the context is done.
RequestFails(s) ==
  /\ pc[s] \in {"request", "body"}
  /\ Goto(s, "failed")
  /\ UNCHANGED <<wake, hand>> /\ UNCHANGED Rest

\* lockedMeter.add: the time is read under the lock.
Record(s) ==
  /\ pc[s] = "add"
  /\ meter' = MeterAdd(meter, hand[s].n, clock)
  /\ inWindow' = IF Crosses(meter, clock) THEN 0 ELSE inWindow
  /\ Goto(s, hand[s].next)
  /\ hand' = [hand EXCEPT ![s] = Empty]
  /\ UNCHANGED <<clock, expired, wake, verdict, moved>>

\* n units move between the server and stream s.
Moves(n) ==
  /\ moved + n <= MaxMoved
  /\ moved' = moved + n
  /\ inWindow' = IF meter.graceEnded THEN inWindow + n ELSE inWindow

\* context.WithTimeout fires some time after its deadline.
Expire ==
  /\ ~ expired
  /\ clock >= Total
  /\ expired' = TRUE
  /\ UNCHANGED <<clock, pc, wake, hand, meter, verdict, moved, inWindow>>

\* Faulty variant: the rule of the comments, a phase fails only if no byte moved.
JudgeEverMoved(m) == IF moved = 0 THEN "failed" ELSE "ok"

\* What the phase reports once the streams are done and the meter stopped.
Judge(m) == IF m.bytes = 0 THEN "failed" ELSE "ok"

Finish ==
  /\ verdict = "running"
  /\ \A s \in Stream : pc[s] = "done"
  /\ meter' = MeterStop(meter, clock)
  /\ verdict' = Judge(meter')
  /\ UNCHANGED <<clock, expired, pc, wake, hand, moved, inWindow>>

Tick ==
  /\ clock < MaxTime
  /\ clock' = clock + 1
  /\ UNCHANGED <<expired, pc, wake, hand, meter, verdict, moved, inWindow>>

LoopStep(s) ==
  \/ LoopTest(s)
  \/ AfterFailure(s)
  \/ WakeUp(s)
  \/ CancelSleep(s)
  \/ RequestFails(s)
  \/ Record(s)

SharedStep == (\E s \in Stream : LoopStep(s)) \/ Expire \/ Finish \/ Tick

\* The runtime runs every goroutine that can run, timers fire, and a done
\* context ends a stream's request, even one that keeps delivering data.
Fairness ==
  /\ WF_vars(Tick) /\ WF_vars(Expire) /\ WF_vars(Finish)
  /\ \A s \in Stream :
       /\ WF_vars(LoopTest(s) \/ AfterFailure(s) \/ Record(s))
       /\ WF_vars(WakeUp(s) \/ CancelSleep(s))
       /\ SF_vars(expired /\ RequestFails(s))

----------------------------------------------------------------------------
\* How many units the streams, at most cap each, have and have not added.
InHand(cap) == Cardinality({u \in Stream \X (1 .. cap) : u[2] <= hand[u[1]].n})

(***************************************************************************)
(* Each stream runs for the whole window: however its requests fail, no    *)
(* stream ends before the context is done.  The reported duration reaches  *)
(* from the opening of the window to the end of the phase, also when every *)
(* stream stalled long before.                                             *)
(***************************************************************************)
WholeWindowReported ==
  /\ \A s \in Stream : pc[s] = "done" => expired
  /\ (verdict # "running" /\ meter.graceEnded) =>
       meter.baseTime >= Grace /\ meter.baseTime + meter.elapsed >= Total

(***************************************************************************)
(* The phase comes to an end, whatever the server does: an unresponsive    *)
(* peer cannot keep the main goroutine in wg.Wait.                         *)
(***************************************************************************)
PhaseEnds == <>(verdict # "running")

=============================================================================
