--------------------------- MODULE BrowserWorker ---------------------------
(***************************************************************************)
(* The measurement worker of the browser, webui/assets/worker.js: ping,    *)
(* download and upload run one after the other in one thread, driven by    *)
(* timers, XHR and WebSocket events and the messages of the page.          *)
(*                                                                         *)
(* Every event handler is one action.  A worker is a record, so that       *)
(* BrowserPage can run one after another.  Progress reports and their      *)
(* rendering are left out; ping and jitter are in PingStats.               *)
(*                                                                         *)
(* Timers fire in the order of their deadlines, those of equal deadlines   *)
(* in the order they were set.                                             *)
(***************************************************************************)
EXTENDS Integers, Sequences

CONSTANTS
  Run,      \* the runs, numbered from 1; each has a worker of its own
  Stream,   \* parallel XHRs of a transfer
  Samples,  \* cfg.ping_samples
  Duration, \* cfg.test_duration_ms
  Grace,    \* the grace period of each transfer
  Size,     \* bytes of a request
  MaxLoaded \* bound on the bytes of a phase

Transfer == {"download", "upload"}

ASSUME WorkerAssumption ==
  /\ Run \subseteq Nat \ {0} /\ Samples \in Nat \ {0}
  /\ Duration \in Nat /\ Grace \in [Transfer -> Nat]
  /\ Size \in Nat /\ MaxLoaded \in Nat

VARIABLE w   \* the worker of each run

NoXhr == [k \in Transfer |-> [s \in Stream |-> "none"]]

None == [k \in Transfer |-> 0]

\* A worker that is not there: not yet created, or terminated.  early and
\* late are history: the bytes before and after the end of the grace period.
Gone ==
  [alive |-> FALSE, phase |-> "new", aborted |-> FALSE, config |-> FALSE,
   ws |-> "none", failTimer |-> FALSE, usedFallback |-> FALSE, count |-> 0,
   pingXhrs |-> 0, xhrCount |-> 0, xhr |-> NoXhr,
   last |-> [s \in Stream |-> 0], loaded |-> 0, graceTimer |-> FALSE,
   graced |-> FALSE, graceLoaded |-> 0, bytes |-> None, early |-> None,
   late |-> None, in |-> <<>>, out |-> <<>>]

\* new Worker and the start message.
Created(config) ==
  [Gone EXCEPT !.alive = TRUE, !.config = config, !.in = <<"start">>]

Phase == {"new", "ping"} \cup Transfer \cup {"over"}

WorkerTypeOK ==
  \A r \in Run :
    /\ DOMAIN w[r] = DOMAIN Gone
    /\ w[r].phase \in Phase
    /\ w[r].ws \in {"none", "connecting", "open", "closed"}
    /\ w[r].count \in 0 .. Samples /\ w[r].xhrCount \in 0 .. Samples
    /\ w[r].pingXhrs \in Nat
    /\ w[r].xhr \in [Transfer -> [Stream -> {"none", "live", "retry"}]]
    /\ w[r].last \in [Stream -> 0 .. Size]
    /\ 0 <= w[r].graceLoaded /\ w[r].graceLoaded <= w[r].loaded

----------------------------------------------------------------------------
(* Handlers as functions of the worker.                                    *)

Post(x, m) == [x EXCEPT !.out = Append(@, m)]

\* An uncaught exception: the page gets an error event.
Throw(x) == Post([x EXCEPT !.phase = "over"], "error")

\* runTransfer: a fresh state, its timers, and all streams are started.
Spawn(x, k) ==
  [x EXCEPT !.phase = k, !.xhr[k] = [s \in Stream |-> "live"],
            !.last = [s \in Stream |-> 0], !.loaded = 0, !.graced = FALSE,
            !.graceLoaded = 0, !.graceTimer = TRUE]

\* stop: the live XHRs of the phase are aborted; its retry timers remain.
Stop(x, k) ==
  [x EXCEPT !.xhr[k] = [s \in Stream |-> IF @[s] = "live" THEN "none" ELSE @[s]],
            !.graceTimer = FALSE]

\* compute: the bytes of the window, or of the phase if it did not open.
Report(x, k) ==
  [x EXCEPT !.bytes[k] = x.loaded - (IF x.graced THEN x.graceLoaded ELSE 0)]

\* The callbacks of runSequence.
Done(x) ==
  IF x.aborted THEN [x EXCEPT !.phase = "over"]
  ELSE CASE x.phase = "ping"     -> Spawn(x, "download")
         [] x.phase = "download" -> Spawn(Report(x, "download"), "upload")
         [] x.phase = "upload"   -> Post([Report(x, "upload") EXCEPT !.phase = "over"], "result")

\* finish: only the first call of a phase counts.
FinishPing(x) == IF x.phase = "ping" THEN Done(x) ELSE x

FinishTransfer(x) == Done(Stop(x, x.phase))

\* next: a request, or the end of the test.
NextPing(x) ==
  IF x.aborted \/ x.xhrCount >= Samples
  THEN FinishPing(x)
  ELSE [x EXCEPT !.pingXhrs = @ + 1]

\* pingXHR
FallBack(x) == NextPing([x EXCEPT !.usedFallback = TRUE])

----------------------------------------------------------------------------
Becomes(r, x) == w' = [w EXCEPT ![r] = x]

\* start: the ping test tries a WebSocket, whose constructor may throw.
OnStart(r) ==
  /\ w[r].in # <<>> /\ Head(w[r].in) = "start"
  /\ LET x == [w[r] EXCEPT !.in = Tail(@), !.phase = "ping"]
     IN  \/ ~ x.config /\ Becomes(r, Throw(x))
         \/ x.config /\ Becomes(r, [x EXCEPT !.ws = "connecting", !.failTimer = TRUE])
         \/ x.config /\ Becomes(r, NextPing(x))

\* abort: currentAbort ends the phase in progress.
OnAbort(r) ==
  /\ w[r].in # <<>> /\ Head(w[r].in) = "abort"
  /\ LET x == [w[r] EXCEPT !.in = Tail(@), !.aborted = TRUE]
     IN  Becomes(r, Post(CASE x.phase = "ping"      -> FinishPing(x)
                           [] x.phase \in Transfer  -> FinishTransfer(x)
                           [] OTHER                 -> x, "aborted"))

WsOpens(r) ==
  /\ w[r].ws = "connecting"
  /\ Becomes(r, [w[r] EXCEPT !.ws = "open", !.failTimer = FALSE])

\* Faulty variant: one message too many.
WsMessageOneMore(r) ==
  /\ w[r].ws = "open"
  /\ LET x == [w[r] EXCEPT !.count = @ + 1]
     IN  Becomes(r, IF x.aborted THEN [w[r] EXCEPT !.ws = "closed"]
                    ELSE IF x.count <= Samples THEN x
                    ELSE FinishPing([x EXCEPT !.ws = "closed"]))

\* The echo arrives; the last one closes the socket.
WsMessage(r) ==
  /\ w[r].ws = "open"
  /\ LET x == [w[r] EXCEPT !.count = @ + 1]
     IN  Becomes(r, IF x.aborted THEN [w[r] EXCEPT !.ws = "closed"]
                    ELSE IF x.count < Samples THEN x
                    ELSE FinishPing([x EXCEPT !.ws = "closed"]))

\* Faulty variant: no onclose.
ClosedUnnoticed(x) == [x EXCEPT !.ws = "closed"]

\* onclose: what was collected is reported.
Closed(x) ==
  IF ~ x.usedFallback /\ x.count > 0 /\ x.count < Samples
  THEN FinishPing([x EXCEPT !.ws = "closed"])
  ELSE [x EXCEPT !.ws = "closed"]

WsCloses(r) ==
  /\ w[r].ws = "open"
  /\ Becomes(r, Closed(w[r]))

\* onerror, followed by onclose.
WsFails(r) ==
  /\ w[r].ws \in {"connecting", "open"}
  /\ LET x == [w[r] EXCEPT !.failTimer = FALSE]
     IN  Becomes(r, Closed(IF ~ x.usedFallback /\ x.count = 0
                           THEN FallBack(x) ELSE x))

\* Faulty variant: the error of the socket it closes falls back once more.
FailTimerFallsBackTwice(r) ==
  /\ w[r].failTimer
  /\ LET x == [w[r] EXCEPT !.failTimer = FALSE, !.ws = "closed"]
     IN  Becomes(r, FallBack(FallBack(x)))

\* The timer of 1.5 s: it closes the socket that did not open.
FailTimer(r) ==
  /\ w[r].failTimer
  /\ Becomes(r, FallBack([w[r] EXCEPT !.failTimer = FALSE, !.ws = "closed"]))

\* A ping request is answered, or fails without a sample.
PingXhrEnds(r) ==
  /\ w[r].pingXhrs > 0
  /\ Becomes(r, NextPing([w[r] EXCEPT !.pingXhrs = @ - 1, !.xhrCount = @ + 1]))

\* Faulty variant: a progress event counts what earlier ones have counted.
DeltaOfAll(loaded, last) == loaded

Delta(loaded, last) == loaded - last

\* onprogress: so many bytes of this request are through.
XhrProgress(r, k, s) ==
  /\ w[r].xhr[k][s] = "live"
  /\ \E loaded \in w[r].last[s] + 1 .. Size :
       LET d == loaded - w[r].last[s] IN
         /\ w[r].loaded + d <= MaxLoaded
         /\ Becomes(r, [w[r] EXCEPT
              !.loaded = @ + Delta(loaded, w[r].last[s]), !.last[s] = loaded,
              !.early[k] = IF w[r].graced THEN @ ELSE @ + d,
              !.late[k] = IF w[r].graced THEN @ + d ELSE @])

\* A stream starts a request if its phase still runs.
Restart(x, k, s, state) ==
  IF x.phase = k THEN [x EXCEPT !.xhr[k][s] = state, !.last[s] = 0]
                 ELSE [x EXCEPT !.xhr[k][s] = "none"]

\* A request of a stream is answered, whatever its status, and the next one
\* starts; or it fails and a timer is set.
XhrEnds(r, k, s) ==
  /\ w[r].xhr[k][s] = "live"
  /\ \E next \in {"live", "retry"} : Becomes(r, Restart(w[r], k, s, next))

\* Faulty variant: the timer does not ask whether the phase still runs.
RetryAlways(r, k, s) ==
  /\ w[r].xhr[k][s] = "retry"
  /\ Becomes(r, [w[r] EXCEPT !.xhr[k][s] = "live"])

\* The timer of 100 ms, which stop does not clear.
Retry(r, k, s) ==
  /\ w[r].xhr[k][s] = "retry"
  /\ Becomes(r, Restart(w[r], k, s, "live"))

\* graceTimer: due before the end, or never.
GraceTimer(r) ==
  /\ w[r].graceTimer /\ Grace[w[r].phase] <= Duration
  /\ Becomes(r, [w[r] EXCEPT !.graceTimer = FALSE, !.graced = TRUE,
                             !.graceLoaded = w[r].loaded])

\* The blob for the upload may not fit into memory.
EndTimer(r) ==
  /\ w[r].phase \in Transfer
  /\ w[r].graceTimer => Grace[w[r].phase] > Duration
  /\ \/ Becomes(r, FinishTransfer(w[r]))
     \/ w[r].phase = "download" /\ ~ w[r].aborted /\ Becomes(r, Throw(Stop(w[r], "download")))

Network(r) ==
  \/ WsOpens(r) \/ WsMessage(r) \/ WsCloses(r) \/ WsFails(r) \/ PingXhrEnds(r)
  \/ \E k \in Transfer, s \in Stream : XhrProgress(r, k, s) \/ XhrEnds(r, k, s)

Timer(r) ==
  \/ FailTimer(r) \/ GraceTimer(r) \/ EndTimer(r)
  \/ \E k \in Transfer, s \in Stream : Retry(r, k, s)

WorkerStep(r) ==
  w[r].alive /\ (OnStart(r) \/ OnAbort(r) \/ Network(r) \/ Timer(r))

----------------------------------------------------------------------------
(***************************************************************************)
(* The phases do not overlap: unless the run was aborted, no ping is under *)
(* way once the download has started, and no request of a transfer outside *)
(* its phase.  Otherwise one measurement would eat the bandwidth of the    *)
(* next.                                                                   *)
(***************************************************************************)
PhasesDoNotOverlap ==
  \A r \in Run :
    /\ \A k \in Transfer, s \in Stream : w[r].xhr[k][s] = "live" => w[r].phase = k
    /\ (w[r].phase \notin {"new", "ping"} /\ ~ w[r].aborted) =>
         w[r].pingXhrs = 0 /\ w[r].ws \in {"none", "closed"}

(***************************************************************************)
(* The ping test runs over one transport at a time, and the fallback to    *)
(* requests is taken at most once: no two loops of requests ever run.      *)
(***************************************************************************)
OnePingLoop ==
  \A r \in Run :
    /\ w[r].pingXhrs <= 1
    /\ w[r].pingXhrs = 1 => w[r].ws \in {"none", "closed"} /\ w[r].count = 0

(***************************************************************************)
(* The result counts every byte of the phase after the grace period, once, *)
(* and none before, whatever requests failed or were started anew in it    *)
(* and wherever the grace period ended in them; but under a grace period   *)
(* longer than the test, exactly what the grace period should leave out.   *)
(***************************************************************************)
WindowIsReported ==
  \A r \in Run : (\E n \in DOMAIN w[r].out : w[r].out[n] = "result") =>
    \A k \in Transfer :
      w[r].bytes[k] = IF Grace[k] <= Duration THEN w[r].late[k] ELSE w[r].early[k]

=============================================================================
