---------------------------- MODULE BrowserPage ----------------------------
(***************************************************************************)
(* The page, webui/assets/speedtest.js: one button starts a run in a new   *)
(* worker and aborts it; the result of a run is posted to the server.      *)
(*                                                                         *)
(* Messages of a worker reach the page in order.  terminate() stops a      *)
(* worker and drops the messages the page has not taken.                   *)
(***************************************************************************)
EXTENDS BrowserWorker

VARIABLES
  cfg,        \* config.json: none yet, loaded or failed
  running,
  worker,     \* the current run, 0 for null
  aborting,   \* the page is inside abort(), the message is posted
  last,       \* number of the last run started
  submitted,  \* how often the result of each run was posted
  cancelled   \* history: the runs the user aborted

pagevars == <<w, cfg, running, worker, aborting, last, submitted, cancelled>>

PageTypeOK ==
  /\ WorkerTypeOK
  /\ cfg \in {"none", "loaded", "failed"}
  /\ running \in BOOLEAN
  /\ worker \in Run \cup {0}
  /\ aborting \in BOOLEAN
  /\ last \in Run \cup {0}
  /\ submitted \in [Run -> Nat]
  /\ cancelled \subseteq Run

PageInit ==
  /\ w = [r \in Run |-> Gone]
  /\ cfg = "none"
  /\ running = FALSE
  /\ worker = 0
  /\ aborting = FALSE
  /\ last = 0
  /\ submitted = [r \in Run |-> 0]
  /\ cancelled = {}

\* init: a failure disables the button.
LoadConfig ==
  /\ cfg = "none"
  /\ cfg' \in {"loaded", "failed"}
  /\ UNCHANGED <<w, running, worker, aborting, last, submitted, cancelled>>

\* start: possible before the configuration has arrived.
ClickStart ==
  /\ ~ running /\ cfg # "failed" /\ last + 1 \in Run
  /\ running' = TRUE
  /\ last' = last + 1
  /\ worker' = last + 1
  /\ w' = [w EXCEPT ![last + 1] = Created(cfg = "loaded")]
  /\ UNCHANGED <<cfg, aborting, submitted, cancelled>>

\* Faulty variant: the worker is forgotten but not terminated.
FinishRunForgets ==
  /\ running' = FALSE
  /\ worker' = 0
  /\ UNCHANGED w

FinishRun ==
  /\ running' = FALSE
  /\ worker' = 0
  /\ w' = IF worker # 0 THEN [w EXCEPT ![worker] = Gone] ELSE w

\* abort, first half: the worker may run before it is terminated.
ClickAbort ==
  /\ running /\ ~ aborting /\ cfg # "failed"
  /\ aborting' = TRUE
  /\ cancelled' = cancelled \cup {worker}
  /\ w' = [w EXCEPT ![worker].in = Append(@, "abort")]
  /\ UNCHANGED <<cfg, running, worker, last, submitted>>

AbortReturns ==
  /\ aborting
  /\ aborting' = FALSE
  /\ FinishRun
  /\ UNCHANGED <<cfg, last, submitted, cancelled>>

Arrives(r, m) == ~ aborting /\ w[r].out # <<>> /\ Head(w[r].out) = m

\* Faulty variant: the result is posted before the run is over.
OnResultStaying(r) ==
  /\ Arrives(r, "result")
  /\ w' = [w EXCEPT ![r].out = Tail(@)]
  /\ submitted' = [submitted EXCEPT ![r] = @ + 1]
  /\ UNCHANGED <<cfg, running, worker, aborting, last, cancelled>>

\* onResult, with submitResult.
OnResult(r) ==
  /\ Arrives(r, "result")
  /\ FinishRun
  /\ submitted' = [submitted EXCEPT ![r] = @ + 1]
  /\ UNCHANGED <<cfg, aborting, last, cancelled>>

\* The aborted message, or worker.onerror.
OnEnd(r) ==
  /\ Arrives(r, "aborted") \/ Arrives(r, "error")
  /\ FinishRun
  /\ UNCHANGED <<cfg, aborting, last, submitted, cancelled>>

Worker(r) ==
  /\ WorkerStep(r)
  /\ UNCHANGED <<cfg, running, worker, aborting, last, submitted, cancelled>>

PageNext ==
  \/ LoadConfig \/ ClickStart \/ ClickAbort \/ AbortReturns
  \/ \E r \in Run : OnResult(r) \/ OnEnd(r) \/ Worker(r)

PageSpec == PageInit /\ [][PageNext]_pagevars

Fires(A) == A /\ UNCHANGED <<cfg, running, worker, aborting, last, submitted, cancelled>>

\* Both threads run, timers fire, a socket opens or fails, and what the server
\* was asked is answered or fails.  The user need not click.
FairPage ==
  /\ PageSpec
  /\ WF_pagevars(AbortReturns)
  /\ \A r \in Run :
       /\ WF_pagevars(OnResult(r) \/ OnEnd(r))
       /\ WF_pagevars(w[r].alive /\ Fires(OnStart(r) \/ OnAbort(r)))
       /\ WF_pagevars(w[r].alive /\ Fires(FailTimer(r)))
       /\ WF_pagevars(w[r].alive /\ Fires(GraceTimer(r)))
       /\ WF_pagevars(w[r].alive /\ Fires(EndTimer(r)))
       /\ WF_pagevars(w[r].alive /\ Fires(PingXhrEnds(r)))
       /\ WF_pagevars(w[r].alive /\ Fires(WsMessage(r) \/ WsCloses(r) \/ WsFails(r)))

----------------------------------------------------------------------------
(***************************************************************************)
(* One run at a time: the button says Abort exactly while there is a       *)
(* worker, every other worker is gone, and so none of its messages can end *)
(* or report into a later run.                                             *)
(***************************************************************************)
OneRunAtATime ==
  /\ running <=> worker # 0
  /\ \A r \in Run : w[r].alive => worker = r

(***************************************************************************)
(* A run posts its result at most once, and a run the user aborted never   *)
(* does, wherever the result was when the button was clicked.              *)
(***************************************************************************)
ResultPostedOnce ==
  \A r \in Run : submitted[r] <= (IF r \in cancelled THEN 0 ELSE 1)

\* The socket opened and closed without an error and without an echo.
Mute(r) ==
  w[r].phase = "ping" /\ w[r].ws = "closed" /\ ~ w[r].usedFallback
    /\ w[r].count = 0 /\ w[r].pingXhrs = 0

(***************************************************************************)
(* Every run ends, with a result, an error or an abort, whatever fails on  *)
(* the way, except when the ping socket closes without having echoed.      *)
(***************************************************************************)
RunEndsUnlessMute ==
  running ~> (~ running \/ \E r \in Run : Mute(r))

(***************************************************************************)
(* What worker.js and DESIGN.md say of the ping: it prefers a WebSocket    *)
(* echo and falls back to requests, so a run gets past it.                 *)
(***************************************************************************)
RunEnds == running ~> ~ running

=============================================================================
