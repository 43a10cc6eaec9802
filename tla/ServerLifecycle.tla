-------------------------- MODULE ServerLifecycle --------------------------
(***************************************************************************)
(* The server process, cmd/go-speedtest/main.go: the requests of           *)
(* PayloadServer, the ingestion of results into the telemetry store, and   *)
(* main, which on a signal drains the connections for at most              *)
(* shutdownTimeout, closes the store and exits.                            *)
(*                                                                         *)
(* Shutdown waits for the requests of connections that net/http tracks; it *)
(* forgets a connection once it is hijacked, as the websocket handshake    *)
(* does and, with -http2, h2c for every connection that speaks HTTP/2.     *)
(***************************************************************************)
EXTENDS PayloadServer

CONSTANT
  SQLite    \* -telemetry sqlite

ASSUME LifecycleAssumption == SQLite \in BOOLEAN

VARIABLES
  main,     \* where run() stands
  cut,      \* whether it gave up waiting: forced close or a listener error
  open,     \* whether the store is open
  rows,     \* the results it holds
  late      \* requests whose Save met a closed store

mvars == <<main, cut, open>>
lvars == <<pc, kind, ip, size, h2, done, status, hasty, active, started, completed,
           streams, served, received, main, cut, open, rows, late>>

LifecycleTypeOK ==
  /\ ServerTypeOK
  /\ main \in {"serving", "draining", "returning", "exited"}
  /\ cut \in BOOLEAN
  /\ open \in BOOLEAN
  /\ rows \subseteq Request
  /\ late \subseteq Request

LifecycleInit ==
  /\ ServerInit
  /\ main = "serving"
  /\ cut = FALSE
  /\ open = TRUE
  /\ rows = {}
  /\ late = {}

----------------------------------------------------------------------------
counters == <<done, hasty, active, series, bytes>>

\* A connection brings a request, perhaps one accepted before the listener was
\* closed; handleResultsIngest is not a test.
Connect(r) ==
  /\ main \in {"serving", "draining"}
  /\ \/ Arrive(r)
     \/ /\ Move(r, "idle", "save")
        /\ kind' = [kind EXCEPT ![r] = "results"]
        /\ Speaks(r)
        /\ UNCHANGED <<ip, size, status>> /\ UNCHANGED counters
  /\ UNCHANGED mvars /\ UNCHANGED <<rows, late>>

\* A wrong token, an undecodable body or a negative metric.
RejectResult(r) ==
  /\ Move(r, "save", "closed")
  /\ Answer(r, 400)
  /\ UNCHANGED request /\ UNCHANGED counters
  /\ UNCHANGED mvars /\ UNCHANGED <<rows, late>>

\* Faulty variant: the error of Save is dropped.
SaveIgnoringError(r) ==
  /\ Move(r, "save", "closed")
  /\ rows' \in {rows, rows \cup {r}}
  /\ Answer(r, 200)
  /\ late' = IF open THEN late ELSE late \cup {r}
  /\ UNCHANGED request /\ UNCHANGED counters
  /\ UNCHANGED mvars

\* Store.Save: the sqlite store inserts the row or fails, and an insert that is
\* cancelled may have taken place; the default store keeps nothing.
Save(r, ok) ==
  \/ ~ SQLite /\ ok /\ UNCHANGED <<rows, late>>
  \/ SQLite /\ open /\ ok /\ rows' = rows \cup {r} /\ UNCHANGED late
  \/ SQLite /\ open /\ ~ ok /\ rows' \in {rows, rows \cup {r}} /\ UNCHANGED late
  \/ SQLite /\ ~ open /\ ~ ok /\ late' = late \cup {r} /\ UNCHANGED rows

SaveResult(r) ==
  /\ Move(r, "save", "closed")
  /\ \E ok \in BOOLEAN : Save(r, ok) /\ Answer(r, IF ok THEN 200 ELSE 500)
  /\ UNCHANGED request /\ UNCHANGED counters
  /\ UNCHANGED mvars

Serve(r) ==
  /\ Middleware(r) \/ Handler(r)
  /\ UNCHANGED mvars /\ UNCHANGED <<rows, late>>

----------------------------------------------------------------------------
\* net/http waits for these before Shutdown returns.
Tracked == {r \in Request : ~ h2[r] /\ ~ (kind[r] = "ws" /\ pc[r] # "acquire")}

Quiet == \A r \in Tracked : pc[r] \in {"idle", "closed"}

RequestsStay == UNCHANGED pvars /\ UNCHANGED <<rows, late>>

\* SIGINT or SIGTERM: the listener is closed.
Signal ==
  /\ main = "serving" /\ main' = "draining"
  /\ UNCHANGED <<cut, open>> /\ RequestsStay

\* Faulty variant: Shutdown is not called.
ShutdownSkipped ==
  /\ main = "draining" /\ main' = "returning"
  /\ UNCHANGED <<cut, open>> /\ RequestsStay

\* Shutdown returns once the tracked connections are idle.
ShutdownReturns ==
  /\ main = "draining" /\ Quiet /\ main' = "returning"
  /\ UNCHANGED <<cut, open>> /\ RequestsStay

\* Faulty variant: Shutdown is called without a timeout.
ShutdownForever ==
  /\ main = "draining" /\ Quiet /\ main' = "returning"
  /\ cut' = TRUE
  /\ UNCHANGED open /\ RequestsStay

\* shutdownTimeout: the connections are closed under their handlers.
ShutdownTimesOut ==
  /\ main = "draining" /\ main' = "returning"
  /\ cut' = TRUE
  /\ UNCHANGED open /\ RequestsStay

\* ListenAndServe returns an error.
ServeFails ==
  /\ main = "serving" /\ main' = "returning"
  /\ cut' = TRUE
  /\ UNCHANGED open /\ RequestsStay

\* The deferred store.Close.
CloseStore ==
  /\ main = "returning" /\ open
  /\ open' = FALSE
  /\ UNCHANGED <<main, cut>> /\ RequestsStay

\* The process ends with main, and every handler with it.
Exit ==
  /\ main = "returning" /\ ~ open
  /\ main' = "exited"
  /\ UNCHANGED <<cut, open>> /\ RequestsStay

Alive == main # "exited"

LifecycleNext ==
  \/ Alive /\ \E r \in Request :
       Connect(r) \/ RejectResult(r) \/ SaveResult(r) \/ Serve(r)
  \/ Signal \/ ShutdownReturns \/ ShutdownTimesOut \/ ServeFails
  \/ CloseStore \/ Exit

LifecycleSpec == LifecycleInit /\ [][LifecycleNext]_lvars

\* A step of the server at r that waits for no client.
OwnStep(r) ==
  \/ RejectResult(r) \/ SaveResult(r)
  \/ /\ \/ Middleware(r) \/ BadChunks(r) \/ UploadDeadline(r)
        \/ WsPanics(r) \/ WsWaits(r) \/ WsDeadline(r)
     /\ UNCHANGED mvars /\ UNCHANGED <<rows, late>>

\* Goroutines that can run do, timers fire; nothing is assumed of the clients
\* and of signals.
FairLifecycle ==
  /\ LifecycleSpec
  /\ \A r \in Request : WF_lvars(Alive /\ OwnStep(r))
  /\ WF_lvars(ShutdownReturns \/ ShutdownTimesOut)
  /\ WF_lvars(CloseStore) /\ WF_lvars(Exit)

----------------------------------------------------------------------------
(***************************************************************************)
(* After a shutdown that was not forced no request over HTTP/1.1 was cut   *)
(* short, and none of its results met a closed store.  Even under a forced *)
(* one no id was handed out for a result that is not in the store.         *)
(***************************************************************************)
DrainIsComplete ==
  /\ (main \in {"returning", "exited"} /\ ~ cut) => Quiet
  /\ \A r \in late : cut \/ h2[r]
  /\ SQLite => \A r \in OfKind("results") : status[r] = 200 => r \in rows

(***************************************************************************)
(* The server stops after a signal, however long its clients stall.        *)
(***************************************************************************)
ServerStops == main = "draining" ~> main = "exited"

Over(r) == pc[r] = "closed" \/ ~ Alive

(***************************************************************************)
(* A client cannot hold a slot with an upload it does not finish, nor with *)
(* an echo connection over which nothing moves: a message is received or   *)
(* sent, or the slot is given back.                                        *)
(***************************************************************************)
SilenceEndsTests ==
  \A r \in Request :
    /\ Serves(r, "upload") ~> Over(r)
    /\ Serves(r, "ws") ~> (pc[r] = "sending" \/ Over(r))
    /\ (kind[r] = "ws" /\ pc[r] = "sending") ~> (pc[r] = "serving" \/ Over(r))

(***************************************************************************)
(* What server.go says of the timeouts it leaves at zero: the measurement  *)
(* handlers set their own per-request deadlines, so every test ends.       *)
(***************************************************************************)
DownloadsEnd == \A r \in Request : Serves(r, "download") ~> Over(r)

----------------------------------------------------------------------------
\* The requests that have a slot of client i.
Holders(i) == {r \in At(Holding) : ip[r] = i}

SG == INSTANCE SlotGate WITH Addr <- Ip, Call <- Request,
                             inside <- [i \in Ip |-> Holders(i)]

(***************************************************************************)
(* The middleware keeps to the interface of the limiter on its side: it    *)
(* gives back each slot it was given, of the same address and once, on     *)
(* every path through a handler and through the end of the process.        *)
(***************************************************************************)
ImplementsSlotGate == SG!SGSpec

=============================================================================
