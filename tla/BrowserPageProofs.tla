------------------------- MODULE BrowserPageProofs -------------------------
(***************************************************************************)
(* The page and its workers for any number of runs, streams and samples.   *)
(*                                                                         *)
(* Of a worker the page's properties need only that no handler of its      *)
(* brings it to life or ends it: the page alone does (Keeps, PageInv).     *)
(* The worker's own properties need that every worker the page ever made   *)
(* is Sane: its fields fit its phase, the timers and requests that are     *)
(* left to fire are those of its phase, and its bytes are those its        *)
(* requests have reported.  Each handler preserves that by itself, so the  *)
(* lemmas speak of one worker record, and PageSafe of all of them.         *)
(***************************************************************************)
EXTENDS BrowserPage, TLAPS

\* x is shaped as a worker is.
Shaped(x) == DOMAIN x = DOMAIN Gone

\* What every handler leaves as it is.
Keeps(y, x) == DOMAIN y = DOMAIN x /\ y.alive = x.alive

LEMMA Fields ==
  DOMAIN Gone = {"alive", "phase", "aborted", "config", "ws", "failTimer",
                 "usedFallback", "count", "pingXhrs", "xhrCount", "xhr", "last",
                 "loaded", "graceTimer", "graced", "graceLoaded", "bytes",
                 "early", "late", "in", "out"}
BY DEF Gone

----------------------------------------------------------------------------
(* The handlers, innermost first.                                          *)

LEMMA PostKeeps == ASSUME NEW x, Shaped(x), NEW m PROVE Keeps(Post(x, m), x)
BY Fields DEF Shaped, Keeps, Post

LEMMA ThrowKeeps == ASSUME NEW x, Shaped(x) PROVE Keeps(Throw(x), x)
BY Fields DEF Shaped, Keeps, Post, Throw

LEMMA SpawnKeeps == ASSUME NEW x, Shaped(x), NEW k PROVE Keeps(Spawn(x, k), x)
BY Fields DEF Shaped, Keeps, Spawn

LEMMA StopKeeps == ASSUME NEW x, Shaped(x), NEW k PROVE Keeps(Stop(x, k), x)
BY Fields DEF Shaped, Keeps, Stop

LEMMA ReportKeeps == ASSUME NEW x, Shaped(x), NEW k PROVE Keeps(Report(x, k), x)
BY Fields DEF Shaped, Keeps, Report

LEMMA KeepsTransitive ==
  ASSUME NEW x, NEW y, NEW z, Keeps(y, x), Keeps(z, y) PROVE Keeps(z, x)
BY DEF Keeps

LEMMA KeepsShape == ASSUME NEW x, NEW y, Shaped(x), Keeps(y, x) PROVE Shaped(y)
BY DEF Keeps, Shaped

LEMMA DoneKeeps ==
  ASSUME NEW x, Shaped(x), x.phase \in {"ping"} \cup Transfer
  PROVE  Keeps(Done(x), x)
<1>1. CASE x.aborted
  <2>1. Done(x) = [x EXCEPT !.phase = "over"]
    BY <1>1, Zenon DEF Done
  <2>2. QED
    BY <2>1, Fields DEF Shaped, Keeps
<1>2. CASE ~ x.aborted /\ x.phase = "ping"
  BY <1>2, SpawnKeeps DEF Done
<1>3. CASE ~ x.aborted /\ x.phase = "download"
  <2>1. Done(x) = Spawn(Report(x, "download"), "upload")
    BY <1>3 DEF Done
  <2>2. QED
    BY <2>1, ReportKeeps, SpawnKeeps, KeepsShape, KeepsTransitive
<1>4. CASE ~ x.aborted /\ x.phase = "upload"
  <2> DEFINE y == [Report(x, "upload") EXCEPT !.phase = "over"]
  <2>1. Done(x) = Post(y, "result")
    BY <1>4 DEF Done
  <2>2. Keeps(y, x)
    BY ReportKeeps, Fields DEF Shaped, Keeps
  <2> HIDE DEF y
  <2>3. QED
    BY <2>1, <2>2, PostKeeps, KeepsShape, KeepsTransitive
<1>5. QED
  BY <1>1, <1>2, <1>3, <1>4 DEF Transfer

LEMMA FinishPingKeeps == ASSUME NEW x, Shaped(x) PROVE Keeps(FinishPing(x), x)
BY DoneKeeps DEF FinishPing, Keeps

LEMMA FinishTransferKeeps ==
  ASSUME NEW x, Shaped(x), x.phase \in Transfer PROVE Keeps(FinishTransfer(x), x)
<1>1. Keeps(Stop(x, x.phase), x) /\ Shaped(Stop(x, x.phase))
  BY StopKeeps, KeepsShape
<1>2. Stop(x, x.phase).phase = x.phase
  BY Fields DEF Shaped, Stop
<1>3. QED
  BY <1>1, <1>2, DoneKeeps, KeepsTransitive DEF FinishTransfer

LEMMA NextPingKeeps == ASSUME NEW x, Shaped(x) PROVE Keeps(NextPing(x), x)
<1>1. Keeps([x EXCEPT !.pingXhrs = @ + 1], x)
  BY Fields DEF Shaped, Keeps
<1>2. QED
  BY <1>1, FinishPingKeeps DEF NextPing

LEMMA FallBackKeeps == ASSUME NEW x, Shaped(x) PROVE Keeps(FallBack(x), x)
<1>1. Keeps([x EXCEPT !.usedFallback = TRUE], x)
  BY Fields DEF Shaped, Keeps
<1>2. QED
  BY <1>1, NextPingKeeps, KeepsShape, KeepsTransitive DEF FallBack

LEMMA ClosedKeeps == ASSUME NEW x, Shaped(x) PROVE Keeps(Closed(x), x)
<1>1. Keeps([x EXCEPT !.ws = "closed"], x)
  BY Fields DEF Shaped, Keeps
<1>2. QED
  BY <1>1, FinishPingKeeps, KeepsShape, KeepsTransitive DEF Closed

LEMMA RestartKeeps ==
  ASSUME NEW x, Shaped(x), NEW k, NEW s, NEW state
  PROVE  Keeps(Restart(x, k, s, state), x)
BY Fields DEF Shaped, Keeps, Restart

----------------------------------------------------------------------------
(* A step of a worker.                                                     *)

LEMMA BecomesKeeps ==
  ASSUME DOMAIN w = Run, NEW r \in Run, NEW x, Keeps(x, w[r]), Becomes(r, x)
  PROVE  /\ DOMAIN w' = Run /\ Keeps(w'[r], w[r])
         /\ \A q \in Run \ {r} : w'[q] = w[q]
BY DEF Becomes

LEMMA MessageKeeps ==
  ASSUME NEW r \in Run, Shaped(w[r]), OnStart(r) \/ OnAbort(r)
  PROVE  \E x : Keeps(x, w[r]) /\ Becomes(r, x)
<1>1. CASE OnStart(r)
  <2> DEFINE x == [w[r] EXCEPT !.in = Tail(@), !.phase = "ping"]
             y == [x EXCEPT !.ws = "connecting", !.failTimer = TRUE]
  <2>1. Keeps(x, w[r]) /\ Shaped(x)
    BY Fields DEF Shaped, Keeps
  <2>2. Becomes(r, Throw(x)) \/ Becomes(r, y) \/ Becomes(r, NextPing(x))
    BY <1>1 DEF OnStart
  <2>3. Keeps(y, w[r])
    BY Fields DEF Shaped, Keeps
  <2> HIDE DEF x, y
  <2>4. Keeps(Throw(x), w[r]) /\ Keeps(NextPing(x), w[r])
    BY <2>1, ThrowKeeps, NextPingKeeps, KeepsTransitive
  <2>5. QED
    BY <2>2, <2>3, <2>4
<1>2. CASE OnAbort(r)
  <2> DEFINE x == [w[r] EXCEPT !.in = Tail(@), !.aborted = TRUE]
             y == CASE x.phase = "ping"      -> FinishPing(x)
                    [] x.phase \in Transfer  -> FinishTransfer(x)
                    [] OTHER                 -> x
  <2>1. Keeps(x, w[r]) /\ Shaped(x)
    BY Fields DEF Shaped, Keeps
  <2>2. Becomes(r, Post(y, "aborted"))
    BY <1>2 DEF OnAbort
  <2> HIDE DEF x
  <2>3. Keeps(y, x)
    <3>1. CASE x.phase = "ping"
      BY <2>1, <3>1, FinishPingKeeps DEF Transfer
    <3>2. CASE x.phase \in Transfer
      BY <2>1, <3>2, FinishTransferKeeps DEF Transfer
    <3>3. CASE x.phase # "ping" /\ x.phase \notin Transfer
      BY <3>3 DEF Keeps
    <3>4. QED
      BY <3>1, <3>2, <3>3
  <2> HIDE DEF y
  <2>4. Keeps(Post(y, "aborted"), w[r])
    BY <2>1, <2>3, PostKeeps, KeepsShape, KeepsTransitive
  <2>5. QED
    BY <2>2, <2>4
<1>3. QED
  BY <1>1, <1>2

LEMMA SocketKeeps ==
  ASSUME NEW r \in Run, Shaped(w[r]),
         WsOpens(r) \/ WsMessage(r) \/ WsCloses(r) \/ WsFails(r) \/ FailTimer(r)
  PROVE  \E x : Keeps(x, w[r]) /\ Becomes(r, x)
<1>1. CASE WsOpens(r)
  <2>1. Keeps([w[r] EXCEPT !.ws = "open", !.failTimer = FALSE], w[r])
    BY Fields DEF Shaped, Keeps
  <2>2. QED
    BY <1>1, <2>1 DEF WsOpens
<1>2. CASE WsMessage(r)
  <2> DEFINE x == [w[r] EXCEPT !.count = @ + 1]
             y == [w[r] EXCEPT !.ws = "closed"]
             z == [x EXCEPT !.ws = "closed"]
  <2>1. Becomes(r, y) \/ Becomes(r, x) \/ Becomes(r, FinishPing(z))
    <3>1. Becomes(r, IF x.aborted THEN y ELSE IF x.count < Samples THEN x
                                               ELSE FinishPing(z))
      BY <1>2 DEF WsMessage
    <3> HIDE DEF x, y, z
    <3>2. QED
      BY <3>1 DEF Becomes
  <2>2. Keeps(x, w[r]) /\ Keeps(y, w[r]) /\ Keeps(z, w[r])
    BY Fields DEF Shaped, Keeps
  <2> HIDE DEF x, y, z
  <2>3. Keeps(FinishPing(z), w[r])
    BY <2>2, FinishPingKeeps, KeepsShape, KeepsTransitive
  <2>4. QED
    BY <2>1, <2>2, <2>3
<1>3. CASE WsCloses(r)
  BY <1>3, ClosedKeeps DEF WsCloses
<1>4. CASE WsFails(r)
  <2> DEFINE x == [w[r] EXCEPT !.failTimer = FALSE]
             y == IF ~ x.usedFallback /\ x.count = 0 THEN FallBack(x) ELSE x
  <2>1. Becomes(r, Closed(y))
    BY <1>4 DEF WsFails
  <2>2. Keeps(x, w[r])
    BY Fields DEF Shaped, Keeps
  <2> HIDE DEF x
  <2>3. Keeps(y, x)
    BY <2>2, FallBackKeeps, KeepsShape DEF Keeps
  <2> HIDE DEF y
  <2>4. Keeps(Closed(y), w[r])
    BY <2>2, <2>3, ClosedKeeps, KeepsShape, KeepsTransitive
  <2>5. QED
    BY <2>1, <2>4
<1>5. CASE FailTimer(r)
  <2> DEFINE x == [w[r] EXCEPT !.failTimer = FALSE, !.ws = "closed"]
  <2>1. Becomes(r, FallBack(x))
    BY <1>5 DEF FailTimer
  <2>2. Keeps(x, w[r])
    BY Fields DEF Shaped, Keeps
  <2> HIDE DEF x
  <2>3. QED
    BY <2>1, <2>2, FallBackKeeps, KeepsShape, KeepsTransitive
<1>6. QED
  BY <1>1, <1>2, <1>3, <1>4, <1>5

LEMMA RequestKeeps ==
  ASSUME NEW r \in Run, Shaped(w[r]), NEW k \in Transfer, NEW s \in Stream,
         XhrProgress(r, k, s) \/ XhrEnds(r, k, s) \/ Retry(r, k, s)
  PROVE  \E x : Keeps(x, w[r]) /\ Becomes(r, x)
<1>1. CASE XhrProgress(r, k, s)
  <2>1. PICK loaded : LET d == loaded - w[r].last[s] IN
          Becomes(r, [w[r] EXCEPT
              !.loaded = @ + Delta(loaded, w[r].last[s]), !.last[s] = loaded,
              !.early[k] = IF w[r].graced THEN @ ELSE @ + d,
              !.late[k] = IF w[r].graced THEN @ + d ELSE @])
    BY <1>1 DEF XhrProgress
  <2> DEFINE d == loaded - w[r].last[s]
             x == [w[r] EXCEPT
              !.loaded = @ + Delta(loaded, w[r].last[s]), !.last[s] = loaded,
              !.early[k] = IF w[r].graced THEN @ ELSE @ + d,
              !.late[k] = IF w[r].graced THEN @ + d ELSE @]
  <2>2. Keeps(x, w[r])
    BY Fields DEF Shaped, Keeps
  <2>3. Becomes(r, x)
    BY <2>1
  <2>4. QED
    BY <2>2, <2>3
<1>2. CASE XhrEnds(r, k, s) \/ Retry(r, k, s)
  BY <1>2, RestartKeeps DEF XhrEnds, Retry
<1>3. QED
  BY <1>1, <1>2

LEMMA TimerKeeps ==
  ASSUME NEW r \in Run, Shaped(w[r]), PingXhrEnds(r) \/ GraceTimer(r) \/ EndTimer(r)
  PROVE  \E x : Keeps(x, w[r]) /\ Becomes(r, x)
<1>1. CASE PingXhrEnds(r)
  <2> DEFINE x == [w[r] EXCEPT !.pingXhrs = @ - 1, !.xhrCount = @ + 1]
  <2>1. Becomes(r, NextPing(x))
    BY <1>1 DEF PingXhrEnds
  <2>2. Keeps(x, w[r])
    BY Fields DEF Shaped, Keeps
  <2> HIDE DEF x
  <2>3. QED
    BY <2>1, <2>2, NextPingKeeps, KeepsShape, KeepsTransitive
<1>2. CASE GraceTimer(r)
  <2>1. Keeps([w[r] EXCEPT !.graceTimer = FALSE, !.graced = TRUE,
                           !.graceLoaded = w[r].loaded], w[r])
    BY Fields DEF Shaped, Keeps
  <2>2. QED
    BY <1>2, <2>1 DEF GraceTimer
<1>3. CASE EndTimer(r)
  <2>1. Keeps(FinishTransfer(w[r]), w[r])
    BY <1>3, FinishTransferKeeps DEF EndTimer
  <2>2. Keeps(Throw(Stop(w[r], "download")), w[r])
    BY StopKeeps, ThrowKeeps, KeepsShape, KeepsTransitive
  <2>3. QED
    BY <1>3, <2>1, <2>2 DEF EndTimer
<1>4. QED
  BY <1>1, <1>2, <1>3

\* Whatever a worker does, it is as alive as before, and alone concerned.
LEMMA WorkerKeeps ==
  ASSUME DOMAIN w = Run, NEW r \in Run, Shaped(w[r]), WorkerStep(r)
  PROVE  /\ w[r].alive
         /\ DOMAIN w' = Run /\ Keeps(w'[r], w[r])
         /\ \A q \in Run \ {r} : w'[q] = w[q]
<1>1. \E x : Keeps(x, w[r]) /\ Becomes(r, x)
  BY MessageKeeps, SocketKeeps, RequestKeeps, TimerKeeps
  DEF WorkerStep, Network, Timer
<1>2. QED
  BY <1>1, BecomesKeeps DEF WorkerStep

----------------------------------------------------------------------------
(* What a worker keeps: its types, the two transports of the ping, the     *)
(* requests of a transfer, and the bytes it counts.                        *)

\* The fields whose values a worker's own code keeps within a type.
Typed(x) ==
  /\ Shaped(x)
  /\ x.alive \in BOOLEAN /\ x.aborted \in BOOLEAN /\ x.usedFallback \in BOOLEAN
  /\ x.phase \in Phase
  /\ x.ws \in {"none", "connecting", "open", "closed"}
  /\ x.count \in 0 .. Samples /\ x.xhrCount \in 0 .. Samples
  /\ x.pingXhrs \in {0, 1}
  /\ x.xhr \in [Transfer -> [Stream -> {"none", "live", "retry"}]]
  /\ x.last \in [Stream -> 0 .. Size]
  /\ x.loaded \in Nat /\ x.graceLoaded \in Nat /\ x.graceLoaded <= x.loaded

\* Messages, in and out: the first is start, the others are aborts.
Told(x) == \E n \in DOMAIN x.out : x.out[n] = "result"

Message == {"start", "abort", "result", "aborted", "error"}

Queued(x) ==
  /\ x.in \in Seq(Message) /\ x.out \in Seq(Message)
  /\ x.alive /\ x.phase = "new" => x.in # <<>> /\ x.in[1] = "start"
  /\ x.alive => \A n \in DOMAIN x.in :
                  x.in[n] = "abort" \/ (n = 1 /\ x.phase = "new")

\* The transport of a ping: a socket, or after it a loop of requests.
Calling(x) == x.ws \in {"connecting", "open"}

Pinging(x) ==
  /\ x.phase = "new" => x.ws = "none" /\ x.pingXhrs = 0 /\ ~ x.aborted
                          /\ x.count = 0 /\ x.xhrCount = 0 /\ ~ x.usedFallback
  /\ x.aborted => x.phase = "over"
  /\ x.failTimer <=> x.ws = "connecting"
  /\ x.failTimer => x.count = 0
  /\ Calling(x) => /\ ~ x.usedFallback /\ x.pingXhrs = 0 /\ x.xhrCount = 0
                   /\ x.count < Samples
  /\ x.pingXhrs = 1 => x.count = 0 /\ x.xhrCount < Samples
  /\ (Calling(x) \/ x.pingXhrs = 1) => x.phase = "ping" \/ x.aborted

\* The requests of a transfer.
Loading(x) ==
  /\ \A k \in Transfer, s \in Stream : x.xhr[k][s] = "live" => x.phase = k
  /\ x.graceTimer \in BOOLEAN /\ x.graced \in BOOLEAN
  /\ x.graceTimer => x.phase \in Transfer

\* What was measured, and what will be.
Reported(x, k) ==
  x.bytes[k] = IF Grace[k] <= Duration THEN x.late[k] ELSE x.early[k]

\* The window of the phase k, as far as it has been measured.
Window(x, k) ==
  /\ x.loaded = x.early[k] + x.late[k]
  /\ x.graced => x.graceLoaded = x.early[k] /\ Grace[k] <= Duration
  /\ ~ x.graced => x.late[k] = 0

Counting(x) ==
  /\ DOMAIN x.bytes = Transfer
  /\ x.early \in [Transfer -> Nat] /\ x.late \in [Transfer -> Nat]
  /\ x.phase \in Transfer => (x.graceTimer <=> ~ x.graced) /\ Window(x, x.phase)
  /\ x.phase \in {"new", "ping"} => x.early = None /\ x.late = None
  /\ x.phase = "download" => x.early["upload"] = 0 /\ x.late["upload"] = 0
  /\ x.phase = "upload" => Reported(x, "download")
  /\ Told(x) => x.phase = "over" /\ \A k \in Transfer : Reported(x, k)

Sane(x) == Typed(x) /\ Queued(x) /\ Pinging(x) /\ Loading(x) /\ Counting(x)

LEMMA PhaseCited ==
  /\ Transfer = {"download", "upload"}
  /\ Phase = {"new", "ping", "download", "upload", "over"}
BY DEF Phase, Transfer


\* y is x but for some fields.
Alters(y, x, fields) ==
  DOMAIN y = DOMAIN x /\ \A f \in DOMAIN x \ fields : y[f] = x[f]

LEMMA PhaseAltered ==
  ASSUME NEW x, NEW y, Typed(x), Alters(y, x, {"phase"}), y.phase \in Phase
  PROVE  Typed(y)
BY Fields DEF Typed, Shaped, Alters

\* y is x with the requests and the timer of its phase k cancelled.
Stopped(y, x, k) ==
  /\ Typed(y) /\ Alters(y, x, {"xhr", "graceTimer"})
  /\ y.graceTimer = FALSE
  /\ \A s \in Stream : y.xhr[k][s] # "live"
  /\ \A j \in Transfer, s \in Stream : y.xhr[j][s] = "live" => x.xhr[j][s] = "live"

LEMMA StopSane ==
  ASSUME NEW x, Typed(x), NEW k \in Transfer
  PROVE  Stopped(Stop(x, k), x, k)
<1> DEFINE own == [s \in Stream |-> IF x.xhr[k][s] = "live" THEN "none" ELSE x.xhr[k][s]]
           y == Stop(x, k)
<1>1. y = [x EXCEPT !.xhr[k] = own, !.graceTimer = FALSE]
  BY DEF Stop
<1>2. /\ y.xhr = [x.xhr EXCEPT ![k] = own] /\ y.graceTimer = FALSE
      /\ Alters(y, x, {"xhr", "graceTimer"})
  BY <1>1, Fields DEF Typed, Shaped, Alters
<1>3. own \in [Stream -> {"none", "retry"}]
  BY DEF Typed
<1> HIDE DEF own, y
<1>4. y.xhr \in [Transfer -> [Stream -> {"none", "live", "retry"}]]
      /\ y.xhr[k] = own /\ \A j \in Transfer \ {k} : y.xhr[j] = x.xhr[j]
  BY <1>2, <1>3 DEF Typed
<1>5. Typed(y)
  BY <1>2, <1>4, Fields DEF Typed, Shaped, Alters
<1>6. (\A s \in Stream : y.xhr[k][s] # "live")
      /\ \A j \in Transfer, s \in Stream : y.xhr[j][s] = "live" => x.xhr[j][s] = "live"
  BY <1>3, <1>4
<1>7. Stopped(y, x, k)
  BY <1>2, <1>5, <1>6 DEF Stopped
<1>8. QED
  BY <1>7 DEF y

\* A message is posted.
LEMMA PostAlters ==
  ASSUME NEW x, Typed(x), x.out \in Seq(Message), NEW m \in Message
  PROVE  /\ Alters(Post(x, m), x, {"out"}) /\ Typed(Post(x, m))
         /\ Post(x, m).out \in Seq(Message)
         /\ Told(Post(x, m)) <=> Told(x) \/ m = "result"
<1> DEFINE y == Post(x, m)
<1>1. Alters(y, x, {"out"}) /\ y.out = Append(x.out, m)
  BY Fields DEF Typed, Shaped, Alters, Post
<1> HIDE DEF y
<1>2. Typed(y)
  BY <1>1, Fields DEF Typed, Shaped, Alters
<1>3. /\ y.out \in Seq(Message) /\ DOMAIN y.out = 1 .. Len(x.out) + 1
      /\ DOMAIN x.out = 1 .. Len(x.out) /\ Len(x.out) \in Nat
      /\ \A n \in 1 .. Len(x.out) : y.out[n] = x.out[n]
      /\ y.out[Len(x.out) + 1] = m
  BY <1>1
<1>4. Told(y) <=> Told(x) \/ m = "result"
  <2> DEFINE n == Len(x.out)
  <2>1. n \in Nat /\ n + 1 \in 1 .. n + 1 /\ \A i \in 1 .. n : i \in 1 .. n + 1
    BY <1>3
  <2>2. ASSUME NEW i \in 1 .. n + 1 PROVE i \in 1 .. n \/ i = n + 1
    BY <2>1
  <2>3. /\ DOMAIN y.out = 1 .. n + 1 /\ DOMAIN x.out = 1 .. n
        /\ \A i \in 1 .. n : y.out[i] = x.out[i]
        /\ y.out[n + 1] = m
    BY <1>3
  <2> HIDE DEF n
  <2>4. QED
    BY <2>1, <2>2, <2>3, Zenon DEF Told
<1>5. QED
  BY <1>1, <1>2, <1>3, <1>4 DEF y

\* A worker between two phases.
Idle(x) ==
  /\ Typed(x) /\ Queued(x) /\ x.phase # "new"
  /\ ~ x.aborted /\ x.failTimer = FALSE /\ ~ Calling(x) /\ x.pingXhrs = 0
  /\ \A k \in Transfer, s \in Stream : x.xhr[k][s] # "live"
  /\ DOMAIN x.bytes = Transfer
  /\ x.early \in [Transfer -> Nat] /\ x.late \in [Transfer -> Nat]
  /\ ~ Told(x)

LEMMA SpawnSane ==
  ASSUME NEW x, Idle(x), NEW k \in Transfer, x.early[k] = 0, x.late[k] = 0,
         k = "download" => x.early["upload"] = 0 /\ x.late["upload"] = 0,
         k = "upload" => Reported(x, "download")
  PROVE  Sane(Spawn(x, k))
<1> DEFINE all == [s \in Stream |-> "live"]
           zero == [s \in Stream |-> 0]
           y == Spawn(x, k)
<1>1. /\ y.phase = k /\ y.xhr = [x.xhr EXCEPT ![k] = all] /\ y.last = zero
      /\ y.loaded = 0 /\ y.graced = FALSE /\ y.graceLoaded = 0 /\ y.graceTimer = TRUE
      /\ Alters(y, x, {"phase", "xhr", "last", "loaded", "graced", "graceLoaded",
                       "graceTimer"})
  BY Fields DEF Idle, Typed, Shaped, Alters, Spawn
<1>2. all \in [Stream -> {"live"}] /\ zero \in [Stream -> 0 .. Size]
  BY WorkerAssumption
<1> HIDE DEF all, zero, y
<1>3. y.xhr \in [Transfer -> [Stream -> {"none", "live", "retry"}]]
      /\ \A j \in Transfer \ {k} : y.xhr[j] = x.xhr[j]
  BY <1>1, <1>2 DEF Idle, Typed
<1>4. Typed(y)
  BY <1>1, <1>2, <1>3, Fields, PhaseCited DEF Idle, Typed, Shaped, Alters
<1>5. Queued(y)
  BY <1>1, Fields, PhaseCited DEF Idle, Typed, Shaped, Alters, Queued
<1>6. Pinging(y)
  BY <1>1, Fields, PhaseCited DEF Idle, Typed, Shaped, Alters, Pinging, Calling
<1>7. Loading(y)
  <2>1. ASSUME NEW j \in Transfer, NEW s \in Stream, y.xhr[j][s] = "live" PROVE j = k
    BY <1>3, <2>1 DEF Idle
  <2>2. QED
    BY <1>1, <2>1 DEF Loading
<1>8. Counting(y)
  <2>1. ~ Told(y)
    BY <1>1, Fields DEF Idle, Typed, Shaped, Alters, Told
  <2>2. /\ y.bytes = x.bytes /\ y.early = x.early /\ y.late = x.late
    BY <1>1, Fields DEF Idle, Typed, Shaped, Alters
  <2>3. Window(y, k)
    BY <1>1, <2>2 DEF Window
  <2>4. y.phase \in Transfer => (y.graceTimer <=> ~ y.graced) /\ Window(y, y.phase)
    BY <1>1, <2>3
  <2>5. QED
    BY <1>1, <2>1, <2>2, <2>4, PhaseCited DEF Idle, Counting, Reported
<1>9. QED
  BY <1>4, <1>5, <1>6, <1>7, <1>8 DEF Sane, y

LEMMA NoneCited ==
  None \in [Transfer -> Nat] /\ \A k \in Transfer : None[k] = 0
BY DEF None

LEMMA FinishPingSane ==
  ASSUME NEW x, Sane(x), x.phase = "ping" => ~ Calling(x) /\ x.pingXhrs = 0
  PROVE  Sane(FinishPing(x))
<1>1. CASE x.phase = "ping"
  <2>1. Idle(x)
    BY <1>1, PhaseCited, NoneCited DEF Idle, Sane, Pinging, Loading, Counting, Calling
  <2>2. Sane(Spawn(x, "download"))
    BY <1>1, <2>1, SpawnSane, PhaseCited, NoneCited DEF Sane, Counting
  <2>3. QED
    BY <1>1, <2>1, <2>2 DEF FinishPing, Done, Idle
<1>2. CASE x.phase # "ping"
  BY <1>2 DEF FinishPing
<1>3. QED
  BY <1>1, <1>2

LEMMA ReportAlters ==
  ASSUME NEW x, Typed(x), NEW k \in Transfer, Window(x, k), DOMAIN x.bytes = Transfer,
         x.early \in [Transfer -> Nat], x.late \in [Transfer -> Nat],
         x.graced \in BOOLEAN, x.graced \/ Grace[k] > Duration
  PROVE  /\ Typed(Report(x, k)) /\ Alters(Report(x, k), x, {"bytes"})
         /\ DOMAIN Report(x, k).bytes = Transfer
         /\ \A j \in Transfer : Reported(x, j) \/ j = k => Reported(Report(x, k), j)
<1> DEFINE n == x.loaded - (IF x.graced THEN x.graceLoaded ELSE 0)
           y == Report(x, k)
<1>1. y.bytes = [x.bytes EXCEPT ![k] = n] /\ Alters(y, x, {"bytes"})
  BY Fields DEF Typed, Shaped, Alters, Report
<1>2. n = IF Grace[k] <= Duration THEN x.late[k] ELSE x.early[k]
  <2>1. x.early[k] \in Nat /\ x.late[k] \in Nat
    OBVIOUS
  <2>2. Grace[k] \in Nat /\ Duration \in Nat
    BY WorkerAssumption
  <2>3. CASE x.graced
    BY <2>1, <2>2, <2>3 DEF Window
  <2>4. CASE ~ x.graced
    BY <2>1, <2>2, <2>4 DEF Window
  <2>5. QED
    BY <2>3, <2>4
<1> HIDE DEF n, y
<1>3. Typed(y)
  BY <1>1, Fields DEF Typed, Shaped, Alters
<1>4. DOMAIN y.bytes = Transfer /\ y.bytes[k] = n
      /\ \A j \in Transfer \ {k} : y.bytes[j] = x.bytes[j]
  BY <1>1
<1>5. y.early = x.early /\ y.late = x.late
  BY <1>1, Fields DEF Typed, Shaped, Alters
<1>6. \A j \in Transfer : Reported(x, j) \/ j = k => Reported(y, j)
  BY <1>2, <1>4, <1>5 DEF Reported
<1>7. QED
  BY <1>1, <1>3, <1>4, <1>6 DEF y

\* The last message of a run that was not aborted.
LEMMA EndSane ==
  ASSUME NEW x, Idle(x), x.graceTimer = FALSE, x.graced \in BOOLEAN,
         NEW m \in {"result", "error"},
         m = "result" => \A k \in Transfer : Reported(x, k)
  PROVE  Sane(Post([x EXCEPT !.phase = "over"], m))
<1> DEFINE y == [x EXCEPT !.phase = "over"]
           z == Post(y, m)
<1>1. y.phase = "over" /\ Alters(y, x, {"phase"})
  BY Fields DEF Idle, Typed, Shaped, Alters
<1> HIDE DEF y
<1>2. Typed(y) /\ y.out = x.out
  BY <1>1, Fields, PhaseCited DEF Idle, Typed, Shaped, Alters
<1>3. x.out \in Seq(Message) /\ m \in Message
  <2>1. m \in Message
    BY DEF Message
  <2>2. QED
    BY <2>1 DEF Idle, Queued
<1>4. Alters(z, y, {"out"}) /\ Typed(z) /\ z.out \in Seq(Message)
      /\ (Told(z) <=> Told(y) \/ m = "result")
  BY <1>2, <1>3, PostAlters
<1> HIDE DEF z
<1>5. z.phase = "over" /\ Alters(z, x, {"phase", "out"})
  BY <1>1, <1>4, Fields DEF Idle, Typed, Shaped, Alters
<1>6. Told(z) <=> m = "result"
  BY <1>2, <1>4 DEF Told, Idle
<1>7. Queued(z)
  BY <1>4, <1>5, Fields DEF Idle, Typed, Shaped, Alters, Queued
<1>8. Pinging(z)
  BY <1>5, Fields DEF Idle, Typed, Shaped, Alters, Pinging, Calling
<1>9. Loading(z)
  <2>1. z.xhr = x.xhr /\ z.graceTimer = FALSE /\ z.graced = x.graced
    BY <1>5, Fields DEF Idle, Typed, Shaped, Alters
  <2>2. QED
    BY <2>1 DEF Idle, Loading
<1>10. Counting(z)
  BY <1>5, <1>6, Fields, PhaseCited DEF Idle, Typed, Shaped, Alters, Counting, Reported
<1>11. QED
  BY <1>4, <1>7, <1>8, <1>9, <1>10 DEF Sane, z, y

LEMMA StoppedIsIdle ==
  ASSUME NEW x, Sane(x), NEW k \in Transfer, x.phase = k
  PROVE  /\ Idle(Stop(x, k)) /\ Alters(Stop(x, k), x, {"xhr", "graceTimer"})
         /\ Stop(x, k).graceTimer = FALSE
<1> DEFINE y == Stop(x, k)
<1>1. Typed(y) /\ Alters(y, x, {"xhr", "graceTimer"}) /\ y.graceTimer = FALSE
      /\ \A j \in Transfer, s \in Stream : y.xhr[j][s] # "live"
  <2>0. Typed(x)
    BY DEF Sane
  <2>1. \A j \in Transfer, s \in Stream : x.xhr[j][s] = "live" => j = k
    BY DEF Sane, Loading
  <2>2. Stopped(y, x, k)
    BY <2>0, StopSane
  <2> HIDE DEF y
  <2>3. ASSUME NEW j \in Transfer, NEW s \in Stream PROVE y.xhr[j][s] # "live"
    BY <2>1, <2>2 DEF Stopped
  <2>4. QED
    BY <2>2, <2>3 DEF Stopped
<1> HIDE DEF y
<1>2. Queued(y) /\ ~ Told(y)
  <2>1. y.in = x.in /\ y.out = x.out /\ y.alive = x.alive /\ y.phase = x.phase
    BY <1>1, Fields DEF Sane, Typed, Shaped, Alters
  <2>2. ~ Told(x)
    BY PhaseCited DEF Sane, Counting
  <2>3. QED
    BY <2>1, <2>2 DEF Sane, Queued, Told
<1>3. ~ x.aborted /\ ~ Calling(x) /\ x.pingXhrs = 0 /\ x.failTimer = FALSE
  BY PhaseCited DEF Sane, Typed, Pinging, Calling
<1>4. QED
  BY <1>1, <1>2, <1>3, Fields, PhaseCited
  DEF Sane, Typed, Shaped, Alters, Idle, Calling, Counting, y

\* The end of a transfer, when the grace period is over or will never be.
LEMMA FinishTransferSane ==
  ASSUME NEW x, Sane(x), NEW k \in Transfer, x.phase = k,
         x.graceTimer => Grace[k] > Duration
  PROVE  Sane(FinishTransfer(x))
<1> DEFINE y == Stop(x, k)
           z == Report(y, k)
<1>1. Idle(y) /\ Alters(y, x, {"xhr", "graceTimer"}) /\ y.graceTimer = FALSE
  BY StoppedIsIdle
<1> HIDE DEF y
<1>2. /\ y.phase = k /\ y.early = x.early /\ y.late = x.late /\ y.bytes = x.bytes
      /\ y.loaded = x.loaded /\ y.graceLoaded = x.graceLoaded /\ y.graced = x.graced
  BY <1>1, Fields DEF Sane, Typed, Shaped, Alters
<1>3. Window(y, k) /\ y.graced \in BOOLEAN /\ (y.graced \/ Grace[k] > Duration)
  BY <1>2 DEF Sane, Counting, Loading, Window
<1>4. /\ Typed(z) /\ Alters(z, y, {"bytes"}) /\ DOMAIN z.bytes = Transfer
      /\ \A j \in Transfer : Reported(y, j) \/ j = k => Reported(z, j)
  BY <1>1, <1>3, ReportAlters DEF Idle
<1> HIDE DEF z
<1>5. z.early = x.early /\ z.late = x.late /\ z.graced = x.graced /\ z.phase = k
      /\ z.graceTimer = FALSE /\ ~ z.aborted
  BY <1>1, <1>2, <1>4, Fields DEF Idle, Typed, Shaped, Alters
<1>6. Idle(z)
  <2>1. /\ z.xhr = y.xhr /\ z.in = y.in /\ z.out = y.out /\ z.alive = y.alive
        /\ z.ws = y.ws /\ z.failTimer = y.failTimer /\ z.pingXhrs = y.pingXhrs
        /\ z.phase = y.phase /\ z.aborted = y.aborted
        /\ z.early = y.early /\ z.late = y.late
    BY <1>4, Fields DEF Typed, Shaped, Alters
  <2>2. Queued(z) /\ ~ Told(z) /\ ~ Calling(z)
    BY <1>1, <2>1 DEF Idle, Queued, Told, Calling
  <2>3. QED
    BY <1>1, <1>4, <2>1, <2>2 DEF Idle
<1>7. FinishTransfer(x) = Done(y)
  BY DEF FinishTransfer, y
<1>8. CASE k = "download"
  <2>1. Done(y) = Spawn(z, "upload")
    BY <1>1, <1>2, <1>8 DEF Done, Idle, z
  <2>2. z.early["upload"] = 0 /\ z.late["upload"] = 0
    BY <1>5, <1>8 DEF Sane, Counting
  <2>3. Sane(Spawn(z, "upload"))
    BY <1>4, <1>6, <1>8, <2>2, SpawnSane, PhaseCited
  <2>4. QED
    BY <1>7, <2>1, <2>3
<1>9. CASE k = "upload"
  <2>1. Done(y) = Post([z EXCEPT !.phase = "over"], "result")
    BY <1>1, <1>2, <1>9 DEF Done, Idle, z
  <2>2. Reported(y, "download")
    BY <1>2, <1>9 DEF Sane, Counting, Reported
  <2>3. \A j \in Transfer : Reported(z, j)
    BY <1>4, <1>9, <2>2, PhaseCited
  <2>4. Sane(Post([z EXCEPT !.phase = "over"], "result"))
    BY <1>3, <1>5, <1>6, <2>3, EndSane DEF Sane, Loading
  <2>5. QED
    BY <1>7, <2>1, <2>4
<1>10. QED
  BY <1>8, <1>9 DEF Transfer

----------------------------------------------------------------------------
(* The ping.                                                               *)

\* A handler that touches nothing but the ping.
LEMMA PingFields ==
  ASSUME NEW x, NEW y, Sane(x),
         Alters(y, x, {"ws", "failTimer", "usedFallback", "count", "pingXhrs",
                       "xhrCount"}),
         y.usedFallback \in BOOLEAN, y.ws \in {"none", "connecting", "open", "closed"},
         y.count \in 0 .. Samples, y.xhrCount \in 0 .. Samples,
         y.pingXhrs \in {0, 1}, Pinging(y)
  PROVE  Sane(y)
<1>1. /\ DOMAIN y = DOMAIN x /\ y.alive = x.alive /\ y.phase = x.phase
      /\ y.aborted = x.aborted /\ y.xhr = x.xhr /\ y.last = x.last
      /\ y.loaded = x.loaded /\ y.graceTimer = x.graceTimer /\ y.graced = x.graced
      /\ y.graceLoaded = x.graceLoaded /\ y.bytes = x.bytes /\ y.early = x.early
      /\ y.late = x.late /\ y.in = x.in /\ y.out = x.out
  BY Fields DEF Sane, Typed, Shaped, Alters
<1>2. Typed(y)
  BY <1>1 DEF Sane, Typed, Shaped
<1>3. Queued(y)
  BY <1>1 DEF Sane, Queued
<1>4. Loading(y)
  BY <1>1 DEF Sane, Loading
<1>5. Counting(y)
  BY <1>1 DEF Sane, Counting, Window, Reported, Told
<1>6. QED
  BY <1>2, <1>3, <1>4, <1>5 DEF Sane

LEMMA NextPingSane ==
  ASSUME NEW x, Sane(x), ~ Calling(x), x.pingXhrs = 0, x.count = 0
  PROVE  x.phase = "ping" \/ x.aborted => Sane(NextPing(x))
<1> SUFFICES ASSUME x.phase = "ping" \/ x.aborted PROVE Sane(NextPing(x))
  OBVIOUS
<1>1. CASE x.aborted \/ x.xhrCount >= Samples
  BY <1>1, FinishPingSane DEF NextPing
<1>2. CASE ~ (x.aborted \/ x.xhrCount >= Samples)
  <2> DEFINE y == [x EXCEPT !.pingXhrs = @ + 1]
  <2>1. y.pingXhrs = 1 /\ Alters(y, x, {"pingXhrs"}) /\ NextPing(x) = y
    BY <1>2, Fields DEF Sane, Typed, Shaped, Alters, NextPing
  <2> HIDE DEF y
  <2>2. /\ y.ws = x.ws /\ y.failTimer = x.failTimer /\ y.count = 0
        /\ y.usedFallback = x.usedFallback /\ y.xhrCount = x.xhrCount
        /\ y.phase = x.phase /\ y.aborted = x.aborted
    BY <2>1, Fields DEF Sane, Typed, Shaped, Alters
  <2>3. y.xhrCount < Samples
    BY <1>2, <2>2, WorkerAssumption DEF Sane, Typed
  <2>4. Pinging(y)
    BY <1>2, <2>1, <2>2, <2>3 DEF Sane, Pinging, Calling
  <2>5. QED
    BY <2>1, <2>2, <2>4, PingFields DEF Sane, Typed, Alters
<1>3. QED
  BY <1>1, <1>2

LEMMA SocketSane ==
  ASSUME NEW x, Sane(x), Calling(x)
  PROVE  /\ x.ws = "connecting" => Sane([x EXCEPT !.ws = "open", !.failTimer = FALSE])
         /\ x.ws = "open" =>
              /\ Sane([x EXCEPT !.ws = "closed"])
              /\ x.count + 1 < Samples => Sane([x EXCEPT !.count = @ + 1])
              /\ x.count + 1 = Samples =>
                   Sane(FinishPing([[x EXCEPT !.count = @ + 1] EXCEPT !.ws = "closed"]))
<1>1. ASSUME x.ws = "connecting"
      PROVE  Sane([x EXCEPT !.ws = "open", !.failTimer = FALSE])
  <2> DEFINE y == [x EXCEPT !.ws = "open", !.failTimer = FALSE]
  <2>1. /\ y.ws = "open" /\ y.failTimer = FALSE /\ Alters(y, x, {"ws", "failTimer"})
        /\ y.count = x.count /\ y.usedFallback = x.usedFallback
        /\ y.xhrCount = x.xhrCount /\ y.pingXhrs = x.pingXhrs
        /\ y.phase = x.phase /\ y.aborted = x.aborted
    BY Fields DEF Sane, Typed, Shaped, Alters
  <2> HIDE DEF y
  <2>2. Pinging(y)
    BY <1>1, <2>1 DEF Sane, Pinging, Calling
  <2>3. Sane(y)
    BY <2>1, <2>2, PingFields DEF Sane, Typed, Alters
  <2>4. QED
    BY <2>3 DEF y
<1>2. ASSUME x.ws = "open" PROVE Sane([x EXCEPT !.ws = "closed"])
  <2> DEFINE y == [x EXCEPT !.ws = "closed"]
  <2>1. /\ y.ws = "closed" /\ Alters(y, x, {"ws"}) /\ y.failTimer = x.failTimer
        /\ y.count = x.count /\ y.usedFallback = x.usedFallback
        /\ y.xhrCount = x.xhrCount /\ y.pingXhrs = x.pingXhrs
        /\ y.phase = x.phase /\ y.aborted = x.aborted
    BY Fields DEF Sane, Typed, Shaped, Alters
  <2> HIDE DEF y
  <2>2. Pinging(y)
    BY <1>2, <2>1 DEF Sane, Pinging, Calling
  <2>3. Sane(y)
    BY <2>1, <2>2, PingFields DEF Sane, Typed, Alters
  <2>4. QED
    BY <2>3 DEF y
<1>3. ASSUME x.ws = "open", x.count + 1 < Samples PROVE Sane([x EXCEPT !.count = @ + 1])
  <2> DEFINE y == [x EXCEPT !.count = @ + 1]
  <2>1. /\ y.ws = x.ws /\ Alters(y, x, {"count"}) /\ y.failTimer = x.failTimer
        /\ y.count = x.count + 1 /\ y.usedFallback = x.usedFallback
        /\ y.xhrCount = x.xhrCount /\ y.pingXhrs = x.pingXhrs
        /\ y.phase = x.phase /\ y.aborted = x.aborted
    BY Fields DEF Sane, Typed, Shaped, Alters
  <2> HIDE DEF y
  <2>2. Pinging(y)
    BY <1>3, <2>1 DEF Sane, Pinging, Calling
  <2>3. y.count \in 0 .. Samples
    BY <1>3, <2>1, WorkerAssumption DEF Sane, Typed
  <2>4. Sane(y)
    BY <2>1, <2>2, <2>3, PingFields DEF Sane, Typed, Alters
  <2>5. QED
    BY <2>4 DEF y
<1>4. ASSUME x.ws = "open", x.count + 1 = Samples
      PROVE  Sane(FinishPing([[x EXCEPT !.count = @ + 1] EXCEPT !.ws = "closed"]))
  <2> DEFINE y == [[x EXCEPT !.count = @ + 1] EXCEPT !.ws = "closed"]
  <2>1. /\ y.ws = "closed" /\ Alters(y, x, {"count", "ws"}) /\ y.failTimer = x.failTimer
        /\ y.count = x.count + 1 /\ y.usedFallback = x.usedFallback
        /\ y.xhrCount = x.xhrCount /\ y.pingXhrs = x.pingXhrs
        /\ y.phase = x.phase /\ y.aborted = x.aborted
    BY Fields DEF Sane, Typed, Shaped, Alters
  <2> HIDE DEF y
  <2>2. Pinging(y) /\ ~ Calling(y) /\ y.pingXhrs = 0
    BY <1>4, <2>1 DEF Sane, Pinging, Calling
  <2>3. y.count \in 0 .. Samples
    BY <1>4, <2>1, WorkerAssumption DEF Sane, Typed
  <2>4. Sane(y)
    BY <2>1, <2>2, <2>3, PingFields DEF Sane, Typed, Alters
  <2>5. Sane(FinishPing(y))
    BY <2>2, <2>4, FinishPingSane
  <2>6. QED
    BY <2>5 DEF y
<1>5. QED
  BY <1>1, <1>2, <1>3, <1>4

\* The socket is gone without an error.
LEMMA ClosedSane ==
  ASSUME NEW x, Sane(x), x.ws = "open" PROVE Sane(Closed(x))
<1> DEFINE y == [x EXCEPT !.ws = "closed"]
<1>1. Sane(y)
  BY SocketSane DEF Calling
<1>2. y.ws = "closed" /\ y.pingXhrs = 0
  BY Fields DEF Sane, Typed, Shaped, Pinging, Calling
<1> HIDE DEF y
<1>3. Sane(FinishPing(y))
  BY <1>1, <1>2, FinishPingSane DEF Calling
<1>4. QED
  BY <1>1, <1>3 DEF Closed, y

\* The socket never opened: the fallback.
LEMMA FallBackSane ==
  ASSUME NEW x, Sane(x), x.failTimer
  PROVE  Sane(FallBack([x EXCEPT !.failTimer = FALSE, !.ws = "closed"]))
<1> DEFINE y == [x EXCEPT !.failTimer = FALSE, !.ws = "closed"]
           z == [y EXCEPT !.usedFallback = TRUE]
<1>1. /\ z.ws = "closed" /\ z.failTimer = FALSE /\ z.usedFallback = TRUE
      /\ Alters(z, x, {"ws", "failTimer", "usedFallback"})
      /\ z.count = x.count /\ z.xhrCount = x.xhrCount /\ z.pingXhrs = x.pingXhrs
      /\ z.phase = x.phase /\ z.aborted = x.aborted
  BY Fields DEF Sane, Typed, Shaped, Alters
<1>2. x.ws = "connecting" /\ Calling(x) /\ x.count = 0 /\ x.pingXhrs = 0
      /\ (x.phase = "ping" \/ x.aborted)
  BY DEF Sane, Pinging, Calling
<1>3. FallBack(y) = NextPing(z)
  BY DEF FallBack
<1> HIDE DEF y, z
<1>4. Pinging(z)
  BY <1>1, <1>2 DEF Sane, Pinging, Calling
<1>5. Sane(z)
  BY <1>1, <1>4, PingFields DEF Sane, Typed, Alters
<1>6. Sane(NextPing(z))
  BY <1>1, <1>2, <1>5, NextPingSane DEF Calling
<1>7. QED
  BY <1>3, <1>6 DEF y

\* An error of the socket before the first echo falls back, and closes it then.
LEMMA FailsSane ==
  ASSUME NEW x, Sane(x), Calling(x), NEW y, y = [x EXCEPT !.failTimer = FALSE]
  PROVE  Sane(Closed(IF ~ y.usedFallback /\ y.count = 0 THEN FallBack(y) ELSE y))
<1>1. /\ y.failTimer = FALSE /\ Alters(y, x, {"failTimer"})
      /\ y.ws = x.ws /\ y.usedFallback = x.usedFallback
      /\ y.count = x.count /\ y.xhrCount = x.xhrCount /\ y.pingXhrs = x.pingXhrs
      /\ y.phase = x.phase /\ y.aborted = x.aborted /\ DOMAIN y = DOMAIN Gone
  BY Fields DEF Sane, Typed, Shaped, Alters
<1>2. ~ x.usedFallback /\ x.pingXhrs = 0 /\ x.xhrCount = 0
      /\ (x.phase = "ping" \/ x.aborted) /\ (x.aborted => x.phase = "over")
  BY DEF Sane, Pinging
<1>3. CASE x.count = 0
  <2> DEFINE n == IF x.aborted THEN 0 ELSE 1
             u == [y EXCEPT !.usedFallback = TRUE]
             z == NextPing(u)
             c == [z EXCEPT !.ws = "closed"]
  <2>1. /\ u.aborted = x.aborted /\ u.phase = x.phase /\ u.xhrCount = 0
        /\ u.pingXhrs = 0 /\ u.usedFallback = TRUE /\ DOMAIN u = DOMAIN Gone
        /\ u.failTimer = FALSE /\ u.count = 0 /\ Alters(u, x, {"failTimer", "usedFallback"})
    BY <1>1, <1>2, <1>3, Fields DEF Alters
  <2>2. FallBack(y) = z
    BY DEF FallBack
  <2> HIDE DEF u
  <2>3. /\ z.pingXhrs = n /\ z.usedFallback = TRUE /\ DOMAIN z = DOMAIN Gone
        /\ Alters(z, u, {"pingXhrs"})
    <3>1. CASE x.aborted
      <4>1. z = u
        BY <1>2, <2>1, <3>1 DEF NextPing, FinishPing
      <4>2. QED
        BY <2>1, <3>1, <4>1 DEF Alters
    <3>2. CASE ~ x.aborted
      <4>1. z = [u EXCEPT !.pingXhrs = @ + 1]
        BY <2>1, <3>2, WorkerAssumption DEF NextPing
      <4>2. QED
        BY <2>1, <3>2, <4>1, Fields DEF Alters
    <3>3. QED
      BY <3>1, <3>2
  <2> HIDE DEF z
  <2>4. /\ c.ws = "closed" /\ c.failTimer = FALSE /\ c.usedFallback = TRUE
        /\ c.pingXhrs = n /\ c.count = 0 /\ c.xhrCount = 0
        /\ c.phase = x.phase /\ c.aborted = x.aborted
        /\ Alters(c, x, {"failTimer", "usedFallback", "pingXhrs", "ws"})
    BY <2>1, <2>3, Fields DEF Alters
  <2>5. Closed(z) = c
    BY <2>3 DEF Closed
  <2> HIDE DEF c
  <2>6. Pinging(c)
    BY <1>2, <2>4, WorkerAssumption DEF Sane, Pinging, Calling
  <2>7. c.pingXhrs \in {0, 1} /\ c.count \in 0 .. Samples /\ c.xhrCount \in 0 .. Samples
    BY <2>4, WorkerAssumption
  <2>8. Sane(c)
    BY <2>4, <2>6, <2>7, PingFields DEF Alters
  <2>9. QED
    BY <1>1, <1>2, <1>3, <2>2, <2>5, <2>8
<1>4. CASE x.count # 0
  <2>1. x.ws = "open"
    BY <1>4 DEF Sane, Pinging, Calling
  <2>2. Pinging(y)
    BY <1>1, <2>1 DEF Sane, Pinging, Calling
  <2>3. Sane(y)
    BY <1>1, <2>2, PingFields DEF Sane, Typed, Alters
  <2>4. QED
    BY <1>1, <1>4, <2>1, <2>3, ClosedSane
<1>5. QED
  BY <1>3, <1>4

\* A ping request is over.
LEMMA AnsweredSane ==
  ASSUME NEW x, Sane(x), x.pingXhrs > 0
  PROVE  Sane(NextPing([x EXCEPT !.pingXhrs = @ - 1, !.xhrCount = @ + 1]))
<1> DEFINE y == [x EXCEPT !.pingXhrs = @ - 1, !.xhrCount = @ + 1]
<1>1. /\ Alters(y, x, {"pingXhrs", "xhrCount"})
      /\ y.failTimer = x.failTimer /\ y.ws = x.ws /\ y.usedFallback = x.usedFallback
      /\ y.count = x.count /\ y.xhrCount = x.xhrCount + 1 /\ y.pingXhrs = x.pingXhrs - 1
      /\ y.phase = x.phase /\ y.aborted = x.aborted
  BY Fields DEF Sane, Typed, Shaped, Alters
<1>2. x.pingXhrs = 1
  BY DEF Sane, Typed
<1>3. ~ Calling(x) /\ x.count = 0 /\ x.xhrCount < Samples
      /\ (x.phase = "ping" \/ x.aborted)
  BY <1>2 DEF Sane, Pinging
<1> HIDE DEF y
<1>4. Pinging(y)
  BY <1>1, <1>2, <1>3 DEF Sane, Pinging, Calling
<1>5. y.xhrCount \in 0 .. Samples /\ y.pingXhrs = 0
  BY <1>1, <1>2, <1>3, WorkerAssumption DEF Sane, Typed
<1>6. Sane(y)
  BY <1>1, <1>3, <1>4, <1>5, PingFields DEF Sane, Typed, Alters
<1>7. Sane(NextPing(y))
  BY <1>1, <1>3, <1>5, <1>6, NextPingSane DEF Calling
<1>8. QED
  BY <1>7 DEF y

----------------------------------------------------------------------------
(* Transfers, timers and messages.                                         *)

\* A request of a stream is over, or its retry timer fires.
LEMMA RestartSane ==
  ASSUME NEW x, Sane(x), NEW k \in Transfer, NEW s \in Stream,
         NEW state \in {"live", "retry"}
  PROVE  Sane(Restart(x, k, s, state))
<1> DEFINE next == IF x.phase = k THEN state ELSE "none"
           y == Restart(x, k, s, state)
<1>1. /\ y.xhr = [x.xhr EXCEPT ![k][s] = next] /\ Alters(y, x, {"xhr", "last"})
      /\ y.last = x.last \/ y.last = [x.last EXCEPT ![s] = 0]
  BY Fields DEF Sane, Typed, Shaped, Alters, Restart
<1>2. next \in {"none", "live", "retry"} /\ (next = "live" => x.phase = k)
  OBVIOUS
<1> HIDE DEF next, y
<1>3. /\ y.xhr \in [Transfer -> [Stream -> {"none", "live", "retry"}]]
      /\ \A j \in Transfer, t \in Stream : y.xhr[j][t] = "live" => x.phase = j
  BY <1>1, <1>2 DEF Sane, Typed, Loading
<1>4. y.last \in [Stream -> 0 .. Size]
  BY <1>1, WorkerAssumption DEF Sane, Typed
<1>5. /\ DOMAIN y = DOMAIN x /\ y.alive = x.alive /\ y.phase = x.phase
      /\ y.aborted = x.aborted /\ y.loaded = x.loaded /\ y.graceTimer = x.graceTimer
      /\ y.graced = x.graced /\ y.graceLoaded = x.graceLoaded /\ y.bytes = x.bytes
      /\ y.early = x.early /\ y.late = x.late /\ y.in = x.in /\ y.out = x.out
      /\ y.ws = x.ws /\ y.failTimer = x.failTimer /\ y.usedFallback = x.usedFallback
      /\ y.count = x.count /\ y.xhrCount = x.xhrCount /\ y.pingXhrs = x.pingXhrs
  BY <1>1, Fields DEF Sane, Typed, Shaped, Alters
<1>6. Typed(y)
  BY <1>3, <1>4, <1>5 DEF Sane, Typed, Shaped
<1>7. Queued(y) /\ Pinging(y) /\ Loading(y)
  BY <1>3, <1>5 DEF Sane, Queued, Pinging, Calling, Loading
<1>8. Counting(y)
  BY <1>5 DEF Sane, Counting, Window, Reported, Told
<1>9. QED
  BY <1>6, <1>7, <1>8 DEF Sane, y

\* Bytes of a request are through.
LEMMA ProgressSane ==
  ASSUME NEW x, Sane(x), NEW k \in Transfer, NEW s \in Stream, x.xhr[k][s] = "live",
         NEW loaded \in x.last[s] + 1 .. Size, NEW d, d = loaded - x.last[s]
  PROVE  Sane([x EXCEPT
              !.loaded = @ + Delta(loaded, x.last[s]), !.last[s] = loaded,
              !.early[k] = IF x.graced THEN @ ELSE @ + d,
              !.late[k] = IF x.graced THEN @ + d ELSE @])
<1> DEFINE n == IF x.graced THEN x.early[k] ELSE x.early[k] + d
           m == IF x.graced THEN x.late[k] + d ELSE x.late[k]
           y == [x EXCEPT
              !.loaded = @ + Delta(loaded, x.last[s]), !.last[s] = loaded,
              !.early[k] = IF x.graced THEN @ ELSE @ + d,
              !.late[k] = IF x.graced THEN @ + d ELSE @]
<1>1. /\ y.loaded = x.loaded + d /\ y.last = [x.last EXCEPT ![s] = loaded]
      /\ y.early = [x.early EXCEPT ![k] = n] /\ y.late = [x.late EXCEPT ![k] = m]
      /\ Alters(y, x, {"loaded", "last", "early", "late"})
  BY Fields DEF Sane, Typed, Shaped, Alters, Delta
<1>2. x.last[s] \in 0 .. Size /\ Size \in Nat
  BY WorkerAssumption DEF Sane, Typed
<1>3. d \in Nat /\ loaded \in 0 .. Size
  BY <1>2
<1>4. x.phase = k /\ x.early[k] \in Nat /\ x.late[k] \in Nat
  BY DEF Sane, Loading, Counting
<1>5. n \in Nat /\ m \in Nat /\ n + m = x.early[k] + x.late[k] + d
      /\ (x.graced => n = x.early[k]) /\ (~ x.graced => m = x.late[k])
  BY <1>3, <1>4
<1> HIDE DEF n, m, y
<1>6. /\ DOMAIN y = DOMAIN x /\ y.alive = x.alive /\ y.phase = x.phase
      /\ y.aborted = x.aborted /\ y.graceTimer = x.graceTimer /\ y.xhr = x.xhr
      /\ y.graced = x.graced /\ y.graceLoaded = x.graceLoaded /\ y.bytes = x.bytes
      /\ y.in = x.in /\ y.out = x.out
      /\ y.ws = x.ws /\ y.failTimer = x.failTimer /\ y.usedFallback = x.usedFallback
      /\ y.count = x.count /\ y.xhrCount = x.xhrCount /\ y.pingXhrs = x.pingXhrs
  BY <1>1, Fields DEF Sane, Typed, Shaped, Alters
<1>7. y.last \in [Stream -> 0 .. Size] /\ y.loaded \in Nat /\ y.graceLoaded <= y.loaded
  BY <1>1, <1>3, <1>6 DEF Sane, Typed
<1>8. Typed(y)
  BY <1>6, <1>7 DEF Sane, Typed, Shaped
<1>9. Queued(y) /\ Pinging(y) /\ Loading(y)
  BY <1>6 DEF Sane, Queued, Pinging, Calling, Loading
<1>10. Counting(y)
  <2>1. /\ y.early \in [Transfer -> Nat] /\ y.late \in [Transfer -> Nat]
        /\ y.early[k] = n /\ y.late[k] = m
        /\ \A j \in Transfer \ {k} : y.early[j] = x.early[j] /\ y.late[j] = x.late[j]
    BY <1>1, <1>5 DEF Sane, Counting
  <2>2. Window(x, k) /\ x.loaded \in Nat
    BY <1>4 DEF Sane, Counting, Typed
  <2>3. Window(y, k)
    BY <1>1, <1>3, <1>4, <1>5, <1>6, <2>1, <2>2 DEF Window
  <2>4. ~ Told(y)
    BY <1>4, <1>6, PhaseCited DEF Sane, Counting, Told
  <2>5. k = "download" => y.early["upload"] = 0 /\ y.late["upload"] = 0
    BY <1>4, <2>1, PhaseCited DEF Sane, Counting
  <2>6. k = "upload" => Reported(y, "download")
    BY <1>4, <1>6, <2>1, PhaseCited DEF Sane, Counting, Reported
  <2>7. QED
    BY <1>4, <1>6, <2>1, <2>3, <2>4, <2>5, <2>6, PhaseCited DEF Sane, Counting
<1>11. QED
  BY <1>8, <1>9, <1>10 DEF Sane, y

\* The window opens.
LEMMA GraceSane ==
  ASSUME NEW x, Sane(x), x.graceTimer, Grace[x.phase] <= Duration
  PROVE  Sane([x EXCEPT !.graceTimer = FALSE, !.graced = TRUE, !.graceLoaded = x.loaded])
<1> DEFINE y == [x EXCEPT !.graceTimer = FALSE, !.graced = TRUE, !.graceLoaded = x.loaded]
<1>1. /\ y.graceTimer = FALSE /\ y.graced = TRUE /\ y.graceLoaded = x.loaded
      /\ DOMAIN y = DOMAIN x /\ y.alive = x.alive /\ y.phase = x.phase
      /\ y.aborted = x.aborted /\ y.xhr = x.xhr /\ y.last = x.last
      /\ y.loaded = x.loaded /\ y.bytes = x.bytes /\ y.early = x.early
      /\ y.late = x.late /\ y.in = x.in /\ y.out = x.out
      /\ y.ws = x.ws /\ y.failTimer = x.failTimer /\ y.usedFallback = x.usedFallback
      /\ y.count = x.count /\ y.xhrCount = x.xhrCount /\ y.pingXhrs = x.pingXhrs
  BY Fields DEF Sane, Typed, Shaped
<1> HIDE DEF y
<1>2. Typed(y)
  BY <1>1 DEF Sane, Typed, Shaped
<1>3. Queued(y) /\ Pinging(y) /\ Loading(y)
  <2>1. Queued(y) /\ Pinging(y)
    BY <1>1 DEF Sane, Queued, Pinging, Calling
  <2>2. Loading(y)
    BY <1>1 DEF Sane, Loading
  <2>3. QED
    BY <2>1, <2>2
<1>4. x.phase \in Transfer /\ ~ x.graced /\ Window(x, x.phase)
  BY DEF Sane, Loading, Counting
<1>5. Window(y, y.phase)
  <2>1. x.early[x.phase] \in Nat
    BY <1>4 DEF Sane, Counting
  <2>2. QED
    BY <1>1, <1>4, <2>1 DEF Window
<1>6. Counting(y)
  BY <1>1, <1>4, <1>5 DEF Sane, Counting, Reported, Told
<1>7. QED
  BY <1>2, <1>3, <1>6 DEF Sane, y

\* The blob did not fit.
LEMMA ThrowSane ==
  ASSUME NEW x, Sane(x), x.phase = "download"
  PROVE  Sane(Throw(Stop(x, "download")))
<1> DEFINE y == Stop(x, "download")
<1>1. Idle(y) /\ Alters(y, x, {"xhr", "graceTimer"}) /\ y.graceTimer = FALSE
  BY StoppedIsIdle, PhaseCited
<1>2. y.graced \in BOOLEAN
  BY <1>1, Fields DEF Sane, Typed, Shaped, Alters, Loading
<1>3. Sane(Post([y EXCEPT !.phase = "over"], "error"))
  BY <1>1, <1>2, EndSane
<1>4. QED
  BY <1>3 DEF Throw

\* The queue of messages without the first.
LEMMA Taken ==
  ASSUME NEW x, Sane(x), x.alive, x.in # <<>>
  PROVE  /\ Tail(x.in) \in Seq(Message)
         /\ \A n \in DOMAIN Tail(x.in) : Tail(x.in)[n] = "abort"
         /\ Head(x.in) = "start" <=> x.phase = "new"
<1>1. x.in \in Seq(Message) /\ Len(x.in) \in Nat \ {0} /\ DOMAIN x.in = 1 .. Len(x.in)
  BY DEF Sane, Queued
<1>2. /\ Tail(x.in) \in Seq(Message) /\ Len(Tail(x.in)) = Len(x.in) - 1
      /\ \A n \in 1 .. Len(x.in) - 1 : Tail(x.in)[n] = x.in[n + 1]
      /\ Head(x.in) = x.in[1]
  BY <1>1
<1>3. \A n \in DOMAIN x.in : x.in[n] = "abort" \/ (n = 1 /\ x.phase = "new")
  BY DEF Sane, Queued
<1>4. ASSUME NEW n \in DOMAIN Tail(x.in) PROVE Tail(x.in)[n] = "abort"
  BY <1>1, <1>2, <1>3
<1>5. Head(x.in) = "start" <=> x.phase = "new"
  BY <1>1, <1>2, <1>3 DEF Sane, Queued
<1>6. QED
  BY <1>2, <1>4, <1>5

LEMMA StartSane ==
  ASSUME NEW x, Sane(x), x.alive, x.in # <<>>, Head(x.in) = "start",
         NEW y, y.in = Tail(x.in), y.phase = "ping", Alters(y, x, {"in", "phase"})
  PROVE  /\ Sane(Throw(y)) /\ Sane(NextPing(y))
         /\ Sane([y EXCEPT !.ws = "connecting", !.failTimer = TRUE])
<1>1. /\ y.phase = "ping" /\ y.in = Tail(x.in)
      /\ DOMAIN y = DOMAIN x /\ y.alive = x.alive
      /\ y.aborted = x.aborted /\ y.xhr = x.xhr /\ y.last = x.last
      /\ y.loaded = x.loaded /\ y.graceTimer = x.graceTimer /\ y.graced = x.graced
      /\ y.graceLoaded = x.graceLoaded /\ y.bytes = x.bytes /\ y.early = x.early
      /\ y.late = x.late /\ y.out = x.out
      /\ y.ws = x.ws /\ y.failTimer = x.failTimer /\ y.usedFallback = x.usedFallback
      /\ y.count = x.count /\ y.xhrCount = x.xhrCount /\ y.pingXhrs = x.pingXhrs
  BY Fields DEF Sane, Typed, Shaped, Alters
<1>2. x.phase = "new" /\ Tail(x.in) \in Seq(Message)
      /\ \A n \in DOMAIN Tail(x.in) : Tail(x.in)[n] = "abort"
  BY Taken
<1>3. /\ y.ws = "none" /\ y.pingXhrs = 0 /\ ~ y.aborted /\ y.count = 0
      /\ y.xhrCount = 0 /\ ~ y.usedFallback /\ y.failTimer = FALSE
  BY <1>1, <1>2 DEF Sane, Pinging
<1>4. /\ \A k \in Transfer, s \in Stream : y.xhr[k][s] # "live"
      /\ y.graceTimer = FALSE /\ y.graced \in BOOLEAN
  BY <1>1, <1>2, PhaseCited DEF Sane, Loading
<1>5. Typed(y)
  BY <1>1, PhaseCited DEF Sane, Typed, Shaped
<1>6. Queued(y) /\ Pinging(y) /\ ~ Calling(y)
  BY <1>1, <1>2, <1>3, WorkerAssumption DEF Sane, Queued, Pinging, Calling
<1>7. Loading(y)
  BY <1>4 DEF Loading
<1>8. Counting(y) /\ ~ Told(y)
  BY <1>1, <1>2, PhaseCited DEF Sane, Counting, Told
<1>9. Sane(y)
  BY <1>5, <1>6, <1>7, <1>8 DEF Sane
<1>10. Sane(NextPing(y))
  BY <1>1, <1>3, <1>6, <1>9, NextPingSane
<1>11. Sane(Throw(y))
  <2>1. Idle(y)
    BY <1>1, <1>3, <1>4, <1>5, <1>6, <1>8 DEF Idle, Counting
  <2>2. QED
    BY <1>4, <2>1, EndSane DEF Throw
<1>12. Sane([y EXCEPT !.ws = "connecting", !.failTimer = TRUE])
  <2> DEFINE z == [y EXCEPT !.ws = "connecting", !.failTimer = TRUE]
  <2>1. /\ z.ws = "connecting" /\ z.failTimer = TRUE /\ Alters(z, y, {"ws", "failTimer"})
        /\ z.count = y.count /\ z.usedFallback = y.usedFallback
        /\ z.xhrCount = y.xhrCount /\ z.pingXhrs = y.pingXhrs
        /\ z.phase = y.phase /\ z.aborted = y.aborted
    BY <1>1, Fields DEF Sane, Typed, Shaped, Alters
  <2> HIDE DEF z
  <2>2. Pinging(z)
    BY <1>1, <1>3, <2>1, WorkerAssumption DEF Pinging, Calling
  <2>3. Sane(z)
    BY <1>5, <1>9, <2>1, <2>2, PingFields DEF Typed, Alters
  <2>4. QED
    BY <2>3 DEF z
<1>13. QED
  BY <1>10, <1>11, <1>12

\* The run is over, in whatever phase it was.
LEMMA AbortSane ==
  ASSUME NEW x, Sane(x), x.alive, x.in # <<>>, Head(x.in) = "abort",
         NEW y, y.in = Tail(x.in), y.aborted = TRUE, Alters(y, x, {"in", "aborted"})
  PROVE  Sane(Post(CASE y.phase = "ping"      -> FinishPing(y)
                     [] y.phase \in Transfer  -> FinishTransfer(y)
                     [] OTHER                 -> y, "aborted"))
<1> DEFINE z == CASE y.phase = "ping"      -> FinishPing(y)
                  [] y.phase \in Transfer  -> FinishTransfer(y)
                  [] OTHER                 -> y
           p == Post(z, "aborted")
<1>1. /\ y.phase = x.phase /\ y.in = Tail(x.in) /\ y.aborted = TRUE
      /\ DOMAIN y = DOMAIN x /\ y.alive = x.alive /\ y.xhr = x.xhr /\ y.last = x.last
      /\ y.loaded = x.loaded /\ y.graceTimer = x.graceTimer /\ y.graced = x.graced
      /\ y.graceLoaded = x.graceLoaded /\ y.bytes = x.bytes /\ y.early = x.early
      /\ y.late = x.late /\ y.out = x.out
      /\ y.ws = x.ws /\ y.failTimer = x.failTimer /\ y.usedFallback = x.usedFallback
      /\ y.count = x.count /\ y.xhrCount = x.xhrCount /\ y.pingXhrs = x.pingXhrs
  BY Fields DEF Sane, Typed, Shaped, Alters
<1>2. x.phase # "new" /\ Tail(x.in) \in Seq(Message)
      /\ \A n \in DOMAIN Tail(x.in) : Tail(x.in)[n] = "abort"
  BY Taken
<1>3. Typed(y)
  BY <1>1 DEF Sane, Typed, Shaped
<1>4. /\ Typed(z) /\ Alters(z, y, {"phase", "xhr", "graceTimer"})
      /\ z.phase = "over" /\ z.graceTimer = FALSE
      /\ \A k \in Transfer, s \in Stream : z.xhr[k][s] # "live"
  <2>1. CASE y.phase = "ping"
    <3>1. z = [y EXCEPT !.phase = "over"]
      <4>1. z = FinishPing(y)
        BY <2>1, PhaseCited
      <4>2. QED
        BY <1>1, <2>1, <4>1, Zenon DEF FinishPing, Done
    <3> HIDE DEF z
    <3>2. z.phase = "over" /\ Alters(z, y, {"phase"})
      BY <1>3, <3>1, Fields DEF Typed, Shaped, Alters
    <3>3. y.graceTimer = FALSE /\ \A k \in Transfer, s \in Stream : y.xhr[k][s] # "live"
      BY <1>1, <2>1, PhaseCited DEF Sane, Loading
    <3>4. z.graceTimer = y.graceTimer /\ z.xhr = y.xhr
      BY <1>3, <3>2, Fields DEF Typed, Shaped, Alters
    <3>5. Typed(z)
      BY <1>3, <3>2, Fields, PhaseCited DEF Typed, Shaped, Alters
    <3>6. QED
      BY <3>2, <3>3, <3>4, <3>5 DEF Alters
  <2>2. CASE y.phase \in Transfer
    <3>0. PICK k \in Transfer : k = y.phase
      BY <2>2
    <3> DEFINE t == Stop(y, k)
    <3>1. /\ Typed(t) /\ Alters(t, y, {"xhr", "graceTimer"}) /\ t.graceTimer = FALSE
          /\ \A s \in Stream : t.xhr[k][s] # "live"
          /\ \A j \in Transfer, s \in Stream : t.xhr[j][s] = "live" => y.xhr[j][s] = "live"
      <4>1. Stopped(t, y, k)
        BY <1>3, StopSane
      <4> HIDE DEF t
      <4>2. QED
        BY <4>1 DEF Stopped
    <3> HIDE DEF t
    <3>2. \A j \in Transfer, s \in Stream : t.xhr[j][s] # "live"
      BY <1>1, <3>0, <3>1 DEF Sane, Loading
    <3>3. z = [t EXCEPT !.phase = "over"]
      <4>1. z = FinishTransfer(y)
        BY <2>2, PhaseCited
      <4>2. t.aborted
        <5>1. t.aborted = y.aborted
          <6>1. DOMAIN y = DOMAIN Gone
            BY <1>3 DEF Typed, Shaped
          <6>2. QED
            BY <3>1, <6>1, Fields DEF Alters
        <5>2. QED
          BY <1>1, <5>1
      <4>3. FinishTransfer(y) = Done(t)
        BY <3>0 DEF FinishTransfer, t
      <4>4. Done(t) = [t EXCEPT !.phase = "over"]
        BY <4>2, Zenon DEF Done
      <4>5. QED
        BY <4>1, <4>3, <4>4
    <3> HIDE DEF z
    <3>4. z.phase = "over" /\ Alters(z, t, {"phase"})
      BY <3>1, <3>3, Fields DEF Typed, Shaped, Alters
    <3>5. z.graceTimer = FALSE /\ z.xhr = t.xhr
      BY <3>1, <3>4, Fields DEF Typed, Shaped, Alters
    <3>6. Typed(z)
      BY <3>1, <3>4, PhaseAltered, PhaseCited
    <3>7. QED
      BY <3>1, <3>2, <3>4, <3>5, <3>6 DEF Alters
  <2>3. CASE y.phase # "ping" /\ y.phase \notin Transfer
    <3>1. z = y
      BY <2>3
    <3>2. y.phase = "over"
      BY <1>1, <1>2, <2>3, PhaseCited DEF Sane, Typed
    <3>3. y.graceTimer = FALSE /\ \A k \in Transfer, s \in Stream : y.xhr[k][s] # "live"
      BY <1>1, <2>3 DEF Sane, Loading
    <3>4. QED
      BY <1>3, <3>1, <3>2, <3>3 DEF Alters
  <2>4. QED
    BY <2>1, <2>2, <2>3
<1> HIDE DEF z
<1>5. /\ z.in = Tail(x.in) /\ z.aborted = TRUE /\ z.alive = x.alive
      /\ z.graced = x.graced /\ z.bytes = x.bytes /\ z.early = x.early
      /\ z.late = x.late /\ z.out = x.out
      /\ z.ws = x.ws /\ z.failTimer = x.failTimer /\ z.usedFallback = x.usedFallback
      /\ z.count = x.count /\ z.xhrCount = x.xhrCount /\ z.pingXhrs = x.pingXhrs
  <2>1. DOMAIN y = DOMAIN Gone
    BY <1>3 DEF Typed, Shaped
  <2>2. /\ z.in = y.in /\ z.aborted = y.aborted /\ z.alive = y.alive
        /\ z.graced = y.graced /\ z.bytes = y.bytes /\ z.early = y.early
        /\ z.late = y.late /\ z.out = y.out
        /\ z.ws = y.ws /\ z.failTimer = y.failTimer /\ z.usedFallback = y.usedFallback
        /\ z.count = y.count /\ z.xhrCount = y.xhrCount /\ z.pingXhrs = y.pingXhrs
    BY <1>4, <2>1, Fields DEF Alters
  <2>3. QED
    BY <1>1, <2>2
<1>6. z.out \in Seq(Message) /\ "aborted" \in Message
  BY <1>5 DEF Sane, Queued, Message
<1>7. /\ Alters(p, z, {"out"}) /\ Typed(p) /\ p.out \in Seq(Message)
      /\ (Told(p) <=> Told(z))
  BY <1>4, <1>6, PostAlters
<1> HIDE DEF p
<1>8. /\ p.in = z.in /\ p.aborted = TRUE /\ p.alive = z.alive /\ p.phase = "over"
      /\ p.graced = z.graced /\ p.bytes = z.bytes /\ p.early = z.early
      /\ p.late = z.late /\ p.xhr = z.xhr /\ p.graceTimer = FALSE
      /\ p.ws = z.ws /\ p.failTimer = z.failTimer /\ p.usedFallback = z.usedFallback
      /\ p.count = z.count /\ p.xhrCount = z.xhrCount /\ p.pingXhrs = z.pingXhrs
  <2>1. DOMAIN z = DOMAIN Gone
    BY <1>4 DEF Typed, Shaped
  <2>2. /\ p.in = z.in /\ p.aborted = z.aborted /\ p.alive = z.alive /\ p.phase = z.phase
        /\ p.graced = z.graced /\ p.bytes = z.bytes /\ p.early = z.early
        /\ p.late = z.late /\ p.xhr = z.xhr /\ p.graceTimer = z.graceTimer
        /\ p.ws = z.ws /\ p.failTimer = z.failTimer /\ p.usedFallback = z.usedFallback
        /\ p.count = z.count /\ p.xhrCount = z.xhrCount /\ p.pingXhrs = z.pingXhrs
    BY <1>7, <2>1, Fields DEF Alters
  <2>3. QED
    BY <1>4, <1>5, <2>2
<1>9. Queued(p)
  BY <1>2, <1>5, <1>7, <1>8 DEF Queued
<1>10. Pinging(p)
  BY <1>5, <1>8 DEF Sane, Pinging, Calling
<1>11. Loading(p)
  BY <1>4, <1>5, <1>8 DEF Sane, Loading
<1>12. Counting(p)
  BY <1>5, <1>7, <1>8, PhaseCited DEF Sane, Counting, Reported, Told
<1>13. QED
  BY <1>7, <1>9, <1>10, <1>11, <1>12 DEF Sane, p, z

----------------------------------------------------------------------------
\* Whatever a worker does, it stays sane.
LEMMA WorkerSane ==
  ASSUME DOMAIN w = Run, NEW r \in Run, Sane(w[r]), WorkerStep(r)
  PROVE  Sane(w'[r])
<1> DEFINE x == w[r]
<1>1. Sane(x) /\ x.alive
  BY DEF WorkerStep
<1>2. ASSUME NEW y, Sane(y), Becomes(r, y) PROVE Sane(w'[r])
  BY <1>2 DEF Becomes
<1>3. CASE OnStart(r)
  <2> DEFINE y == [x EXCEPT !.in = Tail(@), !.phase = "ping"]
             z == [y EXCEPT !.ws = "connecting", !.failTimer = TRUE]
  <2>1. x.in # <<>> /\ Head(x.in) = "start"
        /\ (Becomes(r, Throw(y)) \/ Becomes(r, z) \/ Becomes(r, NextPing(y)))
    BY <1>3 DEF OnStart
  <2>2. y.in = Tail(x.in) /\ y.phase = "ping" /\ Alters(y, x, {"in", "phase"})
    BY <1>1, Fields DEF Sane, Typed, Shaped, Alters
  <2> HIDE DEF x, y
  <2>3. Sane(Throw(y)) /\ Sane(NextPing(y)) /\ Sane(z)
    BY <1>1, <2>1, <2>2, StartSane
  <2>4. QED
    BY <1>2, <2>1, <2>3
<1>4. CASE OnAbort(r)
  <2> DEFINE y == [x EXCEPT !.in = Tail(@), !.aborted = TRUE]
             z == CASE y.phase = "ping"      -> FinishPing(y)
                    [] y.phase \in Transfer  -> FinishTransfer(y)
                    [] OTHER                 -> y
  <2>1. x.in # <<>> /\ Head(x.in) = "abort" /\ Becomes(r, Post(z, "aborted"))
    BY <1>4 DEF OnAbort
  <2>2. y.in = Tail(x.in) /\ y.aborted = TRUE /\ Alters(y, x, {"in", "aborted"})
    BY <1>1, Fields DEF Sane, Typed, Shaped, Alters
  <2> HIDE DEF x, y
  <2>3. Sane(Post(z, "aborted"))
    BY <1>1, <2>1, <2>2, AbortSane
  <2>4. QED
    BY <1>2, <2>1, <2>3
<1>5. CASE WsOpens(r)
  BY <1>1, <1>2, <1>5, SocketSane DEF WsOpens, Calling
<1>6. CASE WsMessage(r)
  <2> DEFINE y == [x EXCEPT !.count = @ + 1]
             z == [y EXCEPT !.ws = "closed"]
             c == [x EXCEPT !.ws = "closed"]
  <2>1. x.ws = "open" /\ Becomes(r, IF y.aborted THEN c ELSE IF y.count < Samples THEN y
                                     ELSE FinishPing(z))
    BY <1>6 DEF WsMessage
  <2>2. y.aborted = x.aborted /\ y.count = x.count + 1
    BY <1>1, Fields DEF Sane, Typed, Shaped
  <2>3. x.count < Samples /\ x.count \in Nat
    BY <1>1, <2>1 DEF Sane, Typed, Pinging, Calling
  <2>4. /\ Sane(c) /\ (x.count + 1 < Samples => Sane(y))
        /\ (x.count + 1 = Samples => Sane(FinishPing(z)))
    BY <1>1, <2>1, SocketSane DEF Calling
  <2> HIDE DEF c, y, z, x
  <2>5. (y.aborted /\ Becomes(r, c)) \/ (y.count < Samples /\ Becomes(r, y))
        \/ (~ (y.count < Samples) /\ Becomes(r, FinishPing(z)))
    BY <2>1 DEF Becomes
  <2>6. QED
    BY <1>2, <2>2, <2>3, <2>4, <2>5, WorkerAssumption
<1>7. CASE WsCloses(r)
  BY <1>1, <1>2, <1>7, ClosedSane DEF WsCloses
<1>8. CASE WsFails(r)
  <2> DEFINE y == [x EXCEPT !.failTimer = FALSE]
             z == Closed(IF ~ y.usedFallback /\ y.count = 0 THEN FallBack(y) ELSE y)
  <2>1. Calling(x) /\ Becomes(r, z)
    BY <1>8 DEF WsFails, Calling
  <2>2. Sane(z)
    BY <1>1, <2>1, FailsSane
  <2>3. QED
    BY <1>2, <2>1, <2>2
<1>9. CASE FailTimer(r)
  BY <1>1, <1>2, <1>9, FallBackSane DEF FailTimer
<1>10. CASE PingXhrEnds(r)
  BY <1>1, <1>2, <1>10, AnsweredSane DEF PingXhrEnds
<1>11. ASSUME NEW k \in Transfer, NEW s \in Stream, XhrProgress(r, k, s) PROVE Sane(w'[r])
  <2>1. PICK loaded \in x.last[s] + 1 .. Size :
          LET d == loaded - x.last[s] IN
          Becomes(r, [x EXCEPT
              !.loaded = @ + Delta(loaded, x.last[s]), !.last[s] = loaded,
              !.early[k] = IF x.graced THEN @ ELSE @ + d,
              !.late[k] = IF x.graced THEN @ + d ELSE @])
    BY <1>11 DEF XhrProgress
  <2> DEFINE d == loaded - x.last[s]
             y == [x EXCEPT
              !.loaded = @ + Delta(loaded, x.last[s]), !.last[s] = loaded,
              !.early[k] = IF x.graced THEN @ ELSE @ + d,
              !.late[k] = IF x.graced THEN @ + d ELSE @]
  <2>2. x.xhr[k][s] = "live"
    BY <1>11 DEF XhrProgress
  <2>3. Sane(y)
    BY <1>1, <2>2, ProgressSane
  <2>4. Becomes(r, y)
    BY <2>1
  <2>5. QED
    BY <1>2, <2>3, <2>4
<1>12. ASSUME NEW k \in Transfer, NEW s \in Stream, XhrEnds(r, k, s) \/ Retry(r, k, s)
       PROVE  Sane(w'[r])
  BY <1>1, <1>2, <1>12, RestartSane DEF XhrEnds, Retry
<1>13. CASE GraceTimer(r)
  BY <1>1, <1>2, <1>13, GraceSane DEF GraceTimer
<1>14. CASE EndTimer(r)
  <2>1. x.phase \in Transfer /\ (x.graceTimer => Grace[x.phase] > Duration)
    BY <1>14 DEF EndTimer
  <2>2. Sane(FinishTransfer(x))
    BY <1>1, <2>1, FinishTransferSane
  <2>3. x.phase = "download" => Sane(Throw(Stop(x, "download")))
    BY <1>1, ThrowSane
  <2>4. QED
    BY <1>2, <1>14, <2>2, <2>3 DEF EndTimer
<1>15. QED
  BY <1>3, <1>4, <1>5, <1>6, <1>7, <1>8, <1>9, <1>10, <1>11, <1>12, <1>13, <1>14
  DEF WorkerStep, Network, Timer

----------------------------------------------------------------------------
(* The page.                                                               *)

Workers ==
  /\ DOMAIN w = Run
  /\ \A r \in Run : Shaped(w[r]) /\ w[r].alive \in BOOLEAN
  /\ \A r \in Run : ~ w[r].alive => w[r].out = <<>>

\* What a run that has not started, is under way or is over has posted.
Posted ==
  /\ last \in Nat /\ worker \in {0, last} /\ worker \in Run \cup {0}
  /\ running \in BOOLEAN
  /\ submitted \in [Run -> Nat] /\ cancelled \subseteq Run
  /\ \A r \in Run :
       /\ r > last \/ worker = r => submitted[r] = 0
       /\ r > last => r \notin cancelled
       /\ r \in cancelled => submitted[r] = 0 /\ (worker = r => aborting)
       /\ submitted[r] <= 1
  /\ aborting => running

PageInv == Workers /\ OneRunAtATime /\ Posted

LEMMA GoneIsShaped == Shaped(Gone) /\ Gone.alive = FALSE /\ Gone.out = <<>>
BY DEF Shaped, Gone

LEMMA CreatedIsShaped ==
  ASSUME NEW config
  PROVE  Shaped(Created(config)) /\ Created(config).alive = TRUE
BY Fields DEF Shaped, Created

LEMMA PageInvInit == PageInit => PageInv
<1> SUFFICES ASSUME PageInit PROVE PageInv
  OBVIOUS
<1>1. Workers
  BY GoneIsShaped DEF PageInit, Workers
<1>2. OneRunAtATime
  BY GoneIsShaped DEF PageInit, OneRunAtATime
<1>3. Posted
  <2>1. /\ last = 0 /\ worker = 0 /\ running = FALSE /\ aborting = FALSE
        /\ cancelled = {} /\ submitted \in [Run -> Nat]
        /\ \A r \in Run : submitted[r] = 0
    BY DEF PageInit
  <2>2. running \in BOOLEAN /\ (aborting => running)
    BY <2>1, Zenon
  <2>3. \A r \in Run : submitted[r] = 0 /\ r \notin cancelled
    BY <2>1
  <2>4. last \in Nat /\ worker \in {0, last} /\ worker \in Run \cup {0}
        /\ cancelled \subseteq Run
    BY <2>1
  <2>5. QED
    BY <2>1, <2>2, <2>3, <2>4 DEF Posted
<1>4. QED
  BY <1>1, <1>2, <1>3 DEF PageInv

\* The run under way is one of Run.
LEMMA CurrentRun ==
  ASSUME PageInv, running PROVE worker \in Nat \ {0} /\ worker = last
BY DEF PageInv, OneRunAtATime, Posted

LEMMA StartKeepsInv ==
  ASSUME PageInv, ClickStart PROVE PageInv'
<1>1. /\ ~ running /\ last + 1 \in Run /\ running' = TRUE /\ last' = last + 1
      /\ worker' = last + 1 /\ w' = [w EXCEPT ![last + 1] = Created(cfg = "loaded")]
      /\ UNCHANGED <<aborting, submitted, cancelled>>
  BY DEF ClickStart
<1>2. \A r \in Run : ~ w[r].alive
  BY <1>1, WorkerAssumption DEF PageInv, OneRunAtATime, Workers
<1>3. /\ DOMAIN w' = Run /\ \A r \in Run \ {last + 1} : w'[r] = w[r]
      /\ Shaped(w'[last + 1]) /\ w'[last + 1].alive = TRUE
  BY <1>1, CreatedIsShaped DEF PageInv, Workers
<1>4. Workers'
  BY <1>3 DEF PageInv, Workers, Shaped
<1>5. OneRunAtATime'
  BY <1>1, <1>2, <1>3, WorkerAssumption DEF PageInv, OneRunAtATime, Workers
<1>6. Posted'
  BY <1>1, WorkerAssumption DEF PageInv, Posted, OneRunAtATime
<1>7. QED
  BY <1>4, <1>5, <1>6 DEF PageInv

\* finishRun leaves no worker behind.
LEMMA FinishLeavesNone ==
  ASSUME PageInv, FinishRun
  PROVE  /\ Workers' /\ running' = FALSE /\ worker' = 0
         /\ \A r \in Run : ~ w'[r].alive
<1>1. \A r \in Run : w'[r] = Gone \/ (w'[r] = w[r] /\ worker # r)
  <2>1. CASE worker = 0
    BY <2>1, WorkerAssumption DEF FinishRun
  <2>2. CASE worker # 0
    <3>1. DOMAIN w = Run /\ w' = [w EXCEPT ![worker] = Gone]
      BY <2>2 DEF FinishRun, PageInv, Workers
    <3>2. ASSUME NEW r \in Run, r = worker PROVE w'[r] = Gone
      BY <3>1, <3>2
    <3>3. ASSUME NEW r \in Run, r # worker PROVE w'[r] = w[r]
      BY <3>1, <3>3
    <3>4. QED
      BY <3>2, <3>3
  <2>3. QED
    BY <2>1, <2>2
<1>2. DOMAIN w' = Run
  BY DEF FinishRun, PageInv, Workers
<1>3. \A r \in Run : ~ w'[r].alive
  BY <1>1, GoneIsShaped DEF PageInv, OneRunAtATime
<1>4. \A r \in Run : Shaped(w'[r]) /\ w'[r].alive \in BOOLEAN /\ w'[r].out = <<>>
  BY <1>1, <1>3, GoneIsShaped DEF PageInv, Workers, OneRunAtATime
<1>5. QED
  BY <1>2, <1>3, <1>4 DEF FinishRun, Workers, Shaped

\* A message comes from the run under way.
LEMMA SenderIsCurrent ==
  ASSUME PageInv, NEW r \in Run, NEW m, Arrives(r, m)
  PROVE  worker = r /\ ~ aborting
BY DEF PageInv, Workers, OneRunAtATime, Arrives

LEMMA PageInvStep == ASSUME PageInv, [PageNext]_pagevars PROVE PageInv'
<1>1. CASE LoadConfig \/ UNCHANGED pagevars
  <2>1. UNCHANGED <<w, running, worker, aborting, last, submitted, cancelled>>
    BY <1>1 DEF LoadConfig, pagevars
  <2>2. Workers' /\ OneRunAtATime'
    BY <2>1 DEF PageInv, Workers, Shaped, OneRunAtATime
  <2>3. Posted'
    BY <2>1 DEF PageInv, Posted
  <2>4. QED
    BY <2>2, <2>3 DEF PageInv
<1>2. CASE ClickStart
  BY <1>2, StartKeepsInv
<1>3. CASE ClickAbort
  <2>1. /\ running /\ aborting' = TRUE /\ cancelled' = cancelled \cup {worker}
        /\ w' = [w EXCEPT ![worker].in = Append(@, "abort")]
        /\ UNCHANGED <<running, worker, last, submitted>>
    BY <1>3 DEF ClickAbort
  <2>2. /\ DOMAIN w' = Run
        /\ \A r \in Run : DOMAIN w'[r] = DOMAIN w[r] /\ w'[r].alive = w[r].alive
                            /\ w'[r].out = w[r].out
    BY <2>1, Fields DEF PageInv, Workers, Shaped
  <2>3. Workers'
    BY <2>2 DEF PageInv, Workers, Shaped
  <2>4. OneRunAtATime'
    BY <2>1, <2>2 DEF PageInv, OneRunAtATime
  <2>5. Posted'
    <3>1. worker \in Run /\ submitted[worker] = 0 /\ worker = last
      BY <2>1, CurrentRun DEF PageInv, Posted
    <3>2. QED
      BY <2>1, <3>1, WorkerAssumption DEF PageInv, Posted
  <2>6. QED
    BY <2>3, <2>4, <2>5 DEF PageInv
<1>4. CASE AbortReturns
  <2>1. FinishRun /\ aborting' = FALSE /\ UNCHANGED <<last, submitted, cancelled>>
    BY <1>4 DEF AbortReturns
  <2>2. Workers' /\ running' = FALSE /\ worker' = 0 /\ \A r \in Run : ~ w'[r].alive
    BY <2>1, FinishLeavesNone
  <2>3. QED
    BY <2>1, <2>2, WorkerAssumption DEF PageInv, OneRunAtATime, Posted
<1>5. ASSUME NEW r \in Run, OnResult(r) PROVE PageInv'
  <2>1. /\ FinishRun /\ submitted' = [submitted EXCEPT ![r] = @ + 1]
        /\ UNCHANGED <<aborting, last, cancelled>> /\ Arrives(r, "result")
    BY <1>5 DEF OnResult
  <2>2. Workers' /\ running' = FALSE /\ worker' = 0 /\ \A q \in Run : ~ w'[q].alive
    BY <2>1, FinishLeavesNone
  <2>3. worker = r /\ ~ aborting
    BY <2>1, SenderIsCurrent
  <2>4. submitted[r] = 0 /\ r \notin cancelled /\ r = last
    BY <2>3, WorkerAssumption DEF PageInv, Posted
  <2>5. submitted'[r] = 1 /\ \A q \in Run \ {r} : submitted'[q] = submitted[q]
    BY <2>1, <2>4 DEF PageInv, Posted
  <2>6. submitted' \in [Run -> Nat]
    BY <2>1 DEF PageInv, Posted
  <2>7. Posted'
    <3>1. ASSUME NEW q \in Run
          PROVE  /\ q > last \/ q = 0 => submitted'[q] = 0
                 /\ q > last => q \notin cancelled
                 /\ q \in cancelled => submitted'[q] = 0
                 /\ submitted'[q] <= 1
      BY <2>4, <2>5, WorkerAssumption DEF PageInv, Posted
    <3>2. QED
      BY <2>1, <2>2, <2>3, <2>6, <3>1, WorkerAssumption DEF PageInv, Posted
  <2>8. QED
    BY <2>2, <2>7, WorkerAssumption DEF PageInv, OneRunAtATime
<1>6. ASSUME NEW r \in Run, OnEnd(r) PROVE PageInv'
  <2>1. FinishRun /\ UNCHANGED <<aborting, last, submitted, cancelled>>
    BY <1>6 DEF OnEnd
  <2>2. Workers' /\ running' = FALSE /\ worker' = 0 /\ \A q \in Run : ~ w'[q].alive
    BY <2>1, FinishLeavesNone
  <2>3. ~ aborting
    BY <1>6, SenderIsCurrent DEF OnEnd
  <2>4. QED
    BY <2>1, <2>2, <2>3, WorkerAssumption DEF PageInv, OneRunAtATime, Posted
<1>7. ASSUME NEW r \in Run, Worker(r) PROVE PageInv'
  <2>1. UNCHANGED <<running, worker, aborting, last, submitted, cancelled>>
    BY <1>7 DEF Worker
  <2>2. /\ w[r].alive /\ DOMAIN w' = Run /\ Keeps(w'[r], w[r])
        /\ \A q \in Run \ {r} : w'[q] = w[q]
    BY <1>7, WorkerKeeps DEF Worker, PageInv, Workers
  <2>3. Workers'
    BY <2>2 DEF PageInv, Workers, Shaped, Keeps
  <2>4. OneRunAtATime'
    BY <2>1, <2>2 DEF PageInv, OneRunAtATime, Keeps
  <2>5. QED
    BY <2>1, <2>3, <2>4 DEF PageInv, Posted
<1>8. QED
  BY <1>1, <1>2, <1>3, <1>4, <1>5, <1>6, <1>7 DEF PageNext

LEMMA PageAlways == PageSpec => []PageInv
BY PageInvInit, PageInvStep, PTL DEF PageSpec

(***************************************************************************)
(* For any number of runs, streams and samples, and whatever a worker is   *)
(* doing when it is left: one run at a time.                               *)
(***************************************************************************)
THEOREM RunsOneAtATime == PageSpec => []OneRunAtATime
BY PageAlways, PTL DEF PageInv

(***************************************************************************)
(* A run posts its result at most once, and never after an abort.          *)
(***************************************************************************)
THEOREM PostsOnce == PageSpec => []ResultPostedOnce
<1>1. ASSUME PageInv, NEW r \in Run
      PROVE  submitted[r] <= (IF r \in cancelled THEN 0 ELSE 1)
  <2>1. submitted[r] <= 1 /\ (r \in cancelled => submitted[r] = 0)
    BY <1>1 DEF PageInv, Posted
  <2>2. QED
    BY <2>1
<1>2. PageInv => ResultPostedOnce
  BY <1>1 DEF ResultPostedOnce
<1>3. QED
  BY <1>2, PageAlways, PTL

----------------------------------------------------------------------------
(* The workers within the page.                                            *)

PageSafe ==
  /\ PageInv /\ \A r \in Run : Sane(w[r])
  /\ cfg \in {"none", "loaded", "failed"} /\ last \in Run \cup {0}
  /\ aborting \in BOOLEAN

LEMMA GoneSane == Sane(Gone)
<1>1. /\ Gone.alive = FALSE /\ Gone.phase = "new"
      /\ Gone.aborted = FALSE /\ Gone.xhr = NoXhr /\ Gone.loaded = 0
      /\ Gone.last = [s \in Stream |-> 0] /\ Gone.graceTimer = FALSE
      /\ Gone.graced = FALSE /\ Gone.graceLoaded = 0 /\ Gone.bytes = None
      /\ Gone.early = None /\ Gone.late = None /\ Gone.in = <<>> /\ Gone.out = <<>>
      /\ Gone.ws = "none" /\ Gone.failTimer = FALSE /\ Gone.usedFallback = FALSE
      /\ Gone.count = 0 /\ Gone.xhrCount = 0 /\ Gone.pingXhrs = 0
  BY DEF Gone
<1>2. /\ NoXhr \in [Transfer -> [Stream -> {"none", "live", "retry"}]]
      /\ \A k \in Transfer, s \in Stream : NoXhr[k][s] = "none"
  BY DEF NoXhr
<1>3. Gone.last \in [Stream -> 0 .. Size]
  BY <1>1, WorkerAssumption
<1>4. Typed(Gone)
  <2>1. "new" \in Phase /\ 0 \in 0 .. Samples
    BY PhaseCited, WorkerAssumption
  <2>2. Gone.xhr \in [Transfer -> [Stream -> {"none", "live", "retry"}]]
    BY <1>1, <1>2
  <2>3. /\ Gone.alive \in BOOLEAN /\ Gone.aborted \in BOOLEAN
        /\ Gone.usedFallback \in BOOLEAN
    BY <1>1
  <2>4. /\ Gone.loaded \in Nat /\ Gone.graceLoaded \in Nat
        /\ Gone.graceLoaded <= Gone.loaded /\ Gone.pingXhrs \in {0, 1}
        /\ Gone.ws \in {"none", "connecting", "open", "closed"}
    BY <1>1
  <2>5. Gone.phase \in Phase /\ Gone.count \in 0 .. Samples /\ Gone.xhrCount \in 0 .. Samples
    BY <1>1, <2>1
  <2>6. QED
    BY <1>3, <2>2, <2>3, <2>4, <2>5, Zenon DEF Typed, Shaped
<1>5. Queued(Gone) /\ ~ Told(Gone)
  BY <1>1 DEF Queued, Told
<1>6. Pinging(Gone)
  BY <1>1 DEF Pinging, Calling
<1>7. Loading(Gone)
  BY <1>1, <1>2 DEF Loading
<1>8. Counting(Gone)
  <2>1. DOMAIN None = Transfer
    BY DEF None
  <2>2. QED
    BY <1>1, <1>5, <2>1, NoneCited, PhaseCited DEF Counting
<1>9. QED
  BY <1>4, <1>5, <1>6, <1>7, <1>8 DEF Sane

\* A message of the page is queued, or the first one.
LEMMA QueueSane ==
  ASSUME NEW x, Sane(x), NEW y, Alters(y, x, {"alive", "config", "in"}),
         y.alive \in BOOLEAN, Queued(y)
  PROVE  Sane(y)
<1>1. /\ DOMAIN y = DOMAIN x /\ y.phase = x.phase
      /\ y.aborted = x.aborted /\ y.xhr = x.xhr /\ y.last = x.last
      /\ y.loaded = x.loaded /\ y.graceTimer = x.graceTimer /\ y.graced = x.graced
      /\ y.graceLoaded = x.graceLoaded /\ y.bytes = x.bytes /\ y.early = x.early
      /\ y.late = x.late /\ y.out = x.out
      /\ y.ws = x.ws /\ y.failTimer = x.failTimer /\ y.usedFallback = x.usedFallback
      /\ y.count = x.count /\ y.xhrCount = x.xhrCount /\ y.pingXhrs = x.pingXhrs
  BY Fields DEF Sane, Typed, Shaped, Alters
<1>2. Typed(y)
  BY <1>1 DEF Sane, Typed, Shaped
<1>3. Pinging(y) /\ Loading(y)
  BY <1>1 DEF Sane, Pinging, Calling, Loading
<1>4. Counting(y)
  BY <1>1 DEF Sane, Counting, Window, Reported, Told
<1>5. QED
  BY <1>2, <1>3, <1>4 DEF Sane

LEMMA CreatedSane == ASSUME NEW config PROVE Sane(Created(config))
<1> DEFINE y == Created(config)
<1>1. /\ Alters(y, Gone, {"alive", "config", "in"}) /\ y.alive = TRUE
      /\ y.in = <<"start">> /\ y.phase = "new" /\ y.out = <<>>
  BY Fields DEF Created, Alters, Gone
<1> HIDE DEF y
<1>2. Queued(y)
  <2>1. <<"start">> \in Seq(Message) /\ <<>> \in Seq(Message)
    BY DEF Message
  <2>2. QED
    BY <1>1, <2>1 DEF Queued
<1>3. Sane(y)
  BY <1>1, <1>2, GoneSane, QueueSane
<1>4. QED
  BY <1>3 DEF y

LEMMA CalledOffSane ==
  ASSUME NEW x, Sane(x), NEW y, Alters(y, x, {"in"}), y.in = Append(x.in, "abort")
  PROVE  Sane(y)
<1>1. y.alive = x.alive /\ y.phase = x.phase /\ y.out = x.out
  BY Fields DEF Sane, Typed, Shaped, Alters
<1>2. x.in \in Seq(Message) /\ "abort" \in Message
  BY DEF Sane, Queued, Message
<1>3. /\ y.in \in Seq(Message) /\ DOMAIN y.in = 1 .. Len(x.in) + 1
      /\ DOMAIN x.in = 1 .. Len(x.in) /\ Len(x.in) \in Nat
      /\ \A n \in 1 .. Len(x.in) : y.in[n] = x.in[n]
      /\ y.in[Len(x.in) + 1] = "abort"
  BY <1>2
<1>4. x.in # <<>> => y.in # <<>> /\ y.in[1] = x.in[1]
  BY <1>2, <1>3
<1>5. \A n \in DOMAIN y.in : n \in DOMAIN x.in \/ y.in[n] = "abort"
  BY <1>3
<1>6. Queued(y)
  BY <1>1, <1>3, <1>4, <1>5 DEF Sane, Queued
<1>7. QED
  BY <1>1, <1>6, QueueSane DEF Sane, Typed, Alters

LEMMA FinishSane ==
  ASSUME PageSafe, FinishRun PROVE \A r \in Run : Sane(w'[r])
<1>1. ASSUME NEW r \in Run PROVE w'[r] = w[r] \/ w'[r] = Gone
  BY DEF FinishRun, PageSafe, PageInv, Workers
<1>2. QED
  BY <1>1, GoneSane DEF PageSafe

LEMMA PageSafeInit == PageInit => PageSafe
<1> SUFFICES ASSUME PageInit PROVE PageSafe
  OBVIOUS
<1>1. \A r \in Run : Sane(w[r])
  BY GoneSane DEF PageInit
<1>2. QED
  BY <1>1, PageInvInit DEF PageInit, PageSafe

LEMMA PageSafeStep == ASSUME PageSafe, [PageNext]_pagevars PROVE PageSafe'
<1>1. PageInv'
  BY PageInvStep DEF PageSafe
<1>2. CASE LoadConfig \/ UNCHANGED pagevars
  <2>1. /\ w' = w /\ last' = last /\ aborting' = aborting
        /\ cfg' \in {"none", "loaded", "failed"}
    BY <1>2 DEF PageSafe, LoadConfig, pagevars
  <2>2. QED
    BY <1>1, <2>1 DEF PageSafe
<1>3. CASE ClickStart
  <2>1. /\ w' = [w EXCEPT ![last + 1] = Created(cfg = "loaded")]
        /\ last' = last + 1 /\ last + 1 \in Run /\ cfg' = cfg /\ aborting' = aborting
    BY <1>3 DEF ClickStart
  <2>2. ASSUME NEW r \in Run PROVE Sane(w'[r])
    BY <2>1, CreatedSane DEF PageSafe, PageInv, Workers
  <2>3. QED
    BY <1>1, <2>1, <2>2 DEF PageSafe
<1>4. CASE ClickAbort
  <2>1. /\ running /\ w' = [w EXCEPT ![worker].in = Append(@, "abort")]
        /\ last' = last /\ cfg' = cfg /\ aborting' = TRUE
    BY <1>4 DEF ClickAbort
  <2>2. worker \in Run
    BY <2>1, CurrentRun DEF PageSafe, PageInv, Posted
  <2>3. \A r \in Run \ {worker} : w'[r] = w[r]
    BY <2>1 DEF PageSafe, PageInv, Workers
  <2>4. w'[worker].in = Append(w[worker].in, "abort") /\ Alters(w'[worker], w[worker], {"in"})
    BY <2>1, <2>2, Fields DEF PageSafe, PageInv, Workers, Shaped, Alters
  <2>5. ASSUME NEW r \in Run PROVE Sane(w'[r])
    BY <2>2, <2>3, <2>4, CalledOffSane DEF PageSafe
  <2>6. QED
    BY <1>1, <2>1, <2>5 DEF PageSafe
<1>5. CASE AbortReturns
  <2>1. FinishRun /\ aborting' = FALSE /\ cfg' = cfg /\ last' = last
    BY <1>5 DEF AbortReturns
  <2>2. QED
    BY <1>1, <2>1, FinishSane DEF PageSafe
<1>6. ASSUME NEW r \in Run, OnResult(r) \/ OnEnd(r) PROVE PageSafe'
  <2>1. FinishRun /\ aborting' = aborting /\ cfg' = cfg /\ last' = last
    BY <1>6 DEF OnResult, OnEnd
  <2>2. QED
    BY <1>1, <2>1, FinishSane DEF PageSafe
<1>7. ASSUME NEW r \in Run, Worker(r) PROVE PageSafe'
  <2>1. WorkerStep(r) /\ aborting' = aborting /\ cfg' = cfg /\ last' = last
    BY <1>7 DEF Worker
  <2>2. DOMAIN w = Run /\ Shaped(w[r]) /\ Sane(w[r])
    BY DEF PageSafe, PageInv, Workers
  <2>3. Sane(w'[r]) /\ \A q \in Run \ {r} : w'[q] = w[q]
    BY <2>1, <2>2, WorkerSane, WorkerKeeps
  <2>4. QED
    BY <1>1, <2>1, <2>3 DEF PageSafe
<1>8. QED
  BY <1>2, <1>3, <1>4, <1>5, <1>6, <1>7 DEF PageNext

LEMMA SafeAlways == PageSpec => []PageSafe
BY PageSafeInit, PageSafeStep, PTL DEF PageSpec

(***************************************************************************)
(* The types of the page and its workers.                                  *)
(***************************************************************************)
THEOREM PageTypeCorrect == PageSpec => []PageTypeOK
<1>1. PageSafe => PageTypeOK
  <2> SUFFICES ASSUME PageSafe PROVE PageTypeOK
    OBVIOUS
  <2>1. WorkerTypeOK
    <3>1. ASSUME NEW r \in Run, Typed(w[r])
          PROVE  /\ DOMAIN w[r] = DOMAIN Gone
                 /\ w[r].phase \in Phase
                 /\ w[r].ws \in {"none", "connecting", "open", "closed"}
                 /\ w[r].count \in 0 .. Samples /\ w[r].xhrCount \in 0 .. Samples
                 /\ w[r].pingXhrs \in Nat
                 /\ w[r].xhr \in [Transfer -> [Stream -> {"none", "live", "retry"}]]
                 /\ w[r].last \in [Stream -> 0 .. Size]
                 /\ 0 <= w[r].graceLoaded /\ w[r].graceLoaded <= w[r].loaded
      BY <3>1 DEF Typed, Shaped
    <3>2. \A r \in Run : Typed(w[r])
      BY DEF PageSafe, Sane
    <3> HIDE DEF PageSafe
    <3>3. QED
      BY <3>1, <3>2, Zenon DEF WorkerTypeOK
  <2>2. QED
    BY <2>1 DEF PageSafe, PageInv, Posted, PageTypeOK
<1>2. QED
  BY <1>1, SafeAlways, PTL

(***************************************************************************)
(* Phases of a worker do not overlap, whatever handlers of an earlier one  *)
(* run late.                                                               *)
(***************************************************************************)
THEOREM PhasesApart == PageSpec => []PhasesDoNotOverlap
<1>1. ASSUME PageSafe, NEW r \in Run
      PROVE  /\ \A k \in Transfer, s \in Stream : w[r].xhr[k][s] = "live" => w[r].phase = k
             /\ (w[r].phase \notin {"new", "ping"} /\ ~ w[r].aborted) =>
                  w[r].pingXhrs = 0 /\ w[r].ws \in {"none", "closed"}
  <2>1. Typed(w[r]) /\ Pinging(w[r]) /\ Loading(w[r])
    BY <1>1 DEF PageSafe, Sane
  <2>2. QED
    BY <2>1 DEF Typed, Pinging, Calling, Loading
<1>2. PageSafe => PhasesDoNotOverlap
  BY <1>1 DEF PhasesDoNotOverlap
<1>3. QED
  BY <1>2, SafeAlways, PTL

(***************************************************************************)
(* One transport at a time carries the ping, and one loop of requests.     *)
(***************************************************************************)
THEOREM PingsOverOne == PageSpec => []OnePingLoop
<1>1. ASSUME PageSafe, NEW r \in Run
      PROVE  /\ w[r].pingXhrs <= 1
             /\ w[r].pingXhrs = 1 => w[r].ws \in {"none", "closed"} /\ w[r].count = 0
  <2>1. Typed(w[r]) /\ Pinging(w[r])
    BY <1>1 DEF PageSafe, Sane
  <2>2. QED
    BY <2>1 DEF Typed, Pinging, Calling
<1>2. PageSafe => OnePingLoop
  BY <1>1 DEF OnePingLoop
<1>3. QED
  BY <1>2, SafeAlways, PTL

(***************************************************************************)
(* A result reports the bytes of its windows, for any grace periods and    *)
(* any duration.                                                           *)
(***************************************************************************)
THEOREM ReportsTheWindow == PageSpec => []WindowIsReported
<1>1. ASSUME PageSafe, NEW r \in Run, Told(w[r]), NEW k \in Transfer
      PROVE  w[r].bytes[k] = IF Grace[k] <= Duration THEN w[r].late[k] ELSE w[r].early[k]
  BY <1>1 DEF PageSafe, Sane, Counting, Reported
<1>2. PageSafe => WindowIsReported
  BY <1>1 DEF WindowIsReported, Told
<1>3. QED
  BY <1>2, SafeAlways, PTL

=============================================================================
