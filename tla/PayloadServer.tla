--------------------------- MODULE PayloadServer ---------------------------
(***************************************************************************)
(* The measurement endpoints of the server: testMW with the handlers of    *)
(* download, upload and ws, internal/handlers/handlers.go, and the metric  *)
(* series they keep, internal/metrics/metrics.go.                          *)
(*                                                                         *)
(* One goroutine serves one request.  The limiter enters by what its       *)
(* abstract specification (SlotGate) promises: it refuses an address with  *)
(* no free slot, and may refuse for other reasons, such as a missing       *)
(* token.  The client is the environment: it reads, sends, stops or        *)
(* disconnects as it likes.  One unit is a fraction of a chunk.            *)
(***************************************************************************)
EXTENDS Integers, FiniteSets

CONSTANTS
  Request,      \* the requests, each served once
  Ip,           \* client addresses
  IpsOf,        \* the addresses each request may come from
  PerIP,        \* -per-ip-concurrency, 0 for no limit
  ChunkUnits,   \* units of a chunk
  ChunkCap,     \* -chunk-cap, 0 for no limit
  MaxUpload,    \* -max-upload-bytes in units, 0 for no limit
  ReadDeadline, \* whether -read-deadline is set
  HTTP2,        \* -http2: connections may speak HTTP/2
  Sizes         \* chunks asked of a download (0: not a number), units of an upload

ASSUME ServerAssumption ==
  /\ IsFiniteSet(Request)
  /\ Ip # {} /\ IpsOf \in [Request -> SUBSET Ip]
  /\ PerIP \in Nat /\ ChunkCap \in Nat /\ MaxUpload \in Nat
  /\ ChunkUnits \in Nat \ {0}
  /\ ReadDeadline \in BOOLEAN /\ HTTP2 \in BOOLEAN
  /\ Sizes \subseteq Nat

VARIABLES
  pc,        \* where the goroutine of each request stands
  kind,      \* its endpoint
  ip,        \* its client
  size,      \* what it asks for or sends
  h2,        \* whether it came over HTTP/2
  done,      \* units moved so far
  status,    \* the answer, 0 while there is none
  hasty,     \* the deadline of a ws connection is about to pass
  active,    \* slots each address holds in the limiter
  started, completed, streams,   \* the test counters and the gauge
  served, received               \* the byte counters

pvars == <<pc, kind, ip, size, h2, done, status, hasty, active,
           started, completed, streams, served, received>>

Test == {"download", "upload", "ws"}

Place == {"idle", "acquire", "admitted", "started", "serving", "sending",
          "returned", "deferred", "leaving", "save", "closed"}

ServerTypeOK ==
  /\ pc \in [Request -> Place]
  /\ kind \in [Request -> Test \cup {"results"}]
  /\ ip \in [Request -> Ip]
  /\ size \in [Request -> Nat]
  /\ h2 \in [Request -> BOOLEAN]
  /\ done \in [Request -> Nat]
  /\ status \in [Request -> {0, 200, 400, 413, 429, 500}]
  /\ hasty \in [Request -> BOOLEAN]
  /\ active \in [Ip -> Nat]
  /\ started \in [Test -> Nat] /\ completed \in [Test -> Nat]
  /\ streams \in Nat /\ served \in Nat /\ received \in Nat

ServerInit ==
  /\ pc = [r \in Request |-> "idle"]
  /\ kind = [r \in Request |-> "results"]
  /\ ip = [r \in Request |-> CHOOSE i \in Ip : TRUE]
  /\ size = [r \in Request |-> 0]
  /\ h2 = [r \in Request |-> FALSE]
  /\ done = [r \in Request |-> 0]
  /\ status = [r \in Request |-> 0]
  /\ hasty = [r \in Request |-> FALSE]
  /\ active = [i \in Ip |-> 0]
  /\ started = [k \in Test |-> 0]
  /\ completed = [k \in Test |-> 0]
  /\ streams = 0
  /\ served = 0
  /\ received = 0

request == <<kind, ip, size, h2>>
series == <<started, completed, streams>>
bytes == <<served, received>>

----------------------------------------------------------------------------
Move(r, from, to) == pc[r] = from /\ pc' = [pc EXCEPT ![r] = to]

Answer(r, code) == status' = [status EXCEPT ![r] = code]

\* The protocol the connection of a request speaks.
Speaks(r) == \E over \in {FALSE, HTTP2} : h2' = [h2 EXCEPT ![r] = over]

\* The mux routes a request to testMW.
Arrive(r) ==
  /\ Move(r, "idle", "acquire")
  /\ \E k \in Test, n \in Sizes, i \in IpsOf[r] :
       /\ kind' = [kind EXCEPT ![r] = k]
       /\ ip' = [ip EXCEPT ![r] = i]
       /\ size' = [size EXCEPT ![r] = IF k = "ws" THEN 0 ELSE n]
  /\ Speaks(r)
  /\ UNCHANGED <<done, status, hasty, active, series, bytes>>

\* Faulty variant: off by one.
SlotFreeOneMore(i) == PerIP = 0 \/ active[i] <= PerIP

SlotFree(i) == PerIP = 0 \/ active[i] < PerIP

Acquire(r) ==
  /\ SlotFree(ip[r])
  /\ Move(r, "acquire", "admitted")
  /\ active' = [active EXCEPT ![ip[r]] = @ + 1]
  /\ UNCHANGED <<request, done, status, hasty, series, bytes>>

\* Faulty variant: release is deferred before ok is looked at.
RefuseReleasing(r) ==
  /\ Move(r, "acquire", "closed")
  /\ Answer(r, 429)
  /\ active' = [active EXCEPT ![ip[r]] = @ - 1]
  /\ UNCHANGED <<request, done, hasty, series, bytes>>

\* Refused for lack of a slot or of a token.
Refuse(r) ==
  /\ Move(r, "acquire", "closed")
  /\ Answer(r, 429)
  /\ UNCHANGED <<request, done, hasty, active, series, bytes>>

CountStarted(r) ==
  /\ Move(r, "admitted", "started")
  /\ started' = [started EXCEPT ![kind[r]] = @ + 1]
  /\ UNCHANGED <<request, done, status, hasty, active, completed, streams, bytes>>

StreamOpens(r) ==
  /\ Move(r, "started", "serving")
  /\ streams' = streams + 1
  /\ UNCHANGED <<request, done, status, hasty, active, started, completed, bytes>>

\* Faulty variant: only a request that was answered 200 is counted.
CountOnlySuccess(r) ==
  /\ Move(r, "returned", "deferred")
  /\ completed' = IF status[r] = 200
                  THEN [completed EXCEPT ![kind[r]] = @ + 1] ELSE completed
  /\ UNCHANGED <<request, done, status, hasty, active, started, streams, bytes>>

\* Whatever the handler answered, once it has returned; a panic skips it.
CountCompleted(r) ==
  /\ Move(r, "returned", "deferred")
  /\ completed' = [completed EXCEPT ![kind[r]] = @ + 1]
  /\ UNCHANGED <<request, done, status, hasty, active, started, streams, bytes>>

\* The deferred calls run in reverse: the gauge, then the slot.
StreamCloses(r) ==
  /\ Move(r, "deferred", "leaving")
  /\ streams' = streams - 1
  /\ UNCHANGED <<request, done, status, hasty, active, started, completed, bytes>>

Release(r) ==
  /\ Move(r, "leaving", "closed")
  /\ active' = [active EXCEPT ![ip[r]] = @ - 1]
  /\ UNCHANGED <<request, done, status, hasty, series, bytes>>

Middleware(r) ==
  \/ Acquire(r) \/ Refuse(r) \/ CountStarted(r) \/ StreamOpens(r)
  \/ CountCompleted(r) \/ StreamCloses(r) \/ Release(r)

----------------------------------------------------------------------------
Serves(r, k) == pc[r] = "serving" /\ kind[r] = k

Returns(r, code) == Move(r, "serving", "returned") /\ Answer(r, code)

Chunks(n) == IF ChunkCap > 0 /\ n > ChunkCap THEN ChunkCap ELSE n

BadChunks(r) ==
  /\ Serves(r, "download") /\ size[r] = 0
  /\ Returns(r, 400)
  /\ UNCHANGED <<request, done, hasty, active, series, bytes>>

Written(r, n) ==
  /\ done' = [done EXCEPT ![r] = @ + n]
  /\ served' = served + n
  /\ UNCHANGED <<request, hasty, active, series, received>>

\* A whole chunk is written; the status went out with the headers.
WriteChunk(r) ==
  /\ Serves(r, "download") /\ size[r] > 0
  /\ Written(r, ChunkUnits)
  /\ Answer(r, 200)
  /\ pc' = [pc EXCEPT ![r] =
              IF done'[r] = Chunks(size[r]) * ChunkUnits THEN "returned" ELSE @]

\* Faulty variant: the bytes of a write that failed are not counted.
WriteFailsUncounted(r) ==
  /\ Serves(r, "download") /\ size[r] > 0
  /\ \E n \in 0 .. ChunkUnits - 1 : done' = [done EXCEPT ![r] = @ + n]
  /\ Returns(r, 200)
  /\ UNCHANGED <<request, hasty, active, series, bytes>>

\* The client is gone; part of the chunk may have been written.
WriteFails(r) ==
  /\ Serves(r, "download") /\ size[r] > 0
  /\ \E n \in 0 .. ChunkUnits - 1 : Written(r, n)
  /\ Returns(r, 200)

\* http.MaxBytesReader: the body is cut at MaxUpload.
TooLarge(n) == MaxUpload > 0 /\ n > MaxUpload

Readable(n) == IF TooLarge(n) THEN MaxUpload ELSE n

\* io.Copy takes a unit of the body.
ReadBody(r) ==
  /\ Serves(r, "upload") /\ done[r] < Readable(size[r])
  /\ done' = [done EXCEPT ![r] = @ + 1]
  /\ UNCHANGED <<pc, request, status, hasty, active, series, bytes>>

\* io.Copy returns; the bytes are counted whatever the outcome.
Drained(r, code) ==
  /\ Returns(r, code)
  /\ received' = received + done[r]
  /\ UNCHANGED <<request, done, hasty, active, series, served>>

\* Faulty variant: a body of exactly MaxUpload is refused.
UploadAnsweredOffByOne(r) ==
  /\ Serves(r, "upload") /\ done[r] = Readable(size[r])
  /\ Drained(r, IF MaxUpload > 0 /\ size[r] >= MaxUpload THEN 413 ELSE 200)

UploadAnswered(r) ==
  /\ Serves(r, "upload") /\ done[r] = Readable(size[r])
  /\ Drained(r, IF TooLarge(size[r]) THEN 413 ELSE 200)

\* The client disconnects.
UploadCut(r) == Serves(r, "upload") /\ Drained(r, 400)

\* Faulty variant: the deadline is never set.
UploadDeadlineUnset(r) == FALSE /\ UploadCut(r)

\* One deadline for the whole body.
UploadDeadline(r) == ReadDeadline /\ UploadCut(r)

\* Faulty variant: gauge and slot are given back after the handler, not deferred.
WsPanicsLosingSlot(r) ==
  /\ Serves(r, "ws") /\ h2[r]
  /\ Move(r, "serving", "closed")
  /\ UNCHANGED <<request, done, status, hasty, active, series, bytes>>

\* A connection over HTTP/2 cannot be hijacked: the websocket package panics,
\* net/http resets the stream, and of testMW only the deferred calls still run.
WsPanics(r) ==
  /\ Serves(r, "ws") /\ h2[r]
  /\ Move(r, "serving", "deferred")
  /\ UNCHANGED <<request, done, status, hasty, active, series, bytes>>

\* The handler owns a connection it has hijacked.
Echoes(r) == kind[r] = "ws" /\ ~ h2[r]

\* A message arrives; the deadline of the next one starts afresh.
WsReceive(r) ==
  /\ Echoes(r) /\ Move(r, "serving", "sending")
  /\ hasty' = [hasty EXCEPT ![r] = FALSE]
  /\ UNCHANGED <<request, done, status, active, series, bytes>>

WsSend(r) ==
  /\ Echoes(r) /\ Move(r, "sending", "serving")
  /\ hasty' = [hasty EXCEPT ![r] = FALSE]
  /\ UNCHANGED <<request, done, status, active, series, bytes>>

\* Time passes without a message, or without the client taking one.
WsWaits(r) ==
  /\ Echoes(r) /\ pc[r] \in {"serving", "sending"}
  /\ ~ hasty[r]
  /\ hasty' = [hasty EXCEPT ![r] = TRUE]
  /\ UNCHANGED <<pc, request, done, status, active, series, bytes>>

\* The handshake fails, the client closes, or sends what cannot be received.
WsEnds(r) ==
  /\ Echoes(r) /\ pc[r] \in {"serving", "sending"}
  /\ pc' = [pc EXCEPT ![r] = "returned"]
  /\ Answer(r, 200)
  /\ UNCHANGED <<request, done, hasty, active, series, bytes>>

\* Faulty variant: only receiving has a deadline.
WsDeadlineOnReceive(r) == pc[r] = "serving" /\ hasty[r] /\ WsEnds(r)

\* Receive and Send each fail at their deadline.
WsDeadline(r) == hasty[r] /\ WsEnds(r)

Handler(r) ==
  \/ BadChunks(r) \/ WriteChunk(r) \/ WriteFails(r)
  \/ ReadBody(r) \/ UploadAnswered(r) \/ UploadCut(r) \/ UploadDeadline(r)
  \/ WsPanics(r)
  \/ WsReceive(r) \/ WsSend(r) \/ WsWaits(r) \/ WsEnds(r) \/ WsDeadline(r)

----------------------------------------------------------------------------
At(places) == {r \in Request : pc[r] \in places}

OfKind(k) == {r \in Request : kind[r] = k}

Running == {"serving", "sending", "returned", "deferred"}

Holding == {"admitted", "started", "leaving"} \cup Running

\* The tests whose handler did not return.
Panicked ==
  {r \in OfKind("ws") : h2[r] /\ pc[r] \in {"deferred", "leaving", "closed"} /\ status[r] = 0}

(***************************************************************************)
(* The gauge counts the handlers that run.  Each of them holds a slot that *)
(* the limiter accounts to its address, and no address holds more than it  *)
(* may, so the streams shown at /metrics never exceed what was admitted.   *)
(* started minus completed is, per endpoint, the number of tests under way *)
(* and of those that panicked, the echo tests asked for over HTTP/2: those *)
(* alone are never completed, yet the gauge and their slots come back.  No *)
(* refusal, error or disconnection makes any of these drift apart.         *)
(***************************************************************************)
StreamsHoldSlots ==
  /\ streams = Cardinality(At(Running))
  /\ \A i \in Ip :
       /\ active[i] = Cardinality({r \in At(Holding) : ip[r] = i})
       /\ PerIP > 0 => active[i] <= PerIP
  /\ \A k \in Test :
       started[k] - completed[k] =
         Cardinality(OfKind(k) \cap
           (At({"started", "serving", "sending", "returned"}) \cup Panicked))

\* One element for each unit of which the requests in S have moved n.
Moved(S, n) == UNION {{r} \X (1 .. n[r]) : r \in S}

(***************************************************************************)
(* Every byte that was moved is counted once, also those of a write or an  *)
(* upload that failed half-way; those of an upload when it ends.           *)
(***************************************************************************)
BytesAccounted ==
  /\ served = Cardinality(Moved(OfKind("download"), done))
  /\ received = Cardinality(Moved(OfKind("upload") \ At({"serving"}), done))

(***************************************************************************)
(* An upload is answered 200 only after its whole body was drained, which  *)
(* is possible up to and including the limit; 413 says that it is longer.  *)
(***************************************************************************)
UploadAnswers ==
  \A r \in OfKind("upload") :
    /\ status[r] = 200 => done[r] = size[r] /\ ~ TooLarge(size[r])
    /\ status[r] = 413 => done[r] = MaxUpload /\ size[r] > MaxUpload

=============================================================================
