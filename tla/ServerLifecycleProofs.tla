----------------------- MODULE ServerLifecycleProofs -----------------------
(***************************************************************************)
(* The server for any number of requests, addresses and sizes, and any     *)
(* limits: slots, gauge and counters agree, answers to uploads are true,   *)
(* and a drain is complete.                                                *)
(*                                                                         *)
(* Counting rests on StepCounts: a step moves one request, so that the     *)
(* number of requests in a set of places changes by what that one does.    *)
(* A sum over requests is the size of a set of units, which MovedChanges   *)
(* follows in the same way.                                                *)
(***************************************************************************)
EXTENDS ServerLifecycle, FiniteSetTheorems, TLAPS

\* The types, but for what may only not be negative because of the counting.
Typed ==
  /\ pc \in [Request -> Place]
  /\ kind \in [Request -> Test \cup {"results"}]
  /\ ip \in [Request -> Ip]
  /\ size \in [Request -> Nat]
  /\ h2 \in [Request -> BOOLEAN]
  /\ done \in [Request -> Nat]
  /\ status \in [Request -> {0, 200, 400, 413, 429, 500}]
  /\ hasty \in [Request -> BOOLEAN]
  /\ active \in [Ip -> Int]
  /\ started \in [Test -> Nat] /\ completed \in [Test -> Nat]
  /\ streams \in Int /\ served \in Nat /\ received \in Nat

ProcessTyped ==
  /\ main \in {"serving", "draining", "returning", "exited"}
  /\ cut \in BOOLEAN
  /\ open \in BOOLEAN
  /\ rows \subseteq Request
  /\ late \subseteq Request

\* Where a request of each kind may be, and that it is answered when its handler
\* returns and not before; an echo test that panics never is.
Placed ==
  \A r \in Request :
    /\ pc[r] \in {"idle", "acquire", "admitted", "started", "save"} => status[r] = 0
    /\ (pc[r] \in {"serving", "sending"} /\ kind[r] \in {"upload", "ws"}) => status[r] = 0
    /\ pc[r] = "returned" => status[r] # 0
    /\ pc[r] = "save" => kind[r] = "results"
    /\ kind[r] = "results" => pc[r] \in {"idle", "save", "closed"}

\* The store is closed after main has stopped serving, and saves end a request.
Closing ==
  /\ ~ open => main \in {"returning", "exited"}
  /\ \A r \in late : pc[r] = "closed"

----------------------------------------------------------------------------
(* Counting.                                                               *)

Bit(b) == IF b THEN 1 ELSE 0

Testing == {"started", "serving", "sending", "returned"}

\* Counted as started and not as completed.
Tested(r) == pc[r] \in Testing \/ r \in Panicked

Testers(k) == OfKind(k) \cap (At(Testing) \cup Panicked)

Counted ==
  /\ streams = Cardinality(At(Running))
  /\ \A i \in Ip : active[i] = Cardinality(Holders(i))
  /\ \A k \in Test : started[k] - completed[k] = Cardinality(Testers(k))

Gate == PerIP > 0 => \A i \in Ip : active[i] <= PerIP

LEMMA OneMoves ==
  ASSUME NEW S, NEW T, IsFiniteSet(S), IsFiniteSet(T), NEW r, S \ {r} = T \ {r}
  PROVE  Cardinality(T) = Cardinality(S) + Bit(r \in T) - Bit(r \in S)
<1>1. /\ Cardinality(S \ {r}) = IF r \in S THEN Cardinality(S) - 1 ELSE Cardinality(S)
      /\ Cardinality(T \ {r}) = IF r \in T THEN Cardinality(T) - 1 ELSE Cardinality(T)
  BY FS_RemoveElement
<1>2. Cardinality(S) \in Nat /\ Cardinality(T) \in Nat
  BY FS_CardinalityType
<1>3. QED
  BY <1>1, <1>2 DEF Bit

\* Nothing but the request r moves.
OnlyMoves(r) ==
  /\ DOMAIN pc' = Request /\ DOMAIN kind' = Request /\ DOMAIN ip' = Request
  /\ \A q \in Request \ {r} :
       /\ pc'[q] = pc[q] /\ kind'[q] = kind[q] /\ ip'[q] = ip[q]
       /\ h2'[q] = h2[q] /\ status'[q] = status[q]

LEMMA StepCounts ==
  ASSUME Typed, Counted, NEW r \in Request, OnlyMoves(r),
         streams' = streams + Bit(pc'[r] \in Running) - Bit(pc[r] \in Running),
         \A i \in Ip : active'[i] = active[i]
            + Bit(pc'[r] \in Holding /\ ip'[r] = i) - Bit(pc[r] \in Holding /\ ip[r] = i),
         \A k \in Test : started'[k] - completed'[k] = started[k] - completed[k]
            + Bit(Tested(r)' /\ kind'[r] = k) - Bit(Tested(r) /\ kind[r] = k)
  PROVE  Counted'
<1>1. ASSUME NEW S \in SUBSET Request PROVE IsFiniteSet(S)
  BY FS_Subset, ServerAssumption
<1>2. streams' = Cardinality(At(Running)')
  <2>1. At(Running) \ {r} = At(Running)' \ {r}
    BY DEF At, OnlyMoves
  <2>2. IsFiniteSet(At(Running)) /\ IsFiniteSet(At(Running)')
    BY <1>1 DEF At
  <2>3. (r \in At(Running) <=> pc[r] \in Running) /\ (r \in At(Running)' <=> pc'[r] \in Running)
    BY DEF At
  <2>4. Cardinality(At(Running)') =
          Cardinality(At(Running)) + Bit(r \in At(Running)') - Bit(r \in At(Running))
    BY <2>1, <2>2, OneMoves
  <2>5. QED
    BY <2>3, <2>4 DEF Counted, Bit
<1>3. ASSUME NEW i \in Ip PROVE active'[i] = Cardinality(Holders(i)')
  <2>1. Holders(i) \ {r} = Holders(i)' \ {r}
    BY DEF Holders, At, OnlyMoves
  <2>2. IsFiniteSet(Holders(i)) /\ IsFiniteSet(Holders(i)')
    BY <1>1 DEF Holders, At
  <2>3. /\ r \in Holders(i) <=> (pc[r] \in Holding /\ ip[r] = i)
        /\ r \in Holders(i)' <=> (pc'[r] \in Holding /\ ip'[r] = i)
    BY DEF Holders, At
  <2>4. Cardinality(Holders(i)') =
          Cardinality(Holders(i)) + Bit(r \in Holders(i)') - Bit(r \in Holders(i))
    BY <2>1, <2>2, OneMoves
  <2>5. QED
    BY <2>3, <2>4 DEF Counted, Bit
<1>4. ASSUME NEW k \in Test PROVE started'[k] - completed'[k] = Cardinality(Testers(k)')
  <2>1. Testers(k) \ {r} = Testers(k)' \ {r}
    BY DEF Testers, OfKind, At, Panicked, OnlyMoves
  <2>2. IsFiniteSet(Testers(k)) /\ IsFiniteSet(Testers(k)')
    BY <1>1 DEF Testers, OfKind
  <2>3. /\ r \in Testers(k) <=> (Tested(r) /\ kind[r] = k)
        /\ r \in Testers(k)' <=> (Tested(r)' /\ kind'[r] = k)
    BY DEF Testers, Tested, OfKind, At
  <2>4. Cardinality(Testers(k)') =
          Cardinality(Testers(k)) + Bit(r \in Testers(k)') - Bit(r \in Testers(k))
    BY <2>1, <2>2, OneMoves
  <2>5. QED
    BY <2>3, <2>4 DEF Counted, Bit
<1>5. QED
  BY <1>2, <1>3, <1>4 DEF Counted, Running, Holding, Testing, Test

\* Counts are not negative.
LEMMA CountsAreNatural ==
  ASSUME Counted
  PROVE  streams \in Nat /\ \A i \in Ip : active[i] \in Nat
<1>1. ASSUME NEW S \in SUBSET Request PROVE Cardinality(S) \in Nat
  BY FS_Subset, FS_CardinalityType, ServerAssumption
<1>2. QED
  BY <1>1 DEF Counted, Holders, At

----------------------------------------------------------------------------
(* The steps of a request.                                                 *)

\* A request that is being served goes on, and does not arrive anew.
Proceeds(r) ==
  /\ pc[r] \notin {"idle", "closed"} /\ pc'[r] \notin {"idle", "acquire", "save"}
  /\ pc' = [pc EXCEPT ![r] = pc'[r]]
  /\ status' = [status EXCEPT ![r] = status'[r]]
  /\ UNCHANGED <<kind, ip, h2>>

LEMMA ProceedsMoves ==
  ASSUME Typed, NEW r \in Request, Proceeds(r) PROVE OnlyMoves(r)
BY DEF Typed, Proceeds, OnlyMoves

LEMMA MovePlace ==
  ASSUME Typed, NEW r \in Request, NEW from, NEW to, Move(r, from, to)
  PROVE  pc'[r] = to /\ pc' = [pc EXCEPT ![r] = pc'[r]]
BY DEF Typed, Move

LEMMA AcquireStep ==
  ASSUME Typed, Counted, Gate, NEW r \in Request, Acquire(r)
  PROVE  Typed' /\ Counted' /\ Gate' /\ Proceeds(r)
<1>1. /\ pc[r] = "acquire" /\ pc'[r] = "admitted" /\ pc' = [pc EXCEPT ![r] = "admitted"]
      /\ active' = [active EXCEPT ![ip[r]] = @ + 1] /\ SlotFree(ip[r])
      /\ UNCHANGED <<kind, ip, size, h2, done, status, hasty, started, completed, streams,
                     served, received>>
  BY MovePlace DEF Acquire, Move, request, series, bytes
<1>2. Proceeds(r)
  BY <1>1 DEF Proceeds, Typed
<1>3. ip[r] \in Ip /\ streams \in Int /\ active \in [Ip -> Int]
      /\ \A k \in Test : started[k] \in Nat /\ completed[k] \in Nat
  BY DEF Typed
<1>4. Counted'
  BY <1>1, <1>2, <1>3, ProceedsMoves, StepCounts
     DEF Bit, Running, Holding, Testing, Tested, Panicked, OfKind
<1>5. Typed'
  BY <1>1, <1>3 DEF Typed, Place
<1>6. Gate'
  BY <1>1, <1>3, ServerAssumption DEF Gate, SlotFree
<1>7. QED
  BY <1>2, <1>4, <1>5, <1>6

LEMMA ReleaseStep ==
  ASSUME Typed, Counted, Gate, NEW r \in Request, Release(r)
  PROVE  Typed' /\ Counted' /\ Gate' /\ Proceeds(r)
<1>1. /\ pc[r] = "leaving" /\ pc'[r] = "closed" /\ pc' = [pc EXCEPT ![r] = "closed"]
      /\ active' = [active EXCEPT ![ip[r]] = @ - 1]
      /\ UNCHANGED <<kind, ip, size, h2, done, status, hasty, started, completed, streams,
                     served, received>>
  BY MovePlace DEF Release, Move, request, series, bytes
<1>2. Proceeds(r)
  BY <1>1 DEF Proceeds, Typed
<1>3. ip[r] \in Ip /\ streams \in Int /\ active \in [Ip -> Int]
      /\ \A k \in Test : started[k] \in Nat /\ completed[k] \in Nat
  BY DEF Typed
<1>4. Counted'
  BY <1>1, <1>2, <1>3, ProceedsMoves, StepCounts
     DEF Bit, Running, Holding, Testing, Tested, Panicked, OfKind
<1>5. Typed'
  BY <1>1, <1>3 DEF Typed, Place
<1>6. Gate'
  BY <1>1, <1>3, ServerAssumption DEF Gate
<1>7. QED
  BY <1>2, <1>4, <1>5, <1>6

\* The counters and the gauge.
LEMMA SeriesStep ==
  ASSUME Typed, Counted, Gate, Placed, NEW r \in Request,
         CountStarted(r) \/ StreamOpens(r) \/ CountCompleted(r) \/ StreamCloses(r)
  PROVE  Typed' /\ Counted' /\ Gate' /\ Proceeds(r)
<1>1. /\ UNCHANGED <<kind, ip, size, h2, done, status, hasty, active, served, received>>
  BY DEF CountStarted, StreamOpens, CountCompleted, StreamCloses, request, series, bytes
<1>2. \/ /\ pc[r] = "admitted" /\ pc' = [pc EXCEPT ![r] = "started"]
         /\ started' = [started EXCEPT ![kind[r]] = @ + 1]
         /\ UNCHANGED <<completed, streams>>
      \/ /\ pc[r] = "started" /\ pc' = [pc EXCEPT ![r] = "serving"]
         /\ streams' = streams + 1 /\ UNCHANGED <<started, completed>>
      \/ /\ pc[r] = "returned" /\ pc' = [pc EXCEPT ![r] = "deferred"]
         /\ completed' = [completed EXCEPT ![kind[r]] = @ + 1]
         /\ UNCHANGED <<started, streams>>
      \/ /\ pc[r] = "deferred" /\ pc' = [pc EXCEPT ![r] = "leaving"]
         /\ streams' = streams - 1 /\ UNCHANGED <<started, completed>>
  BY DEF CountStarted, StreamOpens, CountCompleted, StreamCloses, Move
<1>3. /\ pc \in [Request -> Place] /\ streams \in Int /\ active \in [Ip -> Int]
      /\ started \in [Test -> Nat] /\ completed \in [Test -> Nat]
  BY DEF Typed
<1>4. Proceeds(r)
  BY <1>1, <1>2, <1>3 DEF Proceeds, Typed
<1>5. streams' = streams + Bit(pc'[r] \in Running) - Bit(pc[r] \in Running)
  BY <1>2, <1>3 DEF Bit, Running
<1>6. ASSUME NEW i \in Ip
      PROVE  active'[i] = active[i] + Bit(pc'[r] \in Holding /\ ip'[r] = i)
                                    - Bit(pc[r] \in Holding /\ ip[r] = i)
  BY <1>1, <1>2, <1>3 DEF Bit, Holding, Running
<1>7. ASSUME NEW k \in Test
      PROVE  started'[k] - completed'[k] = started[k] - completed[k]
               + Bit(Tested(r)' /\ kind'[r] = k) - Bit(Tested(r) /\ kind[r] = k)
  BY <1>1, <1>2, <1>3 DEF Bit, Testing, Tested, Panicked, OfKind, Placed
<1>8. Counted'
  BY <1>4, <1>5, <1>6, <1>7, ProceedsMoves, StepCounts
<1>9. pc' \in [Request -> Place] /\ streams' \in Int
      /\ started' \in [Test -> Nat] /\ completed' \in [Test -> Nat]
  BY <1>2, <1>3 DEF Place
<1>10. Typed' /\ Gate'
  BY <1>1, <1>9 DEF Typed, Gate
<1>11. QED
  BY <1>4, <1>8, <1>10

\* Between its two counters a test moves only within the handler.
LEMMA WithinHandler ==
  ASSUME Typed, Counted, Gate, NEW r \in Request,
         pc[r] \in {"serving", "sending"}, pc'[r] \in {"serving", "sending", "returned"},
         pc' = [pc EXCEPT ![r] = pc'[r]],
         status' = [status EXCEPT ![r] = status'[r]],
         UNCHANGED <<kind, ip, h2, active, started, completed, streams>>
  PROVE  Counted' /\ Gate' /\ Proceeds(r)
<1>1. Proceeds(r)
  BY DEF Proceeds
<1>2. streams \in Int /\ active \in [Ip -> Int]
      /\ \A k \in Test : started[k] \in Nat /\ completed[k] \in Nat
  BY DEF Typed
<1>3. Counted'
  BY <1>1, <1>2, ProceedsMoves, StepCounts
     DEF Bit, Running, Holding, Testing, Tested, Panicked, OfKind
<1>4. QED
  BY <1>1, <1>3 DEF Gate

\* What an upload may be answered.
Told(r) ==
  \/ status'[r] = status[r] /\ pc'[r] = "serving"
  \/ status'[r] = 400
  \/ status'[r] = 200 /\ done'[r] = size[r] /\ ~ TooLarge(size[r])
  \/ status'[r] = 413 /\ done'[r] = MaxUpload /\ size[r] > MaxUpload

Elsewhere(r) ==
  /\ \A q \in Request \ {r} : done'[q] = done[q]
  /\ status' = [status EXCEPT ![r] = status'[r]]

LEMMA DownloadStep ==
  ASSUME Typed, NEW r \in Request, BadChunks(r) \/ WriteChunk(r) \/ WriteFails(r)
  PROVE  /\ pc[r] = "serving" /\ kind[r] = "download"
         /\ pc'[r] \in {"serving", "returned"} /\ pc' = [pc EXCEPT ![r] = pc'[r]]
         /\ UNCHANGED <<kind, ip, size, h2, active, started, completed, streams>>
         /\ Elsewhere(r) /\ Typed'
<1>1. /\ pc[r] = "serving" /\ kind[r] = "download"
      /\ UNCHANGED <<kind, ip, size, h2, active, started, completed, streams, hasty, received>>
  BY DEF BadChunks, WriteChunk, WriteFails, Written, Serves, request, series, bytes
<1>2. pc' = [pc EXCEPT ![r] = pc'[r]] /\ pc'[r] \in {"serving", "returned"}
  BY <1>1 DEF BadChunks, WriteChunk, WriteFails, Returns, Move, Typed
<1>3. \E code \in {200, 400} : status' = [status EXCEPT ![r] = code]
  BY DEF BadChunks, WriteChunk, WriteFails, Returns, Answer
<1>4. \E n \in Nat : done' = [done EXCEPT ![r] = @ + n] /\ served' = served + n
  <2>1. CASE BadChunks(r)
    <3>1. done' = done /\ served' = served
      BY <2>1 DEF BadChunks, bytes
    <3>2. done' = [done EXCEPT ![r] = @ + 0] /\ served' = served + 0
      BY <3>1 DEF Typed
    <3>3. QED
      BY <3>2
  <2>2. CASE WriteChunk(r)
    BY <2>2, ServerAssumption DEF WriteChunk, Written
  <2>3. CASE WriteFails(r)
    <3>1. PICK n \in 0 .. ChunkUnits - 1 : Written(r, n)
      BY <2>3 DEF WriteFails
    <3>2. n \in Nat
      BY ServerAssumption
    <3>3. QED
      BY <3>1, <3>2 DEF Written
  <2>4. QED
    BY <2>1, <2>2, <2>3
<1>5. Elsewhere(r)
  BY <1>3, <1>4 DEF Elsewhere, Typed
<1>6. Typed'
  BY <1>1, <1>2, <1>3, <1>4 DEF Typed, Place
<1>7. QED
  BY <1>1, <1>2, <1>5, <1>6

LEMMA UploadStep ==
  ASSUME Typed, NEW r \in Request,
         ReadBody(r) \/ UploadAnswered(r) \/ UploadCut(r) \/ UploadDeadline(r)
  PROVE  /\ pc[r] = "serving" /\ kind[r] = "upload"
         /\ pc'[r] \in {"serving", "returned"} /\ pc' = [pc EXCEPT ![r] = pc'[r]]
         /\ UNCHANGED <<kind, ip, size, h2, active, started, completed, streams>>
         /\ Elsewhere(r) /\ Typed' /\ Told(r)
<1>1. CASE ReadBody(r)
  <2>1. /\ pc[r] = "serving" /\ kind[r] = "upload" /\ done' = [done EXCEPT ![r] = @ + 1]
        /\ UNCHANGED <<pc, kind, ip, size, h2, status, hasty, active, started, completed,
                       streams, served, received>>
    BY <1>1 DEF ReadBody, Serves, request, series, bytes
  <2>2. pc' = [pc EXCEPT ![r] = pc'[r]]
    BY <2>1 DEF Typed
  <2>3. Elsewhere(r) /\ Told(r)
    BY <2>1 DEF Elsewhere, Told, Typed
  <2>4. Typed'
    BY <2>1 DEF Typed
  <2>5. QED
    BY <2>1, <2>2, <2>3, <2>4
<1>2. ASSUME NEW code \in {200, 400, 413}, Serves(r, "upload"), Drained(r, code)
      PROVE  /\ pc[r] = "serving" /\ kind[r] = "upload"
             /\ pc'[r] = "returned" /\ pc' = [pc EXCEPT ![r] = pc'[r]]
             /\ UNCHANGED <<kind, ip, size, h2, done, active, started, completed, streams>>
             /\ Elsewhere(r) /\ Typed' /\ status'[r] = code
  <2>1. /\ pc[r] = "serving" /\ kind[r] = "upload" /\ pc' = [pc EXCEPT ![r] = "returned"]
        /\ status' = [status EXCEPT ![r] = code] /\ received' = received + done[r]
        /\ UNCHANGED <<kind, ip, size, h2, done, hasty, active, started, completed, streams, served>>
    BY <1>2 DEF Serves, Drained, Returns, Move, Answer, request, series
  <2>2. Elsewhere(r) /\ status'[r] = code
    BY <2>1 DEF Elsewhere, Typed
  <2>3. Typed'
    BY <2>1 DEF Typed, Place
  <2>4. QED
    BY <2>1, <2>2, <2>3 DEF Typed
<1>3. CASE UploadAnswered(r)
  <2> DEFINE code == IF TooLarge(size[r]) THEN 413 ELSE 200
  <2>1. Serves(r, "upload") /\ done[r] = Readable(size[r]) /\ Drained(r, code)
    BY <1>3 DEF UploadAnswered
  <2>2. Told(r)
    BY <1>2, <2>1 DEF Told, Readable, TooLarge
  <2>3. QED
    BY <1>2, <2>1, <2>2
<1>4. CASE UploadCut(r) \/ UploadDeadline(r)
  <2>1. Serves(r, "upload") /\ Drained(r, 400)
    BY <1>4 DEF UploadCut, UploadDeadline
  <2>2. QED
    BY <1>2, <2>1 DEF Told
<1>5. QED
  BY <1>1, <1>3, <1>4

LEMMA WsStep ==
  ASSUME Typed, NEW r \in Request,
         WsReceive(r) \/ WsSend(r) \/ WsWaits(r) \/ WsEnds(r) \/ WsDeadline(r)
  PROVE  /\ pc[r] \in {"serving", "sending"} /\ kind[r] = "ws"
         /\ pc'[r] \in {"serving", "sending", "returned"} /\ pc' = [pc EXCEPT ![r] = pc'[r]]
         /\ UNCHANGED <<kind, ip, size, h2, active, started, completed, streams>>
         /\ Elsewhere(r) /\ Typed'
<1>1. CASE WsEnds(r) \/ WsDeadline(r)
  <2>1. /\ pc[r] \in {"serving", "sending"} /\ kind[r] = "ws"
        /\ pc' = [pc EXCEPT ![r] = "returned"] /\ status' = [status EXCEPT ![r] = 200]
        /\ UNCHANGED <<kind, ip, size, h2, done, hasty, active, started, completed, streams,
                       served, received>>
    BY <1>1 DEF WsEnds, WsDeadline, Echoes, Answer, request, series, bytes
  <2>2. Elsewhere(r) /\ Typed'
    BY <2>1 DEF Elsewhere, Typed, Place
  <2>3. QED
    BY <2>1, <2>2 DEF Typed
<1>2. CASE WsReceive(r) \/ WsSend(r) \/ WsWaits(r)
  <2>1. /\ pc[r] \in {"serving", "sending"} /\ kind[r] = "ws"
        /\ \E to \in {"serving", "sending"} : pc' = [pc EXCEPT ![r] = to]
        /\ \E b \in BOOLEAN : hasty' = [hasty EXCEPT ![r] = b]
        /\ UNCHANGED <<kind, ip, size, h2, done, status, active, started, completed, streams,
                       served, received>>
    <3>1. CASE WsReceive(r) \/ WsSend(r)
      BY <3>1 DEF WsReceive, WsSend, Echoes, Move, request, series, bytes
    <3>2. CASE WsWaits(r)
      <4>1. pc' = [pc EXCEPT ![r] = pc[r]]
        BY <3>2 DEF WsWaits, Typed
      <4>2. QED
        BY <3>2, <4>1 DEF WsWaits, Echoes, request, series, bytes
    <3>3. QED
      BY <1>2, <3>1, <3>2
  <2>2. Elsewhere(r)
    BY <2>1 DEF Elsewhere, Typed
  <2>3. Typed'
    BY <2>1 DEF Typed, Place
  <2>4. QED
    BY <2>1, <2>2, <2>3 DEF Typed
<1>3. QED
  BY <1>1, <1>2

\* A handler that panics leaves the gauge and the slot to the deferred calls.
LEMMA PanicStep ==
  ASSUME Typed, Counted, Gate, Placed, NEW r \in Request, WsPanics(r)
  PROVE  /\ Typed' /\ Counted' /\ Gate' /\ Proceeds(r)
         /\ pc[r] = "serving" /\ pc'[r] = "deferred" /\ kind[r] = "ws"
         /\ UNCHANGED <<kind, size, done, status>>
<1>1. /\ pc[r] = "serving" /\ pc'[r] = "deferred" /\ pc' = [pc EXCEPT ![r] = "deferred"]
      /\ kind[r] = "ws" /\ h2[r]
      /\ UNCHANGED <<kind, ip, size, h2, done, status, hasty, active, started, completed,
                     streams, served, received>>
  BY MovePlace DEF WsPanics, Serves, Move, request, series, bytes
<1>2. Proceeds(r)
  BY <1>1 DEF Proceeds, Typed
<1>3. streams \in Int /\ active \in [Ip -> Int]
      /\ \A k \in Test : started[k] \in Nat /\ completed[k] \in Nat
  BY DEF Typed
<1>4. Tested(r) /\ Tested(r)'
  BY <1>1 DEF Tested, Testing, Panicked, OfKind, Placed
<1>5. Counted'
  BY <1>1, <1>2, <1>3, <1>4, ProceedsMoves, StepCounts DEF Bit, Running, Holding
<1>6. Typed' /\ Gate'
  BY <1>1 DEF Typed, Gate, Place
<1>7. QED
  BY <1>1, <1>2, <1>5, <1>6

\* A refusal holds nothing.
LEMMA RefuseStep ==
  ASSUME Typed, Counted, Gate, NEW r \in Request, Refuse(r)
  PROVE  Typed' /\ Counted' /\ Gate' /\ Proceeds(r)
<1>1. /\ pc[r] = "acquire" /\ pc'[r] = "closed" /\ pc' = [pc EXCEPT ![r] = "closed"]
      /\ status' = [status EXCEPT ![r] = 429]
      /\ UNCHANGED <<kind, ip, size, h2, done, hasty, active, started, completed, streams,
                     served, received>>
  BY MovePlace DEF Refuse, Move, Answer, request, series, bytes
<1>2. Proceeds(r)
  BY <1>1 DEF Proceeds, Typed
<1>3. streams \in Int /\ active \in [Ip -> Int]
      /\ \A k \in Test : started[k] \in Nat /\ completed[k] \in Nat
  BY DEF Typed
<1>4. Counted'
  BY <1>1, <1>2, <1>3, ProceedsMoves, StepCounts
     DEF Typed, Bit, Running, Holding, Testing, Tested, Panicked, OfKind
<1>5. Typed' /\ Gate'
  BY <1>1 DEF Typed, Gate, Place
<1>6. QED
  BY <1>2, <1>4, <1>5

\* Every step of testMW and its handlers.
LEMMA ServeStep ==
  ASSUME Typed, Counted, Gate, Placed, UploadAnswers,
         NEW r \in Request, Middleware(r) \/ Handler(r)
  PROVE  /\ Typed' /\ Counted' /\ Gate' /\ Placed' /\ UploadAnswers'
         /\ Proceeds(r) /\ kind[r] # "results"
         /\ \A q \in Request \ {r} : status'[q] = status[q]
<1>1. CASE Middleware(r)
  <2>1. Typed' /\ Counted' /\ Gate' /\ Proceeds(r)
    BY <1>1, AcquireStep, RefuseStep, SeriesStep, ReleaseStep DEF Middleware
  <2>2. UNCHANGED <<kind, size, done>>
    BY <1>1 DEF Middleware, Acquire, Refuse, CountStarted, StreamOpens, CountCompleted,
                StreamCloses, Release, request
  <2>3. status' = status \/ (status' = [status EXCEPT ![r] = 429] /\ pc'[r] = "closed")
    BY <1>1, MovePlace DEF Middleware, Acquire, Refuse, CountStarted, StreamOpens,
                CountCompleted, StreamCloses, Release, Answer
  <2>4. pc[r] \in {"acquire", "admitted", "started", "returned", "deferred", "leaving"}
        /\ pc'[r] \in {"admitted", "started", "serving", "deferred", "leaving", "closed"}
        /\ (pc'[r] \in {"admitted", "started", "serving"} =>
              pc[r] \in {"acquire", "admitted", "started"})
    BY <1>1, MovePlace DEF Middleware, Acquire, Refuse, CountStarted, StreamOpens,
                CountCompleted, StreamCloses, Release, Move
  <2>5. kind[r] # "results"
    BY <2>4 DEF Placed
  <2>6. Placed'
    BY <2>1, <2>2, <2>3, <2>4, <2>5 DEF Typed, Placed, Proceeds
  <2>7. UploadAnswers'
    BY <2>2, <2>3 DEF Typed, UploadAnswers, OfKind
  <2>8. \A q \in Request \ {r} : status'[q] = status[q]
    BY <2>3 DEF Typed
  <2>9. QED
    BY <2>1, <2>5, <2>6, <2>7, <2>8
<1>2. CASE WsPanics(r)
  <2>1. /\ Typed' /\ Counted' /\ Gate' /\ Proceeds(r)
        /\ pc[r] = "serving" /\ pc'[r] = "deferred" /\ kind[r] = "ws"
        /\ UNCHANGED <<kind, size, done, status>>
    BY <1>2, PanicStep
  <2>2. Placed'
    BY <2>1 DEF Typed, Placed, Proceeds
  <2>3. UploadAnswers'
    BY <2>1 DEF UploadAnswers, OfKind
  <2>4. QED
    BY <2>1, <2>2, <2>3
<1>3. CASE Handler(r) /\ ~ WsPanics(r)
  <2>1. /\ pc[r] \in {"serving", "sending"} /\ kind[r] \in Test
        /\ pc'[r] \in {"serving", "sending", "returned"} /\ pc' = [pc EXCEPT ![r] = pc'[r]]
        /\ UNCHANGED <<kind, ip, size, h2, active, started, completed, streams>>
        /\ Elsewhere(r) /\ Typed'
        /\ kind[r] = "upload" => pc[r] = "serving" /\ pc'[r] # "sending" /\ Told(r)
    BY <1>3, DownloadStep, UploadStep, WsStep DEF Handler, Test
  <2>2. Counted' /\ Gate' /\ Proceeds(r)
    BY <2>1, WithinHandler DEF Elsewhere
  <2>3. kind[r] # "results"
    BY <2>1 DEF Test
  <2>4. (pc'[r] \in {"serving", "sending"} /\ kind[r] \in {"upload", "ws"}) => status'[r] = 0
    <3> SUFFICES ASSUME pc'[r] \in {"serving", "sending"}, kind[r] \in {"upload", "ws"}
                 PROVE  status'[r] = 0
      OBVIOUS
    <3>1. status' = status
      BY <1>3, <2>1 DEF Handler, BadChunks, WriteChunk, WriteFails, ReadBody, UploadAnswered,
         UploadCut, UploadDeadline, Drained, Returns, Move, Serves, WsReceive, WsSend,
         WsWaits, WsEnds, WsDeadline, Typed
    <3>2. QED
      BY <2>1, <3>1 DEF Placed
  <2>5. pc'[r] = "returned" => status'[r] # 0
    BY <1>3, <2>1 DEF Handler, BadChunks, WriteChunk, WriteFails, ReadBody, UploadAnswered,
       UploadCut, UploadDeadline, Drained, Returns, Answer, Move, Serves, WsReceive, WsSend,
       WsWaits, WsEnds, WsDeadline, Typed
  <2>6. Placed'
    BY <2>1, <2>3, <2>4, <2>5 DEF Typed, Placed, Elsewhere
  <2>7. ASSUME NEW q \in Request, kind'[q] = "upload"
        PROVE  /\ status'[q] = 200 => done'[q] = size'[q] /\ ~ TooLarge(size'[q])
               /\ status'[q] = 413 => done'[q] = MaxUpload /\ size'[q] > MaxUpload
    <3>1. CASE q = r
      <4>1. Told(r) /\ status[r] = 0
        BY <2>1, <2>7, <3>1 DEF Placed
      <4>2. QED
        BY <2>1, <3>1, <4>1 DEF Told
    <3>2. CASE q # r
      BY <2>1, <2>7, <3>2 DEF Elsewhere, UploadAnswers, OfKind, Typed
    <3>3. QED
      BY <3>1, <3>2
  <2>8. UploadAnswers'
    BY <2>7 DEF UploadAnswers, OfKind, TooLarge
  <2>9. QED
    BY <2>1, <2>2, <2>3, <2>6, <2>8 DEF Elsewhere, Typed
<1>4. QED
  BY <1>1, <1>2, <1>3

\* A request arrives, as a test or as a result.
LEMMA ConnectStep ==
  ASSUME Typed, Counted, Gate, Placed, UploadAnswers, NEW r \in Request, Connect(r)
  PROVE  /\ Typed' /\ Counted' /\ Gate' /\ Placed' /\ UploadAnswers'
         /\ pc[r] = "idle" /\ OnlyMoves(r) /\ UNCHANGED status
<1>1. /\ pc[r] = "idle" /\ \E to \in {"acquire", "save"} :
           /\ pc' = [pc EXCEPT ![r] = to]
           /\ \E k \in Test \cup {"results"} : kind' = [kind EXCEPT ![r] = k]
                                                /\ (to = "save" <=> k = "results")
      /\ \E i \in Ip : ip' = [ip EXCEPT ![r] = i]
      /\ \E n \in Nat : size' = [size EXCEPT ![r] = n]
      /\ \E over \in BOOLEAN : h2' = [h2 EXCEPT ![r] = over]
      /\ UNCHANGED <<done, status, hasty, active, started, completed, streams, served, received>>
  <2>1. CASE Arrive(r)
    <3>1. PICK k \in Test, n \in Sizes, i \in IpsOf[r] :
            /\ kind' = [kind EXCEPT ![r] = k]
            /\ ip' = [ip EXCEPT ![r] = i]
            /\ size' = [size EXCEPT ![r] = IF k = "ws" THEN 0 ELSE n]
      BY <2>1 DEF Arrive
    <3>2. i \in Ip /\ (IF k = "ws" THEN 0 ELSE n) \in Nat /\ k # "results"
      BY ServerAssumption DEF Test
    <3>3. pc[r] = "idle" /\ pc' = [pc EXCEPT ![r] = "acquire"]
          /\ UNCHANGED <<done, status, hasty, active, started, completed, streams, served, received>>
      BY <2>1 DEF Arrive, Move, series, bytes
    <3>4. \E over \in BOOLEAN : h2' = [h2 EXCEPT ![r] = over]
      BY <2>1, ServerAssumption DEF Arrive, Speaks
    <3>5. QED
      BY <3>1, <3>2, <3>3, <3>4
  <2>2. CASE ~ Arrive(r)
    <3>1. /\ pc[r] = "idle" /\ pc' = [pc EXCEPT ![r] = "save"]
          /\ kind' = [kind EXCEPT ![r] = "results"]
          /\ UNCHANGED <<ip, size, done, status, hasty, active, started, completed, streams,
                         served, received>>
      BY <2>2 DEF Connect, Move, counters, series, bytes
    <3>2. \E over \in BOOLEAN : h2' = [h2 EXCEPT ![r] = over]
      BY <2>2, ServerAssumption DEF Connect, Speaks
    <3>3. ip' = [ip EXCEPT ![r] = ip[r]] /\ ip[r] \in Ip
          /\ size' = [size EXCEPT ![r] = size[r]] /\ size[r] \in Nat
      BY <3>1 DEF Typed
    <3>4. QED
      BY <3>1, <3>2, <3>3
  <2>3. QED
    BY <2>1, <2>2
<1>2. OnlyMoves(r)
  BY <1>1 DEF Typed, OnlyMoves
<1>3. pc'[r] \in {"acquire", "save"} /\ status[r] = 0
  BY <1>1 DEF Typed, Placed
<1>4. streams \in Int /\ active \in [Ip -> Int]
      /\ \A k \in Test : started[k] \in Nat /\ completed[k] \in Nat
  BY DEF Typed
<1>5. Counted'
  BY <1>1, <1>2, <1>3, <1>4, StepCounts
     DEF Bit, Running, Holding, Testing, Tested, Panicked, OfKind
<1>6. Typed' /\ Gate'
  BY <1>1 DEF Typed, Gate, Place
<1>7. Placed'
  BY <1>1, <1>2, <1>3 DEF Typed, Placed, OnlyMoves
<1>8. UploadAnswers'
  <2>1. ASSUME NEW q \in Request, kind'[q] = "upload"
        PROVE  /\ status'[q] = 200 => done'[q] = size'[q] /\ ~ TooLarge(size'[q])
               /\ status'[q] = 413 => done'[q] = MaxUpload /\ size'[q] > MaxUpload
    <3>1. CASE q = r
      BY <1>1, <1>3, <3>1
    <3>2. CASE q # r
      <4>1. kind[q] = "upload" /\ size'[q] = size[q]
        BY <1>1, <1>2, <2>1, <3>2 DEF OnlyMoves, Typed
      <4>2. QED
        BY <1>1, <4>1 DEF UploadAnswers, OfKind
    <3>3. QED
      BY <3>1, <3>2
  <2>2. QED
    BY <2>1 DEF UploadAnswers, OfKind, TooLarge
<1>9. QED
  BY <1>1, <1>2, <1>5, <1>6, <1>7, <1>8

\* The ingestion of a result ends it.
LEMMA ResultStep ==
  ASSUME Typed, Counted, Gate, Placed, UploadAnswers, NEW r \in Request,
         RejectResult(r) \/ SaveResult(r)
  PROVE  /\ Typed' /\ Counted' /\ Gate' /\ Placed' /\ UploadAnswers' /\ Proceeds(r)
         /\ pc[r] = "save" /\ pc'[r] = "closed" /\ kind[r] = "results"
<1>1. /\ pc[r] = "save" /\ pc' = [pc EXCEPT ![r] = "closed"]
      /\ \E code \in {200, 400, 500} : status' = [status EXCEPT ![r] = code]
      /\ UNCHANGED <<kind, ip, size, h2, done, hasty, active, started, completed, streams,
                     served, received>>
  BY DEF RejectResult, SaveResult, Move, Answer, request, counters, series, bytes
<1>2. pc'[r] = "closed" /\ kind[r] = "results"
  BY <1>1 DEF Typed, Placed
<1>3. Proceeds(r)
  BY <1>1, <1>2 DEF Proceeds, Typed
<1>4. streams \in Int /\ active \in [Ip -> Int]
      /\ \A k \in Test : started[k] \in Nat /\ completed[k] \in Nat
  BY DEF Typed
<1>5. Counted'
  BY <1>1, <1>2, <1>3, <1>4, ProceedsMoves, StepCounts
     DEF Bit, Running, Holding, Testing, Tested, Panicked, OfKind
<1>6. Typed' /\ Gate'
  BY <1>1 DEF Typed, Gate, Place
<1>7. Placed'
  BY <1>1, <1>2 DEF Typed, Placed
<1>8. UploadAnswers'
  BY <1>1, <1>2 DEF Typed, UploadAnswers, OfKind
<1>9. QED
  BY <1>1, <1>2, <1>3, <1>5, <1>6, <1>7, <1>8

----------------------------------------------------------------------------
(* The process.                                                            *)

ServerInv == Typed /\ Counted /\ Gate /\ Placed /\ UploadAnswers

LifecycleInv == ServerInv /\ ProcessTyped /\ Closing /\ DrainIsComplete

LEMMA InitHolds == LifecycleInit => LifecycleInv
<1> SUFFICES ASSUME LifecycleInit PROVE LifecycleInv
  OBVIOUS
<1>1. Typed
  BY ServerAssumption DEF LifecycleInit, ServerInit, Typed, Place
<1>2. /\ At(Running) = {} /\ \A i \in Ip : Holders(i) = {}
      /\ \A k \in Test : Testers(k) = {}
  BY DEF LifecycleInit, ServerInit, At, OfKind, Holders, Testers, Panicked, Running, Holding, Testing
<1>3. Counted
  BY <1>2, FS_EmptySet DEF LifecycleInit, ServerInit, Counted
<1>4. Gate
  BY ServerAssumption DEF LifecycleInit, ServerInit, Gate
<1>5. Placed /\ UploadAnswers
  BY DEF LifecycleInit, ServerInit, Placed, UploadAnswers, OfKind
<1>6. ProcessTyped /\ Closing
  BY DEF LifecycleInit, ProcessTyped, Closing
<1>7. DrainIsComplete
  BY DEF LifecycleInit, ServerInit, DrainIsComplete, OfKind
<1>8. QED
  BY <1>1, <1>3, <1>4, <1>5, <1>6, <1>7 DEF LifecycleInv, ServerInv

\* Once nothing tracked is under way, only hijacked connections go on.
LEMMA QuietStays ==
  ASSUME Typed, NEW r \in Request, Proceeds(r), Quiet, UNCHANGED h2
  PROVE  r \notin Tracked /\ Quiet'
<1>1. r \notin Tracked
  BY DEF Quiet, Proceeds
<1>2. r \notin Tracked'
  BY <1>1 DEF Tracked, Proceeds
<1>3. ASSUME NEW q \in Tracked' PROVE pc'[q] \in {"idle", "closed"}
  <2>1. q \in Request /\ q # r
    BY <1>2, <1>3 DEF Tracked
  <2>2. pc'[q] = pc[q] /\ kind'[q] = kind[q] /\ h2'[q] = h2[q]
    BY <2>1, ProceedsMoves DEF OnlyMoves
  <2>3. q \in Tracked
    BY <1>3, <2>1, <2>2 DEF Tracked
  <2>4. QED
    BY <2>2, <2>3 DEF Quiet
<1>4. QED
  BY <1>1, <1>3 DEF Quiet

LEMMA ServeKeeps ==
  ASSUME LifecycleInv, NEW r \in Request, Serve(r) PROVE LifecycleInv'
<1>1. ServerInv' /\ Proceeds(r) /\ kind[r] # "results"
      /\ \A q \in Request \ {r} : status'[q] = status[q]
  BY ServeStep DEF LifecycleInv, ServerInv, Serve
<1>2. UNCHANGED <<main, cut, open, h2, rows, late>>
  BY <1>1 DEF Serve, Proceeds, mvars
<1>3. OnlyMoves(r)
  BY <1>1, ProceedsMoves DEF LifecycleInv, ServerInv
<1>4. ProcessTyped' /\ Closing'
  <2>1. \A q \in late : pc'[q] = "closed"
    BY <1>1, <1>3 DEF LifecycleInv, Closing, ProcessTyped, Proceeds, OnlyMoves
  <2>2. QED
    BY <1>2, <2>1 DEF LifecycleInv, ProcessTyped, Closing
<1>5. (main' \in {"returning", "exited"} /\ ~ cut') => Quiet'
  BY <1>1, <1>2, QuietStays DEF LifecycleInv, ServerInv, DrainIsComplete
<1>6. SQLite => \A q \in OfKind("results")' : status'[q] = 200 => q \in rows'
  BY <1>1, <1>2 DEF LifecycleInv, DrainIsComplete, OfKind, Proceeds
<1>7. DrainIsComplete'
  BY <1>2, <1>5, <1>6 DEF LifecycleInv, DrainIsComplete
<1>8. QED
  BY <1>1, <1>4, <1>7 DEF LifecycleInv

LEMMA ConnectKeeps ==
  ASSUME LifecycleInv, NEW r \in Request, Connect(r) PROVE LifecycleInv'
<1>1. ServerInv' /\ pc[r] = "idle" /\ OnlyMoves(r) /\ UNCHANGED status
  BY ConnectStep DEF LifecycleInv, ServerInv
<1>2. /\ main \in {"serving", "draining"} /\ UNCHANGED <<main, cut, open, rows, late>>
  BY DEF Connect, mvars
<1>3. r \notin late
  BY <1>1 DEF LifecycleInv, Closing
<1>4. ProcessTyped' /\ Closing'
  <2>1. \A q \in late : pc'[q] = "closed"
    BY <1>1, <1>3 DEF LifecycleInv, Closing, ProcessTyped, OnlyMoves
  <2>2. QED
    BY <1>2, <2>1 DEF LifecycleInv, ProcessTyped, Closing
<1>5. \A q \in late' : cut' \/ h2'[q]
  BY <1>1, <1>2, <1>3 DEF LifecycleInv, DrainIsComplete, ProcessTyped, OnlyMoves
<1>6. SQLite => \A q \in OfKind("results")' : status'[q] = 200 => q \in rows'
  <2> SUFFICES ASSUME SQLite, NEW q \in Request, kind'[q] = "results", status'[q] = 200
               PROVE  q \in rows'
    BY DEF OfKind
  <2>1. q # r
    BY <1>1 DEF LifecycleInv, ServerInv, Placed
  <2>2. QED
    BY <1>1, <1>2, <2>1 DEF LifecycleInv, DrainIsComplete, OfKind, OnlyMoves
<1>7. DrainIsComplete'
  BY <1>2, <1>5, <1>6 DEF DrainIsComplete
<1>8. QED
  BY <1>1, <1>4, <1>7 DEF LifecycleInv

\* A result met a closed store only over a connection Shutdown did not know,
\* or after a forced one; and what is answered 200 was inserted.
LEMMA ResultKeeps ==
  ASSUME LifecycleInv, NEW r \in Request, RejectResult(r) \/ SaveResult(r)
  PROVE  LifecycleInv'
<1>1. ServerInv' /\ Proceeds(r) /\ pc'[r] = "closed" /\ kind[r] = "results"
  BY ResultStep DEF LifecycleInv, ServerInv
<1>2. UNCHANGED <<main, cut, open, h2>>
  BY DEF request, RejectResult, SaveResult, mvars
<1>3. OnlyMoves(r)
  BY <1>1, ProceedsMoves DEF LifecycleInv, ServerInv
<1>4. \E code \in {200, 400, 500} :
        /\ status' = [status EXCEPT ![r] = code]
        /\ rows \subseteq rows' /\ rows' \subseteq rows \cup {r}
        /\ (SQLite /\ code = 200) => r \in rows'
        /\ late' = late \/ (~ open /\ late' = late \cup {r})
  <2>1. CASE RejectResult(r)
    BY <2>1 DEF RejectResult, Answer
  <2>2. CASE SaveResult(r)
    <3>1. PICK ok \in BOOLEAN : Save(r, ok) /\ Answer(r, IF ok THEN 200 ELSE 500)
      BY <2>2 DEF SaveResult
    <3>2. CASE ok
      BY <3>1, <3>2 DEF Save, Answer
    <3>3. CASE ~ ok
      BY <3>1, <3>3 DEF Save, Answer
    <3>4. QED
      BY <3>2, <3>3
  <2>3. QED
    BY <2>1, <2>2
<1>5. (main \in {"returning", "exited"} /\ ~ cut) => (Quiet' /\ h2[r])
  <2> SUFFICES ASSUME main \in {"returning", "exited"}, ~ cut PROVE Quiet' /\ h2[r]
    OBVIOUS
  <2>1. r \notin Tracked /\ Quiet'
    BY <1>1, <1>2, QuietStays DEF LifecycleInv, ServerInv, DrainIsComplete
  <2>2. QED
    BY <1>1, <2>1 DEF Tracked
<1>6. \A q \in late' : cut' \/ h2'[q]
  BY <1>2, <1>4, <1>5 DEF LifecycleInv, DrainIsComplete, Closing
<1>7. ProcessTyped' /\ Closing'
  <2>1. rows' \subseteq Request /\ late' \subseteq Request
    BY <1>4 DEF LifecycleInv, ProcessTyped
  <2>2. \A q \in late' : pc'[q] = "closed"
    BY <1>1, <1>3, <1>4 DEF LifecycleInv, Closing, ProcessTyped, OnlyMoves
  <2>3. QED
    BY <1>2, <2>1, <2>2 DEF LifecycleInv, ProcessTyped, Closing
<1>8. SQLite => \A q \in OfKind("results")' : status'[q] = 200 => q \in rows'
  <2> SUFFICES ASSUME SQLite, NEW q \in Request, kind'[q] = "results", status'[q] = 200
               PROVE  q \in rows'
    BY DEF OfKind
  <2>1. CASE q = r
    BY <1>4, <2>1 DEF LifecycleInv, ServerInv, Typed
  <2>2. CASE q # r
    BY <1>1, <1>4, <2>2 DEF LifecycleInv, ServerInv, Typed, DrainIsComplete, OfKind, Proceeds
  <2>3. QED
    BY <2>1, <2>2
<1>9. DrainIsComplete'
  BY <1>2, <1>5, <1>6, <1>8 DEF DrainIsComplete
<1>10. QED
  BY <1>1, <1>7, <1>9 DEF LifecycleInv

\* What depends on the requests alone stays while they do.
LEMMA RequestsStayKeep ==
  ASSUME LifecycleInv, RequestsStay
  PROVE  /\ ServerInv'
         /\ UNCHANGED h2 /\ rows' \subseteq Request /\ late' \subseteq Request
         /\ \A r \in late' : pc'[r] = "closed"
         /\ Quiet' <=> Quiet
         /\ SQLite => \A r \in OfKind("results")' : status'[r] = 200 => r \in rows'
<1>1. UNCHANGED <<pc, kind, ip, size, done, status, hasty, active, started, completed,
                  streams, served, received, h2, rows, late>>
  BY DEF RequestsStay, pvars
<1>2. Typed' /\ Gate' /\ Placed' /\ UploadAnswers'
  BY <1>1 DEF LifecycleInv, ServerInv, Typed, Gate, Placed, UploadAnswers, OfKind
<1>3. Counted'
  BY <1>1 DEF LifecycleInv, ServerInv, Counted, Holders, Testers, Panicked, OfKind, At
<1>4. QED
  BY <1>1, <1>2, <1>3 DEF LifecycleInv, ServerInv, ProcessTyped, Closing, DrainIsComplete,
                          Quiet, Tracked, OfKind

LEMMA MainKeeps ==
  ASSUME LifecycleInv,
         \/ Signal \/ ShutdownReturns \/ ShutdownTimesOut \/ ServeFails
         \/ CloseStore \/ Exit
  PROVE  LifecycleInv'
<1>1. RequestsStay
  BY DEF Signal, ShutdownReturns, ShutdownTimesOut, ServeFails, CloseStore, Exit
<1>2. UNCHANGED <<h2, late>>
  BY <1>1 DEF RequestsStay, pvars
<1>3. /\ main' \in {"serving", "draining", "returning", "exited"}
      /\ cut' \in BOOLEAN /\ open' \in BOOLEAN
  BY DEF LifecycleInv, ProcessTyped, Signal, ShutdownReturns, ShutdownTimesOut, ServeFails,
         CloseStore, Exit
<1>4. ~ open' => main' \in {"returning", "exited"}
  BY DEF LifecycleInv, Closing, Signal, ShutdownReturns, ShutdownTimesOut, ServeFails,
         CloseStore, Exit
<1>5. ((main' \in {"returning", "exited"} /\ ~ cut') => Quiet) /\ (cut => cut')
  BY DEF LifecycleInv, DrainIsComplete, Signal, ShutdownReturns, ShutdownTimesOut,
         ServeFails, CloseStore, Exit
<1>6. ProcessTyped' /\ Closing'
  BY <1>1, <1>3, <1>4, RequestsStayKeep DEF ProcessTyped, Closing
<1>7. DrainIsComplete'
  <2>1. \A r \in late' : cut' \/ h2'[r]
    BY <1>2, <1>5 DEF LifecycleInv, DrainIsComplete
  <2>2. QED
    BY <1>1, <1>5, <2>1, RequestsStayKeep DEF DrainIsComplete
<1>8. QED
  BY <1>1, <1>6, <1>7, RequestsStayKeep DEF LifecycleInv

LEMMA StepKeeps == LifecycleInv /\ [LifecycleNext]_lvars => LifecycleInv'
<1> SUFFICES ASSUME LifecycleInv, [LifecycleNext]_lvars PROVE LifecycleInv'
  OBVIOUS
<1>1. ASSUME NEW r \in Request, Connect(r) PROVE LifecycleInv'
  BY <1>1, ConnectKeeps
<1>2. ASSUME NEW r \in Request, RejectResult(r) \/ SaveResult(r) PROVE LifecycleInv'
  BY <1>2, ResultKeeps
<1>3. ASSUME NEW r \in Request, Serve(r) PROVE LifecycleInv'
  BY <1>3, ServeKeeps
<1>4. CASE \/ Signal \/ ShutdownReturns \/ ShutdownTimesOut \/ ServeFails
           \/ CloseStore \/ Exit
  BY <1>4, MainKeeps
<1>5. CASE UNCHANGED lvars
  <2>1. UNCHANGED <<main, cut, open, h2, late>> /\ RequestsStay
    BY <1>5 DEF lvars, RequestsStay, pvars
  <2>2. ProcessTyped' /\ Closing' /\ DrainIsComplete'
    BY <2>1, RequestsStayKeep DEF LifecycleInv, ProcessTyped, Closing, DrainIsComplete
  <2>3. QED
    BY <2>1, <2>2, RequestsStayKeep DEF LifecycleInv
<1>6. QED
  BY <1>1, <1>2, <1>3, <1>4, <1>5 DEF LifecycleNext

LEMMA AlwaysInv == LifecycleSpec => []LifecycleInv
BY InitHolds, StepKeeps, PTL DEF LifecycleSpec

----------------------------------------------------------------------------
(* The bytes.                                                              *)

Share(b, n) == IF b THEN n ELSE 0

\* Adding a request to a set adds its units.
LEMMA MovedWith ==
  ASSUME NEW S, NEW r \in S, NEW n, n[r] \in Nat, IsFiniteSet(Moved(S \ {r}, n))
  PROVE  /\ IsFiniteSet(Moved(S, n))
         /\ Cardinality(Moved(S, n)) = Cardinality(Moved(S \ {r}, n)) + n[r]
<1> DEFINE Own  == {r} \X (1 .. n[r])
           Rest == Moved(S \ {r}, n)
<1>1. Moved(S, n) = Rest \cup Own
  BY DEF Moved
<1>2. Rest \cap Own = {}
  <2>1. \A u \in Rest : u[1] # r
    BY DEF Moved
  <2>2. \A u \in Own : u[1] = r
    OBVIOUS
  <2>3. QED
    BY <2>1, <2>2
<1>3. IsFiniteSet(Own) /\ Cardinality(Own) = n[r]
  <2>1. IsFiniteSet(1 .. n[r]) /\ Cardinality(1 .. n[r]) = n[r]
    <3>1. n[r] \in Int /\ 1 \in Int
      OBVIOUS
    <3>2. /\ IsFiniteSet(1 .. n[r])
          /\ Cardinality(1 .. n[r]) = IF 1 > n[r] THEN 0 ELSE n[r] - 1 + 1
      BY <3>1, FS_Interval, Zenon
    <3>3. QED
      BY <3>2
  <2>2. IsFiniteSet({r}) /\ Cardinality({r}) = 1
    BY FS_Singleton
  <2>3. /\ IsFiniteSet(Own)
        /\ Cardinality(Own) = Cardinality({r}) * Cardinality(1 .. n[r])
    BY <2>1, <2>2, FS_Product, Zenon
  <2>4. QED
    BY <2>1, <2>2, <2>3
<1>4. Cardinality(Rest \cap Own) = 0
  BY <1>2, FS_EmptySet, Zenon
<1>5. Cardinality(Rest) \in Nat
  BY FS_CardinalityType
<1> HIDE DEF Own, Rest
<1>6. /\ IsFiniteSet(Rest \cup Own)
      /\ Cardinality(Rest \cup Own)
           = Cardinality(Rest) + Cardinality(Own) - Cardinality(Rest \cap Own)
  BY <1>3, FS_Union DEF Rest
<1>7. QED
  BY <1>1, <1>3, <1>4, <1>5, <1>6 DEF Rest

\* One request joins, leaves, or moves some more.
LEMMA MovedChanges ==
  ASSUME NEW S, NEW T, NEW r, NEW n, NEW m, S \ {r} = T \ {r},
         \A q \in S \ {r} : m[q] = n[q], n[r] \in Nat, m[r] \in Nat,
         IsFiniteSet(Moved(S, n))
  PROVE  /\ IsFiniteSet(Moved(T, m))
         /\ Cardinality(Moved(T, m)) =
              Cardinality(Moved(S, n)) + Share(r \in T, m[r]) - Share(r \in S, n[r])
<1> DEFINE Rest == Moved(S \ {r}, n)
<1>1. Rest = Moved(T \ {r}, m)
  BY DEF Moved
<1>2. IsFiniteSet(Rest) /\ Cardinality(Rest) \in Nat
  <2>1. Rest \subseteq Moved(S, n)
    BY DEF Moved
  <2>2. QED
    BY <2>1, FS_Subset, FS_CardinalityType
<1>3. Cardinality(Moved(S, n)) = Cardinality(Rest) + Share(r \in S, n[r])
  <2>1. CASE r \in S
    BY <1>2, <2>1, MovedWith DEF Share
  <2>2. CASE r \notin S
    <3>1. S \ {r} = S /\ Rest = Moved(S, n)
      BY <2>2
    <3>2. Share(r \in S, n[r]) = 0
      BY <2>2, Zenon DEF Share
    <3> HIDE DEF Rest
    <3>3. QED
      BY <1>2, <3>1, <3>2
  <2>3. QED
    BY <2>1, <2>2
<1>4. /\ IsFiniteSet(Moved(T, m))
      /\ Cardinality(Moved(T, m)) = Cardinality(Rest) + Share(r \in T, m[r])
  <2>1. CASE r \in T
    BY <1>1, <1>2, <2>1, MovedWith DEF Share
  <2>2. CASE r \notin T
    <3>1. T \ {r} = T /\ Rest = Moved(T, m)
      BY <1>1, <2>2
    <3>2. Share(r \in T, m[r]) = 0
      BY <2>2, Zenon DEF Share
    <3> HIDE DEF Rest
    <3>3. QED
      BY <1>2, <3>1, <3>2
  <2>3. QED
    BY <2>1, <2>2
<1> HIDE DEF Rest
<1>5. Share(r \in T, m[r]) \in Nat /\ Share(r \in S, n[r]) \in Nat
  BY DEF Share
<1>6. QED
  BY <1>2, <1>3, <1>4, <1>5

Ended == OfKind("upload") \ At({"serving"})

Early == {"idle", "acquire", "admitted", "started"}

\* A request has moved nothing before its handler runs.
BytesInv ==
  /\ BytesAccounted
  /\ IsFiniteSet(Moved(OfKind("download"), done)) /\ IsFiniteSet(Moved(Ended, done))
  /\ \A r \in Request : pc[r] \in Early => done[r] = 0

\* What one step may do to a request and the two counters.
CountsRight(r) ==
  /\ OnlyMoves(r) /\ \A q \in Request \ {r} : done'[q] = done[q]
  /\ pc'[r] \in Early => done'[r] = 0
  /\ served' = served + Share(kind'[r] = "download", done'[r])
                      - Share(kind[r] = "download", done[r])
  /\ received' = received + Share(kind'[r] = "upload" /\ pc'[r] # "serving", done'[r])
                          - Share(kind[r] = "upload" /\ pc[r] # "serving", done[r])

LEMMA CountsRightKeeps ==
  ASSUME Typed, Typed', BytesInv, NEW r \in Request, CountsRight(r)
  PROVE  BytesInv'
<1>1. done[r] \in Nat /\ done'[r] \in Nat
  BY DEF Typed
<1>2. /\ IsFiniteSet(Moved(OfKind("download"), done)')
      /\ served' = Cardinality(Moved(OfKind("download"), done)')
  <2> DEFINE S == OfKind("download")
             T == OfKind("download")'
  <2>1. S \ {r} = T \ {r} /\ \A q \in S \ {r} : done'[q] = done[q]
    BY DEF OfKind, CountsRight, OnlyMoves
  <2>2. (r \in S <=> kind[r] = "download") /\ (r \in T <=> kind'[r] = "download")
    BY DEF OfKind
  <2>3. IsFiniteSet(Moved(S, done)) /\ served = Cardinality(Moved(S, done))
    BY DEF BytesInv, BytesAccounted
  <2>4. /\ served' = served + Share(r \in T, done'[r]) - Share(r \in S, done[r])
    BY <2>2 DEF CountsRight, Share
  <2> HIDE DEF S, T
  <2>5. /\ IsFiniteSet(Moved(T, done'))
        /\ Cardinality(Moved(T, done')) =
             Cardinality(Moved(S, done)) + Share(r \in T, done'[r]) - Share(r \in S, done[r])
    BY <1>1, <2>1, <2>3, MovedChanges
  <2>6. Moved(OfKind("download"), done)' = Moved(T, done')
    BY DEF Moved, T
  <2>7. QED
    BY <2>3, <2>4, <2>5, <2>6
<1>3. IsFiniteSet(Moved(Ended, done)') /\ received' = Cardinality(Moved(Ended, done)')
  <2> DEFINE S == Ended
             T == Ended'
  <2>1. S \ {r} = T \ {r} /\ \A q \in S \ {r} : done'[q] = done[q]
    BY DEF Ended, At, OfKind, CountsRight, OnlyMoves
  <2>2. /\ r \in S <=> (kind[r] = "upload" /\ pc[r] # "serving")
        /\ r \in T <=> (kind'[r] = "upload" /\ pc'[r] # "serving")
    BY DEF Ended, At, OfKind
  <2>3. IsFiniteSet(Moved(S, done)) /\ received = Cardinality(Moved(S, done))
    BY DEF BytesInv, BytesAccounted, Ended
  <2>4. received' = received + Share(r \in T, done'[r]) - Share(r \in S, done[r])
    BY <2>2 DEF CountsRight, Share
  <2> HIDE DEF S, T
  <2>5. /\ IsFiniteSet(Moved(T, done'))
        /\ Cardinality(Moved(T, done')) =
             Cardinality(Moved(S, done)) + Share(r \in T, done'[r]) - Share(r \in S, done[r])
    BY <1>1, <2>1, <2>3, MovedChanges
  <2>6. Moved(Ended, done)' = Moved(T, done')
    BY DEF Moved, T
  <2>7. QED
    BY <2>3, <2>4, <2>5, <2>6
<1>4. \A q \in Request : pc'[q] \in Early => done'[q] = 0
  BY DEF BytesInv, CountsRight, OnlyMoves, Early
<1>5. QED
  BY <1>2, <1>3, <1>4 DEF BytesInv, BytesAccounted, Ended

\* A step that moves no bytes, for a request that may not be in its handler.
LEMMA QuietBytes ==
  ASSUME Typed, BytesInv, NEW r \in Request, OnlyMoves(r),
         UNCHANGED <<done, served, received>>,
         pc'[r] \in Early => pc[r] \in Early,
         \/ pc[r] \in Early
         \/ kind'[r] = kind[r] /\ pc[r] # "serving" /\ pc'[r] # "serving"
         \/ kind'[r] = "ws" /\ kind[r] = "ws"
  PROVE  CountsRight(r)
<1>1. done[r] \in Nat /\ served \in Nat /\ received \in Nat
  BY DEF Typed
<1>2. pc[r] \in Early => done[r] = 0
  BY DEF BytesInv
<1>3. QED
  BY <1>1, <1>2 DEF CountsRight, Share

LEMMA HandlerBytes ==
  ASSUME Typed, BytesInv, NEW r \in Request, Handler(r), Proceeds(r)
  PROVE  CountsRight(r)
<1>1. OnlyMoves(r) /\ kind' = kind
  BY ProceedsMoves DEF Proceeds
<1>2. done[r] \in Nat /\ served \in Nat /\ received \in Nat
  BY DEF Typed
<1>3. CASE BadChunks(r) \/ WriteChunk(r) \/ WriteFails(r)
  <2>1. /\ kind[r] = "download" /\ received' = received
        /\ pc'[r] \in {"serving", "returned"}
    BY <1>3, DownloadStep
       DEF BadChunks, WriteChunk, WriteFails, Written, bytes
  <2>2. \E n \in Nat : done' = [done EXCEPT ![r] = @ + n] /\ served' = served + n
    <3>1. CASE BadChunks(r)
      <4>1. done' = [done EXCEPT ![r] = @ + 0] /\ served' = served + 0
        BY <1>2, <3>1 DEF BadChunks, bytes, Typed
      <4>2. QED
        BY <4>1
    <3>2. CASE WriteChunk(r)
      BY <3>2, ServerAssumption DEF WriteChunk, Written
    <3>3. CASE WriteFails(r)
      <4>1. PICK n \in 0 .. ChunkUnits - 1 : Written(r, n)
        BY <3>3 DEF WriteFails
      <4>2. n \in Nat
        BY ServerAssumption
      <4>3. QED
        BY <4>1, <4>2 DEF Written
    <3>4. QED
      BY <1>3, <3>1, <3>2, <3>3
  <2>3. QED
    BY <1>1, <1>2, <2>1, <2>2 DEF CountsRight, Share, Early, Typed
<1>4. CASE ReadBody(r)
  <2>1. /\ kind[r] = "upload" /\ pc[r] = "serving" /\ pc'[r] = "serving"
        /\ done' = [done EXCEPT ![r] = @ + 1] /\ UNCHANGED <<served, received>>
    BY <1>4 DEF ReadBody, Serves, bytes
  <2>2. QED
    BY <1>1, <1>2, <2>1 DEF CountsRight, Share, Early, Typed
<1>5. CASE UploadAnswered(r) \/ UploadCut(r) \/ UploadDeadline(r)
  <2>1. PICK code : Serves(r, "upload") /\ Drained(r, code)
    BY <1>5 DEF UploadAnswered, UploadCut, UploadDeadline
  <2>2. /\ kind[r] = "upload" /\ pc[r] = "serving" /\ pc'[r] = "returned"
        /\ received' = received + done[r] /\ UNCHANGED <<done, served>>
    BY <2>1, MovePlace DEF Serves, Drained, Returns
  <2>3. QED
    BY <1>1, <1>2, <2>2 DEF CountsRight, Share, Early
<1>6. CASE WsReceive(r) \/ WsSend(r) \/ WsWaits(r) \/ WsEnds(r) \/ WsDeadline(r)
  <2>1. kind[r] = "ws" /\ UNCHANGED <<done, served, received>>
    BY <1>6 DEF WsReceive, WsSend, WsWaits, WsEnds, WsDeadline, Echoes, bytes
  <2>2. pc'[r] \notin Early
    BY <1>6, WsStep DEF Early
  <2>3. QED
    BY <1>1, <2>1, <2>2, QuietBytes
<1>7. CASE WsPanics(r)
  <2>1. /\ kind[r] = "ws" /\ pc'[r] = "deferred" /\ UNCHANGED <<done, served, received>>
    BY <1>7, MovePlace DEF WsPanics, Serves, bytes
  <2>2. QED
    BY <1>1, <2>1, QuietBytes DEF Early
<1>8. QED
  BY <1>3, <1>4, <1>5, <1>6, <1>7 DEF Handler

LEMMA BytesKeep ==
  ASSUME LifecycleInv, LifecycleInv', BytesInv, [LifecycleNext]_lvars
  PROVE  BytesInv'
<1>1. Typed /\ Typed' /\ Counted /\ Gate /\ Placed /\ UploadAnswers
  BY DEF LifecycleInv, ServerInv
<1>2. ASSUME NEW r \in Request, Connect(r) PROVE BytesInv'
  <2>1. OnlyMoves(r) /\ pc[r] \in Early
    BY <1>1, <1>2, ConnectStep DEF Early
  <2>2. UNCHANGED <<done, served, received>>
    BY <1>2 DEF Connect, Arrive, counters, series, bytes
  <2>3. QED
    BY <1>1, <2>1, <2>2, QuietBytes, CountsRightKeeps
<1>3. ASSUME NEW r \in Request, RejectResult(r) \/ SaveResult(r) PROVE BytesInv'
  <2>1. Proceeds(r) /\ pc[r] = "save" /\ pc'[r] = "closed"
    BY <1>1, <1>3, ResultStep
  <2>2. UNCHANGED <<done, served, received>>
    BY <1>3 DEF RejectResult, SaveResult, counters, series, bytes
  <2>3. OnlyMoves(r) /\ kind'[r] = kind[r]
    BY <1>1, <2>1, ProceedsMoves DEF Proceeds
  <2>4. QED
    BY <1>1, <2>1, <2>2, <2>3, QuietBytes, CountsRightKeeps DEF Early
<1>4. ASSUME NEW r \in Request, Middleware(r) PROVE BytesInv'
  <2>1. OnlyMoves(r) /\ kind'[r] = kind[r]
    <3>1. Proceeds(r)
      BY <1>1, <1>4, ServeStep
    <3>2. QED
      BY <1>1, <3>1, ProceedsMoves DEF Proceeds
  <2>2. UNCHANGED <<done, served, received>>
    BY <1>4 DEF Middleware, Acquire, Refuse, CountStarted, StreamOpens, CountCompleted,
                StreamCloses, Release, series, bytes
  <2>3. \/ pc[r] \in Early
        \/ pc[r] \in {"returned", "deferred", "leaving"}
           /\ pc'[r] \in {"deferred", "leaving", "closed"}
    BY <1>1, <1>4, MovePlace
       DEF Middleware, Acquire, Refuse, CountStarted, StreamOpens, CountCompleted,
           StreamCloses, Release, Move, Early
  <2>4. QED
    BY <1>1, <2>1, <2>2, <2>3, QuietBytes, CountsRightKeeps DEF Early
<1>5. ASSUME NEW r \in Request, Handler(r) PROVE BytesInv'
  <2>1. Proceeds(r)
    BY <1>1, <1>5, ServeStep
  <2>2. QED
    BY <1>1, <1>5, <2>1, HandlerBytes, CountsRightKeeps
<1>6. ASSUME UNCHANGED <<pc, kind, done, served, received>> PROVE BytesInv'
  BY <1>6 DEF BytesInv, BytesAccounted, Moved, Ended, OfKind, At
<1>7. CASE \/ Signal \/ ShutdownReturns \/ ShutdownTimesOut \/ ServeFails
           \/ CloseStore \/ Exit
  <2>1. RequestsStay
    BY <1>7 DEF Signal, ShutdownReturns, ShutdownTimesOut, ServeFails, CloseStore, Exit
  <2>2. QED
    BY <1>6, <2>1 DEF RequestsStay, pvars
<1>8. CASE UNCHANGED lvars
  BY <1>6, <1>8 DEF lvars, pvars
<1>9. QED
  BY <1>2, <1>3, <1>4, <1>5, <1>7, <1>8 DEF LifecycleNext, Serve

LEMMA InitBytes == LifecycleInit => BytesInv
<1> SUFFICES ASSUME LifecycleInit PROVE BytesInv
  OBVIOUS
<1>1. OfKind("download") = {} /\ Ended = {}
  BY DEF LifecycleInit, ServerInit, OfKind, Ended
<1>2. Moved({}, done) = {}
  BY DEF Moved
<1>3. IsFiniteSet({}) /\ Cardinality({}) = 0
  BY FS_EmptySet
<1>4. \A r \in Request : done[r] = 0
  BY DEF LifecycleInit, ServerInit
<1>5. served = 0 /\ received = 0
  BY DEF LifecycleInit, ServerInit
<1>6. QED
  BY <1>1, <1>2, <1>3, <1>4, <1>5 DEF BytesInv, BytesAccounted, Ended

----------------------------------------------------------------------------
(***************************************************************************)
(* Nothing main.go or the middleware of handlers.go does takes a variable  *)
(* out of its type: no slot count or gauge goes below zero.                *)
(***************************************************************************)
THEOREM ServerTypeCorrect == LifecycleSpec => []LifecycleTypeOK
<1>1. LifecycleInv => LifecycleTypeOK
  <2> SUFFICES ASSUME LifecycleInv PROVE LifecycleTypeOK
    OBVIOUS
  <2>1. streams \in Nat /\ active \in [Ip -> Nat]
    BY CountsAreNatural DEF LifecycleInv, ServerInv, Typed
  <2>2. ServerTypeOK
    BY <2>1 DEF LifecycleInv, ServerInv, Typed, ServerTypeOK
  <2>3. QED
    BY <2>2 DEF LifecycleInv, ProcessTyped, LifecycleTypeOK
<1>2. QED
  BY <1>1, AlwaysInv, PTL

(***************************************************************************)
(* The deferred calls of testMW leave nothing behind, for any number of    *)
(* requests over HTTP/1.1 and HTTP/2: the gauge and the slots of every     *)
(* address say how many requests are where, and no address exceeds its     *)
(* share.  The test counters, which are not deferred, say it too but for   *)
(* the echo tests that panicked: each of those stays started for good.     *)
(***************************************************************************)
THEOREM SlotsAreHeld == LifecycleSpec => []StreamsHoldSlots
<1>1. LifecycleInv => StreamsHoldSlots
  <2> SUFFICES ASSUME LifecycleInv PROVE StreamsHoldSlots
    OBVIOUS
  <2>1. Counted /\ Gate
    BY DEF LifecycleInv, ServerInv
  <2>2. QED
    BY <2>1 DEF Counted, Gate, StreamsHoldSlots, Holders, Testers, Testing
<1>2. QED
  BY <1>1, AlwaysInv, PTL

(***************************************************************************)
(* The upload handler answers 200 for no body it did not drain whole, and  *)
(* 413 for none that fits -max-upload-bytes.                               *)
(***************************************************************************)
THEOREM UploadsAnsweredTruly == LifecycleSpec => []UploadAnswers
<1>1. LifecycleInv => UploadAnswers
  BY DEF LifecycleInv, ServerInv
<1>2. QED
  BY <1>1, AlwaysInv, PTL

(***************************************************************************)
(* After a Shutdown that returned by itself no tracked request is under    *)
(* way, no result of one met a closed store, and no id was ever answered   *)
(* for a result the sqlite store does not hold.                            *)
(***************************************************************************)
THEOREM DrainCompletes == LifecycleSpec => []DrainIsComplete
<1>1. LifecycleInv => DrainIsComplete
  BY DEF LifecycleInv
<1>2. QED
  BY <1>1, AlwaysInv, PTL

(***************************************************************************)
(* The byte counters of metrics.go say exactly what the handlers wrote and *)
(* read, for any number and size of requests and however each one ends.    *)
(***************************************************************************)
THEOREM BytesAreAccounted == LifecycleSpec => []BytesAccounted
<1>1. LifecycleInv /\ BytesInv /\ [LifecycleNext]_lvars => LifecycleInv' /\ BytesInv'
  BY StepKeeps, BytesKeep
<1>2. BytesInv => BytesAccounted
  BY DEF BytesInv
<1>3. QED
  BY <1>1, <1>2, InitHolds, InitBytes, PTL DEF LifecycleSpec

----------------------------------------------------------------------------
(* The slots, as the limiter's interface has them.                         *)

inside == [i \in Ip |-> Holders(i)]

\* The instance of SlotGate counts as the server does.
LEMMA GateCounts ==
  ASSUME NEW S PROVE SG!Cardinality(S) = Cardinality(S)
BY DEF SG!Cardinality, Cardinality

LEMMA AcquireEnters ==
  ASSUME LifecycleInv, NEW r \in Request, Acquire(r)
  PROVE  SG!Enter(r, ip[r])
<1>1. /\ pc[r] = "acquire" /\ pc' = [pc EXCEPT ![r] = "admitted"] /\ SlotFree(ip[r])
      /\ ip' = ip /\ ip[r] \in Ip /\ DOMAIN pc = Request
  BY DEF Acquire, Move, request, LifecycleInv, ServerInv, Typed
<1>2. \A i \in Ip : r \notin inside[i]
  BY <1>1 DEF inside, Holders, At, Holding, Running
<1>3. PerIP > 0 => SG!Cardinality(inside[ip[r]]) < PerIP
  <2>1. active[ip[r]] = Cardinality(Holders(ip[r])) /\ inside[ip[r]] = Holders(ip[r])
    BY <1>1 DEF LifecycleInv, ServerInv, Counted, inside
  <2>2. QED
    BY <1>1, <2>1, GateCounts, ServerAssumption DEF SlotFree
<1>4. inside' = [inside EXCEPT ![ip[r]] = @ \cup {r}]
  <2>1. Holders(ip[r])' = Holders(ip[r]) \cup {r}
    BY <1>1 DEF Holders, At, Holding
  <2>2. \A i \in Ip \ {ip[r]} : Holders(i)' = Holders(i)
    BY <1>1 DEF Holders, At
  <2>3. QED
    BY <1>1, <2>1, <2>2 DEF inside
<1>5. QED
  BY <1>2, <1>3, <1>4 DEF SG!Enter, inside

LEMMA ReleaseLeaves ==
  ASSUME LifecycleInv, NEW r \in Request, Release(r)
  PROVE  SG!Leave(r, ip[r])
<1>1. /\ pc[r] = "leaving" /\ pc' = [pc EXCEPT ![r] = "closed"]
      /\ ip' = ip /\ ip[r] \in Ip /\ DOMAIN pc = Request
  BY DEF Release, Move, request, LifecycleInv, ServerInv, Typed
<1>2. r \in inside[ip[r]]
  BY <1>1 DEF inside, Holders, At, Holding
<1>3. inside' = [inside EXCEPT ![ip[r]] = @ \ {r}]
  <2>1. Holders(ip[r])' = Holders(ip[r]) \ {r}
    BY <1>1 DEF Holders, At, Holding, Running
  <2>2. \A i \in Ip \ {ip[r]} : Holders(i)' = Holders(i)
    BY <1>1 DEF Holders, At
  <2>3. QED
    BY <1>1, <2>1, <2>2 DEF inside
<1>4. QED
  BY <1>2, <1>3 DEF SG!Leave, inside

\* A step that neither acquires nor releases keeps the slots as they are.
LEMMA HoldersStay ==
  ASSUME NEW r \in Request, OnlyMoves(r),
         pc'[r] \in Holding <=> pc[r] \in Holding, pc[r] \in Holding => ip'[r] = ip[r]
  PROVE  UNCHANGED inside
BY DEF OnlyMoves, inside, Holders, At

LEMMA ServeSlots ==
  ASSUME LifecycleInv, NEW r \in Request, Serve(r)
  PROVE  SG!SGNext \/ UNCHANGED inside
<1>1. Proceeds(r) /\ OnlyMoves(r) /\ ip[r] \in Ip
  BY ServeStep, ProceedsMoves DEF LifecycleInv, ServerInv, Serve, Typed
<1>2. CASE Acquire(r) \/ Release(r)
  BY <1>1, <1>2, AcquireEnters, ReleaseLeaves DEF SG!SGNext
<1>3. CASE ~ (Acquire(r) \/ Release(r))
  <2>1. pc'[r] \in Holding <=> pc[r] \in Holding
    <3>1. CASE Middleware(r)
      BY <1>3, <3>1, MovePlace
      DEF Middleware, Refuse, CountStarted, StreamOpens, CountCompleted, StreamCloses,
          Move, Holding, Running, LifecycleInv, ServerInv
    <3>2. CASE Handler(r)
      BY <3>2, DownloadStep, UploadStep, WsStep, PanicStep
      DEF Handler, Holding, Running, LifecycleInv, ServerInv
    <3>3. QED
      BY <3>1, <3>2 DEF Serve
  <2>2. QED
    BY <1>1, <2>1, HoldersStay DEF Proceeds
<1>4. QED
  BY <1>2, <1>3

LEMMA SlotStep ==
  ASSUME LifecycleInv, [LifecycleNext]_lvars
  PROVE  [SG!SGNext]_inside
<1>1. ASSUME NEW r \in Request, Connect(r) PROVE UNCHANGED inside
  <2>1. pc[r] = "idle" /\ OnlyMoves(r)
    BY <1>1, ConnectStep DEF LifecycleInv, ServerInv
  <2>2. pc'[r] \in {"acquire", "save"}
    BY <1>1, MovePlace DEF Connect, Arrive, LifecycleInv, ServerInv
  <2>3. QED
    BY <2>1, <2>2, HoldersStay DEF Holding, Running
<1>2. ASSUME NEW r \in Request, RejectResult(r) \/ SaveResult(r) PROVE UNCHANGED inside
  <2>1. Proceeds(r) /\ pc[r] = "save" /\ pc'[r] = "closed" /\ OnlyMoves(r)
    BY <1>2, ResultStep, ProceedsMoves DEF LifecycleInv, ServerInv
  <2>2. QED
    BY <2>1, HoldersStay DEF Holding, Running
<1>3. CASE \/ Signal \/ ShutdownReturns \/ ShutdownTimesOut \/ ServeFails
           \/ CloseStore \/ Exit \/ UNCHANGED lvars
  <2>1. UNCHANGED <<pc, ip>>
    BY <1>3 DEF Signal, ShutdownReturns, ShutdownTimesOut, ServeFails, CloseStore, Exit,
                RequestsStay, pvars, lvars
  <2>2. QED
    BY <2>1 DEF inside, Holders, At
<1>4. QED
  BY <1>1, <1>2, <1>3, ServeSlots DEF LifecycleNext

(***************************************************************************)
(* The server keeps to the interface for any number of requests: with      *)
(* LimiterImplementsGate of RateLimiterProofs, nothing of the limiter that *)
(* the server can see is lost by modelling it as a gate.                   *)
(***************************************************************************)
THEOREM ServerKeepsToGate == LifecycleSpec => ImplementsSlotGate
<1>1. LifecycleInit => SG!SGInit
  BY DEF LifecycleInit, ServerInit, SG!SGInit, Holders, At, Holding, Running
<1>2. LifecycleInv /\ [LifecycleNext]_lvars => [SG!SGNext]_inside
  BY SlotStep
<1>3. QED
  BY <1>1, <1>2, AlwaysInv, PTL DEF LifecycleSpec, ImplementsSlotGate, SG!SGSpec, inside

=============================================================================
