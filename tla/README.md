# go-speedtest in TLA+

Modules, TLC configurations and TLAPS proofs about go-speedtest: a speed-test
server, its browser client and its command-line client. `PROJECT.json` lists the
components, the runs, the source lines every definition stands for, the hazards
the properties are aimed at, and the theorems.

    tlc -workers 2 -config MCLimiter.cfg MCLimiter.tla
    tlapm RateLimiterProofs.tla

## 1. The system

    browser page -- messages -- browser worker --+
        |  config.json                           |  HTTP/1.1, h2c, WebSocket
        |                                        |
    CLI run -- calls -- CLI transfer phase ------+----> middleware -> endpoints
        |  info            |                              |  |  |       |
        +-- ping stats  throughput meter         limiter -+  |  |     store
                                              client address -+  +- metrics
                            server process: load settings, signal, drain, close

| Component | State it keeps | Operations | What is hard about it |
|---|---|---|---|
| Rate limiter (`internal/ratelimit`) | map address → entry (tests in flight, token bucket, times), next sweep | `Acquire`, the release closure it returns, sweep inside `Acquire` | goroutines enter the mutex in another order than they read the clock; a sweep deletes entries closures may still point to; eviction forgets the bucket level |
| Middleware and endpoints (`internal/handlers`) | a slot, counters and a gauge per test | download, upload, ws echo, results, result by id, list, ip, info | every way a test can end must release and count once; limits at the boundary; clients that stall |
| Metrics (`internal/metrics`) | counters, one gauge | add, expose | updated by all handlers |
| Server process (`cmd/go-speedtest`, `internal/server`) | listener, connections, the store handle | load, serve, signal, drain, forced close | order of drain, close and exit; connections `Shutdown` does not track |
| Telemetry store (`internal/telemetry`) | rows | Save, Get, List, Close | a result is answered while the process stops; text order of time stamps; restarts |
| Client address (`internal/clientip`) | none | one walk per request | which entries of a header a client may have written |
| Configuration (`internal/config`) | values, and which of them were set | flags, environment, mode profile, validation | the precedence of three sources, of which one looks at what another left unset |
| Throughput meter, ping statistics (`internal/measure`) | window, bytes; minimum, jitter | Start, Add, Stop; Add | reset at the end of the grace period; two implementations of one procedure |
| CLI transfer phases (`cmd/go-speedtest-cli`) | streams, their backoff, one shared meter, a context | download, upload | streams fail, retry and time out while sharing the meter; the deadline races with answers |
| CLI run | the plan and the result so far, a progress goroutine | info, merge, ping, phases, push, output | fallback of the ping, several phases of which one fails, lost answer to a push |
| Browser worker (`webui/assets/worker.js`) | phase, sockets, XHRs, timers, bytes | ping, transfers, abort | timers of one phase fire in the next; socket, error and fallback race; grace and end timer |
| Browser page (`webui/assets/speedtest.js`) | run, worker, result | start, abort, worker messages, submit | an abort races with a result under way; messages of an old worker |
| config.json (`internal/webui`) | none | one document | must say what `info` tells the CLI |
| Payload buffer, static files, container image | none | | no control |

What makes each correct, in one line: the limiter admits what an ideal bucket
with an exact count of tests in flight would admit; however a test ends, slots,
gauge and counters agree; a drain cuts nothing it could wait for and an id handed
out names a readable row, also after a restart; an address is what the last
stranger's proxy saw, whatever that stranger wrote; a setting comes from the first
source that gives it; the meter equals its definition over the whole history; a
phase neither loses nor invents bytes of its window and always ends; a CLI run that
succeeds is complete and measured by the plan the page has; the browser's phases
never overlap, report their own window, and a run posts at most one result.

## 2. Modules

Modules without MC in their name model code or observe a model; those with MC
only give constants values; those that end in `Proofs` hold theorems (section 5).
Definitions whose comment begins "Faulty variant" are not part of any
specification: each is the plausible bug that `PROJECT.json` ("mutants") puts in the
place of a definition to show that a property notices it.

### The limiter

`RateLimiter` is `ratelimit.go`. A *call* is a goroutine in `testMW`. It reads the
clock (`CallAcquire`) before it locks the mutex, and the locked body of `Acquire`
is one action, `Admit` or `Refuse`, including the sweep, the creation of the entry
and the refill. An admitted call keeps the cell of the entry its closure captured,
so that deleting the entry from the map and creating another for the same address
are visible, as pointers make them in the code. `Release` may run again after its
first time (the `sync.Once`). Time is in ticks and tokens in units of
1/`TokenUnit`, so that refill stays integral; `Lag` bounds how old a clock
reading can be when the mutex is reached. Disabled gates (`PerIP = 0`,
`Burst = 0`) are the no-op limiter.

- `TokenBucket` is the abstract specification: one bucket and one count per
  address, no entries, no laziness. `RateLimiterRefinement` maps the limiter to it:
  an absent entry is a full bucket, and the refill an entry has not been given yet
  already belongs to the abstract level.
- `SlotGate` is the interface to the middleware: who has a slot of which address, without
  counters or clocks. `RateLimiterRefinement` maps the limiter to it as well, here for
  stale clocks and every setting; the server implements it on its side.
- `AdmissionWindow` opens a window at any moment and counts the tests of one
  address since; its law holds also when clocks are stale, where the step-by-step
  refinement does not apply. `EntryLifetime` adds when an entry was last used.

### The server

`PayloadServer` takes a request through the middleware and its endpoint step by
step: admission, counters, gauge, handler, and the two deferred calls in their
order. A download writes chunk after chunk, an upload reads up to its limit, an
echo alternates between two waits; a client may stop or vanish at any point. With
`-http2` a request may come over h2c, where no connection can be hijacked: an echo test
asked for over it never echoes, its handler panics, and only the deferred calls run
(`WsPanics`).
The limiter enters by its gate alone (`SlotFree`), tokens being its own module's
matter. That this stands for the limiter is what `SlotGate` is for: both sides implement
it, and it lets in exactly those `SlotFree` does. `ServerLifecycle` adds the ingestion of results, the store, and `main`:
listener, signal, drain with its timeout, forced close, closing of the store and exit.
What `Shutdown` waits for is `net/http`'s behaviour, modelled from its use and
marked external: it forgets hijacked connections, as the socket and, with `-http2`,
h2c connections are.

`ResultsApi` is the same process seen from its data: it loads its configuration,
resolves client addresses, and ingests, reads and lists results with concurrent
handlers, failing inserts, and a kill at any moment. It composes

- `Settings`, `config.Load` in its four passes (flags, environment into what the
  command line left unset, profile of the mode into what both left unset,
  validation), each an action, so that what a pass may see is what the code lets it
  see. Two limits and one flag of each other kind of check stand for all.
- `ProxyChain`, `clientip.ClientIP`: the walk from the right over
  `X-Forwarded-For`, entries that do not parse, the other header, the remote address,
  and one address written in several forms.
- `TelemetryStore`, both stores: the table as the sequence of its rows, with text time
  stamps whose order is not the order of moments when a client supplies an offset. The
  sorted listing gives each row its place, one more than the rows that go before it.

### The CLI's measurement

`ThroughputMeter` has the meter's methods as operators on a record, the clock an
argument as in the code. `MeterHistory` drives them with every short sequence of
calls and compares with a definition that looks at the whole history at once.
`TransferPhase` holds what `runDownload` and `runUpload` share (streams, context,
backoff, the locked meter, the verdict), `DownloadPhase` and `UploadPhase` the
request itself, and `CliTransfer` one phase of either kind. A stream's buffer and
the bytes it has read but not added are explicit (`hand`), since another stream may
reset the meter in between. `moved` and `inWindow` (units moved, and those moved since the
window opened) and, for uploads, `accepted` and `credit` (requests answered 200, and their
units since the window opened) are history variables. The server
of an upload is any server: this one answers after draining the body, another may answer
while the transport still reads it, and `uploadOnce` then reads a tally that is being
written (`main.go:629`), modelled as any value the tally has had.

`CliRun` is `run` around them: information, the plan, ping over the socket with
fallback to requests, the phases in order, the push, the output. Of a transfer phase
it uses that it ends and then succeeds or fails, which `CliTransfer` shows. The
progress goroutine and `stop()` of `startProgress` are explicit: two halves of `stop` and
the goroutine's last line. The push is a message that the server may handle after
the client has given it up. Two modules of pure operators enter:

- `TestPlan`: the parameters of a test on their way from the configuration through
  `info` and `resolveOptions` to the CLI, and through `config.json` to the page.
- `PingStats`: minimum and jitter as `measure.PingStats` and as `addSample` of
  `worker.js` keep them, in exact tenths. The history variable `page` of `CliRun` is what the
  worker would make of the samples the CLI has taken.

### The browser

`BrowserWorker` has one action per event handler of `worker.js`; handlers are
functions from worker record to worker record, as the code's nested calls
(`finish`, `done`, `stop`) all run within one event. The timers of a phase are
ordered by their deadlines; bytes enter through each XHR's progress, and the grace timer moves
the start of the window. `BrowserPage` creates one worker per run and exchanges
messages with it through two queues. An abort is two actions, because the worker runs
in a thread of its own between `postMessage` and `terminate`.

## 3. Runs

| Run | Question | Bounds |
|---|---|---|
| `MCLimiter` | counter, closures, gate, window law and sweep of the limiter | 3 calls on 2 addresses, `Lag` 1, burst 1, TTL 2, time to 4: several sweeps and re-creations fit, and an eviction inside a window |
| `MCRateLimiterRefinement` | implements `TokenBucket` | `Lag` 0, burst 2, TTL 2, time to 6 |
| `MCSlowRefill` | *violation*: the law without the refill assumption | rate 0, time to 7 |
| `MeterHistory` | meter = definition over the history | 4 calls, times to 4, grace 0 to 2 |
| `MCCliTransfer` | a phase of either kind: the window is whole and counted, the verdict follows from the count, only accepted uploads count, the phase ends | 2 streams, grace 1, duration 1, blob 2, 4 units moved (two blobs, or more that are answered early) |
| `MCCliRun` | a whole CLI run, from plan to push | up to 3 samples, round trips of 1, 2 and 4 ticks, two configurations of this server and one foreign, every choice of phases and push |
| `MCCliDial` | *violation*: `-timeout` bounds the control requests | same instance |
| `MCServerLifecycle` | two concurrent requests and a shutdown | sizes 0 to 2 around an upload limit of 1, gate 1, each request over HTTP/1.1 or h2c |
| `MCStalledDownload` | *violation*: every download ends | same instance |
| `MCResultsApi` | precedence of settings, ids and restarts, order of the list, client addresses | two limits, two modes, each flag with a valid and an invalid value; 3 ids, 2 handlers, clock to 1; chains of up to 3 entries over 5 written addresses |
| `MCBrowserPage` | two runs in the browser | 2 streams, 2 samples, test of 2 ticks with grace 1 and 3, requests of 2 bytes, 3 bytes a phase: a fallback, an abort and a successor |
| `MCMuteSocket` | *violation*: every run ends | same instance |

Why small instances say something: limiter entries of different addresses only meet
in the sweep, for which two addresses suffice, and calls of one address are
symmetric, so two contend for a gate of 1 while a third sweeps. Server requests
interact through slots, counters and the drain, pairwise. Streams of a phase interact
through the meter, where one crosses the boundary while the other has bytes in
hand. Browser runs only meet their successor. The grace period longer than the test
is there because the configuration admits it. Three forwarded entries are a client's
own word, a stranger and a proxy, in any order; three ids are the smallest number
that can be listed in a wrong order after one more was inserted. Three samples are one that is
dropped from the jitter, one that starts its average and one that moves it. A bound is
a guard on an action or an upper value of a constant: `MaxTime` (clocks),
`MaxCalls` (meter), `MaxMoved` and `MaxLoaded` (bytes), `MaxNow` (stamps), `Lag`,
`Run` (clicks on Start). They stop time or traffic, never a handler. In
`MCCliTransfer` time runs to one tick past the deadline.

`MCCliTransfer`, `MCCliRun`, `MCCliDial`, `MCResultsApi` and the server and browser runs
have `CHECK_DEADLOCK FALSE` since a phase, a CLI run, a process and the last browser run
do end, and ids run out. That the others do not hang earlier is a liveness property of
each. The limiter's runs and `MeterHistory` check deadlock.

### What the violations show

- `MCSlowRefill`: a bucket that takes longer than `idleTTL` to refill is refilled by
  the eviction of its entry. The condition under which this cannot happen is
  `EvictionIsHarmless`; the default flags satisfy it.
- `MCStalledDownload`: neither the server nor `handleDownload` sets a write deadline,
  also in internet mode, against what `server.go` and DESIGN.md say. A client that stops
  reading keeps its slot.
- `MCMuteSocket`: a ping socket that opens and closes cleanly before the first echo leaves
  the page in the ping phase.
- `MCCliDial`: the dialling of the ping socket is the one control request `-timeout` does
  not bound.

### Met while modelling

What the models say of corners of the code no document speaks of, or only loosely:

- Jitter of the two clients differs: Go takes the first change whole, `worker.js` lets its
  average start at 0, though DESIGN.md:25-26 says both implement the same procedure.
  `ClientsAgree` follows the difference sample by sample: it begins at three tenths of the
  first change and loses a fifth of itself, rounding aside, with each later one; the ping is the same.
- The CLI's duration excludes the grace period, the browser's `test_duration_ms` includes
  it, and the configuration accepts a grace as long as the test or longer. When it is longer the worker
  reports the whole phase (`WindowIsReported`). `-grace-download 0` is 0 to the page, and
  1.5 s to the CLI, to which 0 means "not told". A duration under a millisecond is
  truncated to 0, which the CLI replaces by its default of 15 s while the page takes it as
  it is. `PlanIsThePages` is stated with these exceptions.
- The CLI's verdict looks at the bytes that remain in the meter, and the sample that opens the
  window is discarded with everything before it. main.go:458-459 says of downloads that "the
  phase as a whole fails only if no stream ever transferred any bytes", main.go:580 of uploads
  that it "fails only if no stream ever delivered any bytes". The code also fails a phase whose
  only bytes came before the window or opened it. `WindowIsCounted` states what holds: a phase
  fails only if nothing was read in its window, or accepted in it, and the mutant that puts the
  rule of the comments in place of `Judge` violates it. Conversely a phase whose last sample came
  within the grace period reports the bytes of that period.
- `WindowIsCounted` also bounds the count. For downloads it is what was read in the window, and at
  most one read of each other stream more. For uploads it is what was accepted in the window,
  and at most one blob of each other stream more. Against what was *sent* in the window an
  upload has an upper bound only: blobs that are refused or cut off are never counted, however many.
- `GET /api/v1/ws` over h2c makes the WebSocket library panic, since `statusRecorder.Hijack`
  (handlers.go:226-228) refuses. The slot and the gauge come back, as their calls are deferred;
  the counter at handlers.go:127 is not, so started minus completed keeps the test for good.
  `StreamsHoldSlots` is stated with exactly these tests (`Panicked`) as its exception.
- A push that was accepted is not therefore stored: with the default store `none` the server
  answers 200 and keeps nothing. `ExitMeansComplete` speaks of the answer.
- The browser counts the bytes of uploads that fail or are refused, the CLI only accepted ones.
- The list orders by the text of time stamps, so that stamps with offsets may be listed out
  of the order of their moments. `ListIsNewest` is about rows stamped in UTC to the second, as the server and
  the CLI stamp them, wherever the others lie between them. Fractions of a second, which another client
  may send, are outside `Stamp`.
- The page sends no token, so that with `-api-token` its results are lost without a
  word; the `none` store answers 200 with an id that cannot be read, where `speedtest.js`
  expects 404 or 501.
- The CLI does not know the server's `max_upload_bytes` and chunk cap; the internet profile's gate
  of 8 tests per address is below the 12 streams that may be configured.
- Only the first `X-Forwarded-For` line is read, and a network given in IPv4-mapped form
  contains no address after they are unmapped.

## 4. Fairness

Safety runs assume none. Liveness assumes that code able to run does and that
timers fire, and in addition:

- *Transfer*: time passes, the context expires after its deadline, and a request
  whose context is done fails. The last is strong fairness, as a server that keeps
  sending takes the request in and out of the state where the failure is possible, while
  the transport ends it for good. Nothing is assumed of the server.
- *CLI run*: a deadline on every control request except the dialling, and that a
  transfer ends (`PhaseEnds`).
- *Server*: handlers run, upload and echo deadlines fire, `Shutdown` returns when
  nothing is left or its timeout passes. Nothing is assumed of clients, and a signal need
  not come.
- *Browser*: the grace and end timers fire, ping requests are answered or fail, and a
  socket that is open yields an echo, closes or fails (a TCP connection to a server
  whose read deadline is 30 s). The user need not click. Transfer requests need nothing.


## 5. Proofs

TLC checks small instances; the theorems hold for every value of the constants that
satisfies the named assumptions (`ASSUME ...Assumption`) of the modules, which say no more
than the types of settings and of inputs, and of configured values what the code's own
validation enforces. TLC evaluates them in the runs. Two kinds of theorem assume more,
and say so: those about the bucket's law (`EvictionIsHarmless`) and those about clocks
(`Lag`).

| Module | Theorems | Inductive invariant and why it is needed |
|---|---|---|
| `RateLimiterProofs` | `TypeCorrect`, `CountersExact`, `ClosuresLive`, `GateCorrect`; refinements `LimiterImplementsBucket` (if `Lag = 0` and `EvictionIsHarmless`) and `LimiterImplementsGate` | `IInv`: types, `EntriesDistinct` (two addresses never share a cell), `HeldPoints` (a closure's cell is the map's) and exact counters. Each needs the others: a sweep spares an entry because its counter is right, and the counter stays right because no sweep separated it from its closure. For the bucket `RInv` adds `Punctual`, entries that are never ahead of the clock; one lemma per action shows its abstract counterpart or a stutter. The gate needs `IInv` alone: the counter that was tested counts who is inside. |
| `AdmissionWindowProofs` | `WindowLawHolds` (if `EvictionIsHarmless`), `IdleEntriesGo` (if `Lag <= IdleTTL`) | `WInv`: an account of tokens, spent in the window plus left in the entry, with the times of stamps and entries that a stale clock allows. `Life`: no sweep is planned further ahead than one interval, and an idle entry was used recently enough for the planned sweep. |
| `MeterHistoryProofs` | `MeterMatches` | `HInv`: the bytes as the cardinality of the set of counted units, so that a call adds as many as it brings; the elapsed time as the greatest of the `Spans`; and where the window has its base. A call either starts the measurement, crosses the boundary or counts: one lemma each. |
| `ResultsApiProofs` | `ApiTypeCorrect`, `PrecedenceHolds`, `AnsweredReadable`, `ClientsAreChainEnds`, `ListsAreNewest`; about `ProxyChain` alone `RequestsGetTheirClient`, `LeftIsIgnored` | what each pass of `Load` has decided so far; that ids are unique over rows, handlers and answers, also after a restart. The walk is proved by the least counterexample of its recursion's measure. The order of rows is strict, so that places are distinct and a row that goes before another has the smaller one. |
| `CliRunProofs` | `RunTypeCorrect`, `PingIsWhole`, `PlansAsThePage`, `ProgressEnds`, `ExitsComplete`, `PushesOnce`, `PagesAgree` | `Sequence`: what is measured, reported and pushed at each point of `run`; `Sampled` and `Least` for the ping; `Planned` for the merged plan. `Alike`: how the two clients' statistics of the same samples are related. |
| `CliTransferProofs` | `TransferTypeCorrect`, `WindowIsWhole`, `WindowCounts`, `AcceptedCounts` | `CliInv`: what streams have in hand, when the window opened, and the meter's bytes as those read, or accepted (`CreditCount`), in the window give or take what was in hand; `Judged` ties the verdict to them. For uploads the bound against what was sent is from above only. Sums over streams are cardinalities of sets of units, for which the finite-set theorems suffice. |
| `ServerLifecycleProofs` | `ServerTypeCorrect`, `SlotsAreHeld`, `UploadsAnsweredTruly`, `BytesAreAccounted`, `DrainCompletes`; refinement `ServerKeepsToGate` | `LifecycleInv`: counters and gauge as cardinalities (`Counted`), the gate, where a request can be at each point of the shutdown (`Placed`, `Closing`), and that an echo test whose handler panicked has no answer, which tells it from one that was completed; `BytesInv`: bytes as cardinalities of sets of units. |
| `BrowserPageProofs` | `RunsOneAtATime`, `PostsOnce`, `PageTypeCorrect`, `PhasesApart`, `PingsOverOne`, `ReportsTheWindow` | `PageInv`: which worker is alive and what its messages may still say. `PageSafe`: every worker is `Sane`, that is typed, its queue in order, and sockets, timers, requests and bytes fit its phase. Handlers call each other within one event, so there is one lemma per function of `worker.js` and one per event. |

Every theorem about a specification has the form Init => Inv, Inv /\ [Next]_vars => Inv',
Inv => property, joined by one temporal step.

What the bounds of the specifications (`MaxTime`, `MaxMoved`, `MaxLoaded`, ...) are does not
matter to any proof: they are arbitrary naturals.

Only model-checked:

- Liveness (`PhaseEnds`, `ServerStops`, `SilenceEndsTests`, `RunEndsUnlessMute`,
  `RunEndsUnlessDialling`): fairness and ENABLED are outside the prover.

Only proved: the two implementations of `SlotGate`, which join two components' models and
ask nothing of an instance that `GateHolds`, `ActiveCountsInFlight` and `StreamsHoldSlots`
do not ask already.

## 6. Not modelled

- Wording and layout: logs, HTML, CSS, the share image, the CLI's output formats, headers
  that only say how to cache or who may read, the text form of `/metrics` (all series exist from
  the start). Their values enter where they are computed.
- The division of bytes by time, the overhead factor, and what floating point rounds: the
  properties are about bytes, windows, minima and jitter in exact units.
- The payload buffer: it is filled before the server listens and never written after.
- Settings that neither depend on another nor on where they came from: they go through
  the passes of `Settings` like the ones listed there.
- The endpoint paths the CLI learns from `info`: the server never sends others.
- `internal/clientip` parses networks; here an address is trusted or it is not.
- `net/http`, the WebSocket library, SQLite and the browser's XHR are external: modelled by
  what the code relies on and marked so in the map.
- Container image and workflows: no program logic.

## 7. Plan

In the order of what matters most:

1. The limiter, its abstract bucket, refinement and proofs: done.
2. Meter and transfer phases, proved for any number of streams: done.
3. Server: middleware, endpoints, shutdown, store, results, addresses, settings: done,
   bytes, slots and the drain proved for any number of requests.
4. Browser worker and page: done, safety proved for any number of runs and streams.
5. CLI run, ping statistics and the plan: done; the output formats are left.
6. Limiter and server joined at the gate, every safety property of a run proved: done.
7. Left beyond these: the progress messages of worker and CLI as sampled rates, the limiter
   composed with the server's requests with tokens and gate together, and list
   order for stamps with offsets, should the store come to normalise them.
