---------------------------- MODULE RateLimiter ----------------------------
(***************************************************************************)
(* The per-address admission limiter, internal/ratelimit/ratelimit.go.     *)
(*                                                                         *)
(* A limiter keeps one entry per client address: the number of tests in    *)
(* flight and a lazily refilled token bucket.  Each of several goroutines  *)
(* ("calls") reads the clock, then locks the mutex and runs the rest of    *)
(* Acquire; an admitted call holds a pointer to its entry until the        *)
(* release closure it was given runs.                                      *)
(*                                                                         *)
(* Data abstraction.  Time is counted in ticks, tokens in units of         *)
(* 1/TokenUnit token, so that a refill of Rate units per tick stays        *)
(* integral (the code has float64 tokens and a rate per second).  Entries  *)
(* live in a heap of cells so that the map (entries) and the closures      *)
(* (handle) refer to them by identity, as the code's pointers do.          *)
(***************************************************************************)
EXTENDS Integers, FiniteSets

CONSTANTS
  Addr,          \* client addresses
  Call,          \* goroutines that call Acquire, each serving one address
  IpOf,          \* the address a call is made for
  Cell,          \* heap cells, each can hold one entry
  NoCell,        \* the nil pointer
  PerIP,         \* concurrency gate, 0 = disabled
  Burst,         \* bucket capacity in tokens, 0 = disabled
  TokenUnit,     \* units that make one token
  Rate,          \* units refilled per tick
  IdleTTL,       \* ticks an inactive entry may sit unused
  CleanupEvery,  \* least ticks between two sweeps
  Lag,           \* bound: ticks between a call's clock read and its lock
  MaxTime        \* bound on the clock

ASSUME LimiterAssumption ==
  /\ IpOf \in [Call -> Addr]
  /\ IsFiniteSet(Call)
  /\ NoCell \notin Cell
  /\ PerIP \in Nat
  /\ Burst \in Nat
  /\ TokenUnit \in Nat \ {0}
  /\ Rate \in Nat
  /\ IdleTTL \in Nat
  /\ CleanupEvery \in Nat
  /\ Lag \in Nat
  /\ MaxTime \in Nat

VARIABLES
  clock,        \* the value the next time.Now() returns
  entries,      \* limiter.entries: address -> cell or NoCell (no key)
  heap,         \* the entry structs
  nextCleanup,  \* limiter.nextCleanup
  phase,        \* where each call stands
  stamp,        \* the `now` a call has read
  handle        \* the entry captured by a call's release closure

vars == <<clock, entries, heap, nextCleanup, phase, stamp, handle>>

Capacity == Burst * TokenUnit

\* A relation of the flags under which an entry is evicted only when its bucket
\* would be full anyway, even if both the evicting call and the one before it
\* had stale clocks.  The default flags satisfy it: ten tokens refill well
\* within idleTTL.
EvictionIsHarmless == Capacity <= Rate * (IdleTTL - 2 * Lag)

\* A bucket is never overdrawn and never above its capacity.
Entry == [active : Int, tokens : 0 .. Capacity, lastRefill : Nat, lastSeen : Nat]

Phase == {"idle", "called", "held", "released", "refused"}

\* The entry Acquire creates for an unknown address: a full bucket.
NewEntry(now) ==
  [active |-> 0, tokens |-> Capacity, lastRefill |-> now, lastSeen |-> now]

\* What an unused heap cell holds.
Blank == NewEntry(0)

TypeOK ==
  /\ clock \in 0 .. MaxTime
  /\ entries \in [Addr -> Cell \cup {NoCell}]
  /\ heap \in [Cell -> Entry]
  /\ nextCleanup \in Int
  /\ phase \in [Call -> Phase]
  /\ stamp \in [Call -> Nat]
  /\ handle \in [Call -> Cell \cup {NoCell}]

(***************************************************************************)
(* The zero time.Time of nextCleanup lies before every clock value.        *)
(***************************************************************************)
Init ==
  /\ clock = 0
  /\ entries = [a \in Addr |-> NoCell]
  /\ heap = [k \in Cell |-> Blank]
  /\ nextCleanup = -1
  /\ phase = [c \in Call |-> "idle"]
  /\ stamp = [c \in Call |-> 0]
  /\ handle = [c \in Call |-> NoCell]

----------------------------------------------------------------------------
\* The body of Acquire, from the sweep to the two admission tests.

SweepDue(now) == now > nextCleanup

\* Faulty variant: the sweep forgets the tests in flight.
ExpiredIgnoringActive(e, now) == now - e.lastSeen > IdleTTL

\* Faulty variant: the sweep forgets the time to live.
ExpiredAnyIdle(e, now) == e.active = 0

\* A sweep drops an entry with no test in flight and no Acquire for IdleTTL.
Expired(e, now) == e.active = 0 /\ now - e.lastSeen > IdleTTL

\* The map after the sweep.
Kept(now) ==
  [a \in Addr |->
     IF /\ SweepDue(now)
        /\ entries[a] # NoCell
        /\ Expired(heap[entries[a]], now)
     THEN NoCell
     ELSE entries[a]]

\* Faulty variant: every Acquire postpones the sweep.
NextSweepPostponed(now) == now + CleanupEvery

NextSweep(now) == IF SweepDue(now) THEN now + CleanupEvery ELSE nextCleanup

\* Faulty variant: the bucket overflows.
RefillUncapped(e, now) ==
  IF now > e.lastRefill
  THEN [e EXCEPT !.tokens = @ + (now - e.lastRefill) * Rate,
                 !.lastRefill = now]
  ELSE e

\* Faulty variant: a stale clock turns lastRefill back.
RefillRewinding(e, now) ==
  LET gain  == IF now > e.lastRefill THEN (now - e.lastRefill) * Rate ELSE 0
      grown == e.tokens + gain
  IN  [e EXCEPT !.tokens = IF grown < Capacity THEN grown ELSE Capacity,
                !.lastRefill = now]

\* Refill happens only when time has passed since the last one.
Refill(e, now) ==
  IF now > e.lastRefill
  THEN LET grown == e.tokens + (now - e.lastRefill) * Rate
       IN  [e EXCEPT !.tokens = IF grown < Capacity THEN grown ELSE Capacity,
                     !.lastRefill = now]
  ELSE e

\* lastSeen is written for every Acquire, admitted or not.
Touched(e, now) == Refill([e EXCEPT !.lastSeen = now], now)

\* Faulty variant: off by one.
GateOpenOneMore(e) == PerIP > 0 => e.active <= PerIP

GateOpen(e) == PerIP > 0 => e.active < PerIP

HasToken(e) == Burst > 0 => e.tokens >= TokenUnit

Charged(e) ==
  [e EXCEPT !.tokens = IF Burst > 0 THEN @ - TokenUnit ELSE @,
            !.active = @ + 1]

\* The cell Acquire works on: the address's own, or a newly allocated one.
Target(c, k) ==
  LET old == Kept(stamp[c])[IpOf[c]]
  IN  IF old # NoCell
      THEN k = old
      ELSE /\ \A a \in Addr : entries[a] # k
           /\ \A d \in Call : handle[d] # k

\* The entry in cell k after lookup or creation, touch and refill.
Looked(c, k) ==
  Touched(IF Kept(stamp[c])[IpOf[c]] # NoCell THEN heap[k]
                                              ELSE NewEntry(stamp[c]),
          stamp[c])

\* The heap with e in cell k; a cell that nothing points to is blank again.
Stored(k, e, map) ==
  [j \in Cell |->
     IF j = k THEN e
     ELSE IF \/ \E a \in Addr : map[a] = j
             \/ \E d \in Call : handle[d] = j
          THEN heap[j]
          ELSE Blank]

----------------------------------------------------------------------------
\* The clock is read before the mutex is taken, so it can be stale by then.
CallAcquire(c) ==
  /\ phase[c] = "idle"
  /\ phase' = [phase EXCEPT ![c] = "called"]
  /\ stamp' = [stamp EXCEPT ![c] = clock]
  /\ UNCHANGED <<clock, entries, heap, nextCleanup, handle>>

\* The part of the locked body that every Acquire performs.
Locked(c, k, e) ==
  LET map == [Kept(stamp[c]) EXCEPT ![IpOf[c]] = k]
  IN  /\ entries' = map
      /\ heap' = Stored(k, e, map)
      /\ nextCleanup' = NextSweep(stamp[c])
      /\ UNCHANGED <<clock, stamp>>

Admit(c) ==
  /\ phase[c] = "called"
  /\ \E k \in Cell :
       /\ Target(c, k)
       /\ GateOpen(Looked(c, k))
       /\ HasToken(Looked(c, k))
       /\ Locked(c, k, Charged(Looked(c, k)))
       /\ handle' = [handle EXCEPT ![c] = k]
  /\ phase' = [phase EXCEPT ![c] = "held"]

Refuse(c) ==
  /\ phase[c] = "called"
  /\ \E k \in Cell :
       /\ Target(c, k)
       /\ ~ (GateOpen(Looked(c, k)) /\ HasToken(Looked(c, k)))
       /\ Locked(c, k, Looked(c, k))
  /\ phase' = [phase EXCEPT ![c] = "refused"]
  /\ UNCHANGED handle

\* Faulty variant: the closure has no Once.
DroppedEveryTime(e, ran) == [e EXCEPT !.active = @ - 1]

\* What a run of the closure does to its entry; Once makes the rest no-ops.
Dropped(e, ran) == IF ran THEN e ELSE [e EXCEPT !.active = @ - 1]

Release(c) ==
  /\ phase[c] \in {"held", "released"}
  /\ heap' = [heap EXCEPT ![handle[c]] = Dropped(@, phase[c] = "released")]
  /\ phase' = [phase EXCEPT ![c] = "released"]
  /\ UNCHANGED <<clock, entries, nextCleanup, stamp, handle>>

\* The caller is done with the closure; the goroutine may serve another test.
Return(c) ==
  /\ phase[c] \in {"released", "refused"}
  /\ phase' = [phase EXCEPT ![c] = "idle"]
  /\ stamp' = [stamp EXCEPT ![c] = 0]
  /\ handle' = [handle EXCEPT ![c] = NoCell]
  /\ UNCHANGED <<clock, entries, heap, nextCleanup>>

\* Time passes; Lag bounds how long a call waits for the mutex.
Tick ==
  /\ clock < MaxTime
  /\ \A c \in Call : phase[c] = "called" => clock - stamp[c] < Lag
  /\ clock' = clock + 1
  /\ UNCHANGED <<entries, heap, nextCleanup, phase, stamp, handle>>

Next ==
  \/ \E c \in Call : CallAcquire(c) \/ Admit(c) \/ Refuse(c)
                       \/ Release(c) \/ Return(c)
  \/ Tick

Spec == Init /\ [][Next]_vars

----------------------------------------------------------------------------
\* The calls whose test is in flight for an address.
InFlight(a) == {c \in Call : phase[c] = "held" /\ IpOf[c] = a}

(***************************************************************************)
(* The entry an in-flight call will decrement is the one the map holds for *)
(* its address: no sweep separates a closure from the counted entry.       *)
(***************************************************************************)
HeldEntryIsLive ==
  \A c \in Call : phase[c] = "held" => entries[IpOf[c]] = handle[c]

(***************************************************************************)
(* active is exactly the number of admitted calls not yet released, in     *)
(* whatever order calls, releases, repeated releases and sweeps come.      *)
(***************************************************************************)
ActiveCountsInFlight ==
  \A a \in Addr : entries[a] # NoCell =>
    heap[entries[a]].active = Cardinality(InFlight(a))

(***************************************************************************)
(* New's promise: at most perIP tests of one address run at a time.        *)
(***************************************************************************)
GateHolds ==
  PerIP > 0 => \A a \in Addr : Cardinality(InFlight(a)) <= PerIP

=============================================================================
