----------------------- MODULE AdmissionWindowProofs -----------------------
(***************************************************************************)
(* The law of AdmissionWindow for every setting under which eviction is    *)
(* harmless.  The argument is an account of tokens: what was spent in the  *)
(* window plus what the entry still holds never exceeds a full bucket plus *)
(* the refill since the window was opened.  An entry not refilled in the   *)
(* window has spent nothing in it; an entry that was swept has been idle   *)
(* long enough for the refill of a whole bucket.                           *)
(*                                                                         *)
(* The last part is about EntryLifetime: no idle entry outlives the next   *)
(* sweep, and no sweep is ever planned further ahead than CleanupEvery.    *)
(***************************************************************************)
EXTENDS EntryLifetime, RateLimiterProofs

\* A call enters the mutex at most Lag after it read the clock.
StampsFresh ==
  \A c \in Call : phase[c] = "called" =>
    stamp[c] <= clock /\ clock <= stamp[c] + Lag

\* Entries are not ahead of the clock, and lastSeen may trail lastRefill by
\* the staleness of one clock read.
EntryTimes ==
  \A a \in Addr : entries[a] # NoCell =>
    /\ heap[entries[a]].lastRefill <= clock
    /\ heap[entries[a]].lastRefill <= heap[entries[a]].lastSeen + Lag

\* The account of an entry e, with n tests admitted since w.
Paid(e, n, w) ==
  TokenUnit * n + e.tokens <= Capacity + Rate * (e.lastRefill - w + Lag)

Account ==
  Burst > 0 =>
    IF entries[Watched] = NoCell
    THEN TokenUnit * winCount <= Rate * (clock - winStart)
    ELSE IF heap[entries[Watched]].lastRefill >= winStart - Lag
         THEN Paid(heap[entries[Watched]], winCount, winStart)
         ELSE winCount = 0

WindowType == winStart \in Nat /\ winCount \in Nat /\ winStart <= clock

TimeInv == IInv /\ WindowType /\ StampsFresh /\ EntryTimes

WInv == TimeInv /\ Account

----------------------------------------------------------------------------
\* Multiplication, as far as the account needs it.
LEMMA TimesMonotone ==
  ASSUME NEW r \in Nat, NEW x \in Int, NEW y \in Int, x <= y
  PROVE  r * x \in Int /\ r * y \in Int /\ r * x <= r * y
OBVIOUS

LEMMA TimesSum ==
  ASSUME NEW r \in Nat, NEW x \in Int, NEW y \in Int
  PROVE  r * (x + y) = r * x + r * y
OBVIOUS

LEMMA TimesNat ==
  ASSUME NEW r \in Nat, NEW x \in Nat
  PROVE  r * x \in Nat
OBVIOUS

\* What a refill gives, and what it costs in time.
LEMMA RefillLevel ==
  ASSUME NEW e \in Entry, NEW now \in Nat
  PROVE  LET r == Refill(e, now)
         IN  /\ r.lastRefill = IF now > e.lastRefill THEN now ELSE e.lastRefill
             /\ r.lastSeen = e.lastSeen
             /\ r.tokens <= e.tokens + Rate * (r.lastRefill - e.lastRefill)
<1> DEFINE r == Refill(e, now)
<1>1. CASE now > e.lastRefill
  <2> DEFINE gain  == (now - e.lastRefill) * Rate
             grown == e.tokens + gain
             level == IF grown < Capacity THEN grown ELSE Capacity
  <2>1. r = [e EXCEPT !.tokens = level, !.lastRefill = now]
    BY <1>1 DEF Refill
  <2>2. gain = Rate * (now - e.lastRefill) /\ gain \in Nat
    BY <1>1, TimesNat, LimiterAssumption DEF Entry
  <2> HIDE DEF gain
  <2>3. level <= grown
    BY <2>2, CapacityType DEF Entry
  <2> HIDE DEF level
  <2>4. r.lastRefill = now /\ r.lastSeen = e.lastSeen /\ r.tokens = level
    BY <2>1 DEF Entry
  <2> HIDE DEF r
  <2>5. r.tokens <= e.tokens + Rate * (r.lastRefill - e.lastRefill)
    BY <2>2, <2>3, <2>4
  <2> QED
    BY <1>1, <2>4, <2>5 DEF r
<1>2. CASE ~ (now > e.lastRefill)
  <2>1. r = e
    BY <1>2 DEF Refill
  <2>2. Rate * (e.lastRefill - e.lastRefill) = 0
    BY LimiterAssumption DEF Entry
  <2> QED
    BY <1>2, <2>1, <2>2 DEF Entry
<1> QED
  BY <1>1, <1>2

\* The account of an entry that has been idle for longer than IdleTTL.
LEMMA IdleAccount ==
  ASSUME NEW spent \in Nat, NEW left \in Nat, NEW refilled \in Int,
         NEW seen \in Int, NEW now \in Int, NEW w \in Int, NEW t \in Int,
         spent + left <= Capacity + Rate * (refilled - w + Lag),
         EvictionIsHarmless,
         t - seen > IdleTTL, refilled <= seen + Lag, t <= now
  PROVE  spent <= Rate * (now - w)
<1> DEFINE x == refilled - w + Lag
           y == IdleTTL - 2 * Lag
<1>1. x \in Int /\ y \in Int /\ x + y <= now - w /\ now - w \in Int
  BY LimiterAssumption
<1>2. Capacity <= Rate * y
  BY DEF EvictionIsHarmless
<1>3. spent + left <= Capacity + Rate * x
  OBVIOUS
<1> HIDE DEF x, y
<1>4. Rate * (x + y) = Rate * x + Rate * y
  BY <1>1, TimesSum, LimiterAssumption
<1>5. Rate * (x + y) <= Rate * (now - w)
  BY <1>1, TimesMonotone, LimiterAssumption
<1>6. Rate * x \in Int /\ Rate * y \in Int /\ Rate * (now - w) \in Int
  BY <1>1, LimiterAssumption
<1> QED
  BY <1>2, <1>3, <1>4, <1>5, <1>6, CapacityType

----------------------------------------------------------------------------
\* Times of the entry that an Acquire finds or creates.
LEMMA LookedTimes ==
  ASSUME TimeInv, NEW c \in Call, phase[c] = "called",
         NEW k \in Cell, Target(c, k)
  PROVE  LET e == Looked(c, k)
         IN  /\ e \in Entry
             /\ stamp[c] <= e.lastRefill
             /\ e.lastRefill <= clock
             /\ e.lastRefill <= e.lastSeen + Lag
<1> DEFINE ip == IpOf[c]
           t  == stamp[c]
<1>1. /\ ip \in Addr /\ t \in Nat /\ clock \in Nat
      /\ t <= clock /\ clock <= t + Lag
  BY LimiterAssumption DEF TimeInv, IInv, TypeOK, StampsFresh
<1>2. Looked(c, k) \in Entry
  BY LookedType DEF TimeInv, IInv
<1>3. PICK e0 \in Entry : /\ Looked(c, k) = Touched(e0, t)
                          /\ e0.lastRefill <= clock
  <2>1. CASE Kept(t)[ip] # NoCell
    <3>1. k = entries[ip] /\ entries[ip] # NoCell
      BY <1>1, <2>1, KeptType DEF Target
    <3>2. heap[k] \in Entry /\ heap[k].lastRefill <= clock
      BY <1>1, <3>1 DEF TimeInv, IInv, TypeOK, EntryTimes
    <3> QED
      BY <2>1, <3>2 DEF Looked
  <2>2. CASE Kept(t)[ip] = NoCell
    <3>1. NewEntry(t) \in Entry /\ NewEntry(t).lastRefill = t
      BY <1>1, NewEntryType DEF NewEntry
    <3> QED
      BY <1>1, <2>2, <3>1 DEF Looked
  <2> QED
    BY <2>1, <2>2
<1> DEFINE seen == [e0 EXCEPT !.lastSeen = t]
<1>4. seen \in Entry /\ seen.lastSeen = t /\ seen.lastRefill = e0.lastRefill
  BY <1>1 DEF Entry
<1>5. Looked(c, k) = Refill(seen, t)
  BY <1>3 DEF Touched
<1> HIDE DEF seen, t
<1>6. /\ Looked(c, k).lastRefill =
           IF t > e0.lastRefill THEN t ELSE e0.lastRefill
      /\ Looked(c, k).lastSeen = t
  BY <1>1, <1>4, <1>5, RefillLevel
<1>7. e0.lastRefill \in Nat
  BY DEF Entry
<1> QED
  BY <1>1, <1>2, <1>3, <1>6, <1>7, LimiterAssumption DEF t

\* An address without an entry after the sweep has a full bucket coming.
LEMMA SweptAccount ==
  ASSUME WInv, EvictionIsHarmless, Burst > 0,
         NEW c \in Call, phase[c] = "called",
         Kept(stamp[c])[Watched] = NoCell
  PROVE  TokenUnit * winCount <= Rate * (clock - winStart)
<1> DEFINE e == heap[entries[Watched]]
<1>1. /\ stamp[c] \in Nat /\ clock \in Nat /\ stamp[c] <= clock
      /\ winStart \in Nat /\ winCount \in Nat /\ winStart <= clock
  BY DEF WInv, TimeInv, IInv, TypeOK, StampsFresh, WindowType
<1>2. TokenUnit * winCount \in Nat
  BY <1>1, TimesNat, LimiterAssumption
<1>3. ASSUME entries[Watched] # NoCell
      PROVE  TokenUnit * winCount <= Rate * (clock - winStart)
  <2>1. e \in Entry
    BY <1>3, WatchedAssumption DEF WInv, TimeInv, IInv, TypeOK
  <2>2. stamp[c] - e.lastSeen > IdleTTL
    BY <1>3, WatchedAssumption DEF Kept, Expired
  <2>3. e.lastRefill <= e.lastSeen + Lag
    BY <1>3, WatchedAssumption DEF WInv, TimeInv, EntryTimes
  <2>4. CASE e.lastRefill >= winStart - Lag
    <3>1. TokenUnit * winCount + e.tokens
            <= Capacity + Rate * (e.lastRefill - winStart + Lag)
      BY <1>3, <2>4 DEF WInv, Account, Paid
    <3>2. /\ e.tokens \in Nat /\ e.lastRefill \in Int /\ e.lastSeen \in Int
      BY <2>1, CapacityType DEF Entry
    <3> DEFINE spent == TokenUnit * winCount
    <3>3. spent \in Nat
      BY <1>2
    <3>4. spent + e.tokens <= Capacity + Rate * (e.lastRefill - winStart + Lag)
      BY <3>1
    <3>5. /\ clock \in Int /\ winStart \in Int /\ stamp[c] \in Int
          /\ stamp[c] <= clock
      BY <1>1
    <3> HIDE DEF e, spent
    <3>6. spent <= Rate * (clock - winStart)
      BY <2>2, <2>3, <3>2, <3>3, <3>4, <3>5, IdleAccount
    <3> QED
      BY <3>6 DEF spent
  <2>5. CASE ~ (e.lastRefill >= winStart - Lag)
    <3>1. winCount = 0
      BY <1>3, <2>5 DEF WInv, Account
    <3>2. TokenUnit * winCount = 0
      BY <3>1, LimiterAssumption
    <3>3. Rate * (clock - winStart) \in Nat
      BY <1>1, TimesNat, LimiterAssumption
    <3> QED
      BY <3>2, <3>3
  <2> QED
    BY <2>4, <2>5
<1>4. ASSUME entries[Watched] = NoCell
      PROVE  TokenUnit * winCount <= Rate * (clock - winStart)
  BY <1>4 DEF WInv, Account
<1> QED
  BY <1>3, <1>4

\* Adding the refill since an earlier one keeps the account.
LEMMA RefilledAccount ==
  ASSUME NEW spent \in Nat, NEW old \in Nat, NEW level \in Nat,
         NEW before \in Nat, NEW after \in Nat, NEW w \in Nat,
         spent + old <= Capacity + Rate * (before - w + Lag),
         level <= old + Rate * (after - before)
  PROVE  spent + level <= Capacity + Rate * (after - w + Lag)
<1> DEFINE x == before - w + Lag
           y == after - before
<1>1. x \in Int /\ y \in Int /\ x + y = after - w + Lag
  BY LimiterAssumption
<1>2. spent + old <= Capacity + Rate * x /\ level <= old + Rate * y
  OBVIOUS
<1> HIDE DEF x, y
<1>3. Rate * (x + y) = Rate * x + Rate * y
  BY <1>1, TimesSum, LimiterAssumption
<1>4. Rate * x \in Int /\ Rate * y \in Int
  BY <1>1, LimiterAssumption
<1>5. spent + level <= Capacity + Rate * (x + y)
  BY <1>2, <1>3, <1>4, CapacityType
<1> QED
  BY <1>1, <1>5

(***************************************************************************)
(* Whatever an Acquire for the watched address finds (an entry, an entry   *)
(* that was not refilled in the window, none, or one it has just swept),   *)
(* the entry it works on is in the window and its account is in order.     *)
(***************************************************************************)
LEMMA LookedAccount ==
  ASSUME WInv, EvictionIsHarmless, Burst > 0,
         NEW c \in Call, phase[c] = "called", IpOf[c] = Watched,
         NEW k \in Cell, Target(c, k)
  PROVE  /\ Looked(c, k).lastRefill >= winStart - Lag
         /\ Paid(Looked(c, k), winCount, winStart)
<1> DEFINE e     == Looked(c, k)
           t     == stamp[c]
           spent == TokenUnit * winCount
<1>1. /\ t \in Nat /\ clock \in Nat /\ t <= clock /\ clock <= t + Lag
      /\ winStart \in Nat /\ winCount \in Nat /\ winStart <= clock
  BY DEF WInv, TimeInv, IInv, TypeOK, StampsFresh, WindowType
<1>2. e \in Entry /\ t <= e.lastRefill
  BY LookedTimes DEF WInv
<1>3. e.lastRefill >= winStart - Lag
  <2>1. e.lastRefill \in Nat
    BY <1>2 DEF Entry
  <2> HIDE DEF e, t
  <2> QED
    BY <1>1, <1>2, <2>1, LimiterAssumption
<1>4. spent \in Nat
  BY <1>1, TimesNat, LimiterAssumption
<1>5. ASSUME Kept(t)[Watched] # NoCell
      PROVE  Paid(e, winCount, winStart)
  <2> DEFINE old  == heap[k]
             seen == [old EXCEPT !.lastSeen = t]
  <2>1. k = entries[Watched] /\ entries[Watched] # NoCell
    BY <1>1, <1>5, KeptType, WatchedAssumption DEF Target
  <2>2. old \in Entry /\ seen \in Entry
    BY <1>1 DEF WInv, TimeInv, IInv, TypeOK, Entry
  <2>3. seen.tokens = old.tokens /\ seen.lastRefill = old.lastRefill
    BY <2>2 DEF Entry
  <2>4. e = Refill(seen, t)
    BY <1>5 DEF Looked, Touched
  <2>5. e.tokens <= old.tokens + Rate * (e.lastRefill - old.lastRefill)
    BY <1>1, <2>2, <2>3, <2>4, RefillLevel
  <2>6. /\ e.tokens \in Nat /\ e.lastRefill \in Nat /\ e.tokens <= Capacity
        /\ old.tokens \in Nat /\ old.lastRefill \in Nat
    BY <1>2, <2>2, CapacityType DEF Entry
  <2>7. ASSUME old.lastRefill >= winStart - Lag
        PROVE  spent + e.tokens <= Capacity + Rate * (e.lastRefill - winStart + Lag)
    <3>1. spent + old.tokens
            <= Capacity + Rate * (old.lastRefill - winStart + Lag)
      BY <2>1, <2>7 DEF WInv, Account, Paid
    <3> HIDE DEF e, old, spent
    <3> QED
      BY <1>1, <1>4, <2>5, <2>6, <3>1, RefilledAccount
  <2>8. ASSUME ~ (old.lastRefill >= winStart - Lag)
        PROVE  spent + e.tokens <= Capacity + Rate * (e.lastRefill - winStart + Lag)
    <3>1. winCount = 0
      BY <2>1, <2>8 DEF WInv, Account
    <3>2. spent = 0
      BY <3>1, LimiterAssumption
    <3> HIDE DEF e, spent
    <3>3. Rate * (e.lastRefill - winStart + Lag) \in Nat
      BY <1>1, <1>3, <2>6, TimesNat, LimiterAssumption
    <3> QED
      BY <2>6, <3>2, <3>3, CapacityType
  <2> QED
    BY <2>7, <2>8 DEF Paid
<1>6. ASSUME Kept(t)[Watched] = NoCell
      PROVE  Paid(e, winCount, winStart)
  <2>1. e = Touched(NewEntry(t), t)
    BY <1>6 DEF Looked
  <2>2. e.tokens <= Capacity /\ e.tokens \in Nat /\ e.lastRefill \in Nat
    BY <1>2, CapacityType DEF Entry
  <2>3. spent <= Rate * (clock - winStart)
    BY <1>6, SweptAccount
  <2> DEFINE x == clock - winStart
             y == e.lastRefill - winStart + Lag
  <2>4. x \in Int /\ y \in Int /\ x <= y
    <3> HIDE DEF e, t
    <3> QED
      BY <1>1, <1>2, <2>2, LimiterAssumption
  <2>5. spent <= Rate * x
    BY <2>3
  <2> HIDE DEF e, x, y, spent
  <2>6. Rate * x \in Int /\ Rate * y \in Int /\ Rate * x <= Rate * y
    BY <2>4, TimesMonotone, LimiterAssumption
  <2>7. spent + e.tokens <= Capacity + Rate * y
    BY <1>4, <2>2, <2>5, <2>6, CapacityType
  <2> QED
    BY <2>7 DEF Paid, y, spent
<1> QED
  BY <1>3, <1>5, <1>6

----------------------------------------------------------------------------
\* The observer watches and never interferes.
LEMMA ObserverStep == [WNext]_wvars => [Next]_vars
BY DEF WNext, wvars, vars, AdmitWatched, OtherStep, Mark, Next

LEMMA ClockStep ==
  ASSUME [Next]_vars
  PROVE  clock' = clock \/ clock' = clock + 1
<1>1. CASE UNCHANGED vars
  BY <1>1 DEF vars
<1>2. CASE Tick
  BY <1>2 DEF Tick
<1>3. ASSUME NEW c \in Call, CallAcquire(c) \/ Release(c) \/ Return(c)
      PROVE  clock' = clock
  BY <1>3 DEF CallAcquire, Release, Return
<1>4. ASSUME NEW c \in Call, Admit(c) \/ Refuse(c)
      PROVE  clock' = clock
  BY <1>4 DEF Admit, Refuse, Locked
<1> QED
  BY <1>1, <1>2, <1>3, <1>4 DEF Next

LEMMA InitWInv == WInit => WInv
<1> SUFFICES ASSUME WInit PROVE WInv
  OBVIOUS
<1>1. IInv
  BY InitIInv DEF WInit
<1>2. WindowType /\ StampsFresh /\ EntryTimes
  BY DEF WInit, Init, WindowType, StampsFresh, EntryTimes
<1>3. Account
  <2>1. /\ entries[Watched] = NoCell /\ clock - winStart = 0
        /\ winCount = 0
    BY WatchedAssumption DEF WInit, Init
  <2>2. TokenUnit * winCount = 0 /\ Rate * (clock - winStart) = 0
    BY <2>1, LimiterAssumption
  <2> QED
    BY <2>1, <2>2 DEF Account
<1> QED
  BY <1>1, <1>2, <1>3 DEF WInv, TimeInv

\* What a locked body does to the times of all entries.
LEMMA LockedTimes ==
  ASSUME TimeInv, NEW c \in Call, phase[c] = "called",
         NEW k \in Cell, Target(c, k), NEW e \in Entry, Locked(c, k, e),
         e.lastRefill = Looked(c, k).lastRefill,
         e.lastSeen = Looked(c, k).lastSeen
  PROVE  EntryTimes'
<1>1. e.lastRefill <= clock /\ e.lastRefill <= e.lastSeen + Lag
  BY LookedTimes
<1>2. clock' = clock
  BY DEF Locked
<1>3. /\ entries'[IpOf[c]] = k /\ heap'[k] = e
      /\ \A a \in Addr \ {IpOf[c]} : entries'[a] # NoCell =>
           /\ entries'[a] = entries[a]
           /\ heap'[entries'[a]] = heap[entries[a]]
  BY LockedSlots DEF TimeInv
<1> SUFFICES ASSUME NEW a \in Addr, entries'[a] # NoCell
             PROVE  /\ heap'[entries'[a]].lastRefill <= clock
                    /\ heap'[entries'[a]].lastRefill
                          <= heap'[entries'[a]].lastSeen + Lag
  BY <1>2 DEF EntryTimes
<1>4. CASE a = IpOf[c]
  BY <1>1, <1>3, <1>4
<1>5. CASE a # IpOf[c]
  BY <1>3, <1>5 DEF TimeInv, EntryTimes
<1> QED
  BY <1>4, <1>5

\* Charging an entry leaves its times alone.
LEMMA ChargedTimes ==
  ASSUME NEW e \in Entry
  PROVE  /\ Charged(e).lastRefill = e.lastRefill
         /\ Charged(e).lastSeen = e.lastSeen
BY DEF Charged, Entry

LEMMA ChargedTokens ==
  ASSUME NEW e \in Entry, Burst > 0
  PROVE  Charged(e).tokens = e.tokens - TokenUnit
BY DEF Charged, Entry

LEMMA NextTimes ==
  ASSUME TimeInv, [WNext]_wvars
  PROVE  TimeInv'
<1>1. IInv'
  BY ObserverStep, NextIInv DEF TimeInv
<1>2. clock \in Nat /\ winStart \in Nat /\ winCount \in Nat
  BY DEF TimeInv, IInv, TypeOK, WindowType
<1>3. WindowType'
  <2>1. clock' \in Nat /\ clock <= clock'
    BY <1>2, ObserverStep, ClockStep
  <2> QED
    BY <1>2, <2>1 DEF WNext, Mark, wvars, TimeInv, WindowType
<1>4. CASE UNCHANGED vars
  BY <1>1, <1>3, <1>4
     DEF TimeInv, vars, StampsFresh, EntryTimes
<1>5. CASE Tick
  <2>1. clock' = clock + 1
    BY <1>5 DEF Tick
  <2>2. StampsFresh'
    BY <1>2, <1>5, LimiterAssumption
       DEF Tick, TimeInv, IInv, TypeOK, StampsFresh
  <2>3. EntryTimes'
    <3> SUFFICES ASSUME NEW a \in Addr, entries[a] # NoCell
                 PROVE  /\ heap[entries[a]].lastRefill <= clock + 1
                        /\ heap[entries[a]].lastRefill
                              <= heap[entries[a]].lastSeen + Lag
      BY <1>5 DEF Tick, EntryTimes
    <3>1. heap[entries[a]] \in Entry
      BY DEF TimeInv, IInv, TypeOK
    <3>2. heap[entries[a]].lastRefill \in Nat
      BY <3>1 DEF Entry
    <3> QED
      BY <1>2, <3>2 DEF TimeInv, EntryTimes
  <2> QED
    BY <1>1, <1>3, <2>2, <2>3 DEF TimeInv
<1>6. ASSUME NEW c \in Call, CallAcquire(c) PROVE TimeInv'
  <2>1. StampsFresh'
    BY <1>2, <1>6, LimiterAssumption
       DEF CallAcquire, TimeInv, IInv, TypeOK, StampsFresh
  <2>2. EntryTimes'
    BY <1>6 DEF CallAcquire, TimeInv, EntryTimes
  <2> QED
    BY <1>1, <1>3, <2>1, <2>2 DEF TimeInv
<1>7. ASSUME NEW c \in Call, Admit(c) PROVE TimeInv'
  <2>1. PICK k \in Cell : /\ Target(c, k)
                          /\ HasToken(Looked(c, k))
                          /\ Locked(c, k, Charged(Looked(c, k)))
    BY <1>7 DEF Admit
  <2>2. Looked(c, k) \in Entry /\ Charged(Looked(c, k)) \in Entry
    BY <2>1, LookedType, ChargedType DEF TimeInv, IInv
  <2>3. phase[c] = "called"
    BY <1>7 DEF Admit
  <2>4. EntryTimes'
    BY <2>1, <2>2, <2>3, ChargedTimes, LockedTimes
  <2>5. StampsFresh'
    BY <1>7, <2>1 DEF Admit, Locked, TimeInv, IInv, TypeOK, StampsFresh
  <2> QED
    BY <1>1, <1>3, <2>4, <2>5 DEF TimeInv
<1>8. ASSUME NEW c \in Call, Refuse(c) PROVE TimeInv'
  <2>1. PICK k \in Cell : Target(c, k) /\ Locked(c, k, Looked(c, k))
    BY <1>8 DEF Refuse
  <2>2. Looked(c, k) \in Entry /\ phase[c] = "called"
    BY <1>8, LookedType DEF Refuse, TimeInv, IInv
  <2>3. EntryTimes'
    BY <2>1, <2>2, LockedTimes
  <2>4. StampsFresh'
    BY <1>8, <2>1 DEF Refuse, Locked, TimeInv, IInv, TypeOK, StampsFresh
  <2> QED
    BY <1>1, <1>3, <2>3, <2>4 DEF TimeInv
<1>9. ASSUME NEW c \in Call, Release(c) PROVE TimeInv'
  <2>1. StampsFresh'
    BY <1>9 DEF Release, TimeInv, IInv, TypeOK, StampsFresh
  <2>2. \A k \in Cell : /\ heap'[k].lastRefill = heap[k].lastRefill
                         /\ heap'[k].lastSeen = heap[k].lastSeen
    BY <1>9 DEF Release, Dropped, TimeInv, IInv, TypeOK, Entry
  <2>3. EntryTimes'
    BY <1>9, <2>2 DEF Release, TimeInv, IInv, TypeOK, EntryTimes
  <2> QED
    BY <1>1, <1>3, <2>1, <2>3 DEF TimeInv
<1>10. ASSUME NEW c \in Call, Return(c) PROVE TimeInv'
  <2>1. StampsFresh'
    BY <1>10 DEF Return, TimeInv, IInv, TypeOK, StampsFresh
  <2>2. EntryTimes'
    BY <1>10 DEF Return, TimeInv, EntryTimes
  <2> QED
    BY <1>1, <1>3, <2>1, <2>2 DEF TimeInv
<1> QED
  BY <1>4, <1>5, <1>6, <1>7, <1>8, <1>9, <1>10, ObserverStep DEF Next

----------------------------------------------------------------------------
\* An Acquire for another address may sweep the watched entry.
LEMMA OthersAccount ==
  ASSUME WInv, EvictionIsHarmless, Burst > 0,
         NEW c \in Call, phase[c] = "called", IpOf[c] # Watched,
         NEW k \in Cell, Target(c, k), NEW e \in Entry, Locked(c, k, e),
         UNCHANGED <<winStart, winCount>>
  PROVE  Account'
<1>1. clock' = clock
  BY DEF Locked
<1>2. CASE entries'[Watched] = NoCell
  <2>1. Kept(stamp[c]) \in [Addr -> Cell \cup {NoCell}]
    BY DEF Kept, WInv, TimeInv, IInv, TypeOK
  <2>2. Kept(stamp[c])[Watched] = NoCell
    BY <1>2, <2>1, WatchedAssumption DEF Locked
  <2> QED
    BY <1>1, <1>2, <2>2, SweptAccount DEF Account
<1>3. CASE entries'[Watched] # NoCell
  <2>1. /\ entries'[Watched] = entries[Watched]
        /\ heap'[entries'[Watched]] = heap[entries[Watched]]
    BY <1>3, LockedSlots, WatchedAssumption DEF WInv, TimeInv
  <2> QED
    BY <1>3, <2>1 DEF WInv, Account, Paid
<1> QED
  BY <1>2, <1>3

\* An Acquire for the watched address moves tokens from the entry to the
\* tests it admits, or moves none.
LEMMA OwnAccount ==
  ASSUME WInv, EvictionIsHarmless, Burst > 0,
         NEW c \in Call, phase[c] = "called", IpOf[c] = Watched,
         NEW k \in Cell, Target(c, k), NEW e \in Entry, Locked(c, k, e),
         e.lastRefill = Looked(c, k).lastRefill,
         winStart' = winStart,
         TokenUnit * winCount' + e.tokens =
           TokenUnit * winCount + Looked(c, k).tokens
  PROVE  Account'
<1>1. /\ Looked(c, k).lastRefill >= winStart - Lag
      /\ Paid(Looked(c, k), winCount, winStart)
  BY LookedAccount
<1>2. Paid(e, winCount', winStart')
  BY <1>1 DEF Paid
<1>3. entries'[Watched] = k /\ heap'[k] = e /\ k # NoCell
  BY LockedSlots, LimiterAssumption DEF WInv, TimeInv
<1> QED
  BY <1>1, <1>2, <1>3 DEF Account

\* A step that leaves the watched entry's bucket alone.
LEMMA QuietAccount ==
  ASSUME WInv, Burst > 0,
         entries'[Watched] = entries[Watched],
         entries[Watched] # NoCell =>
           /\ heap'[entries[Watched]].tokens = heap[entries[Watched]].tokens
           /\ heap'[entries[Watched]].lastRefill
                = heap[entries[Watched]].lastRefill,
         clock' = clock \/ clock' = clock + 1,
         UNCHANGED <<winStart, winCount>>
  PROVE  Account'
<1>1. CASE entries[Watched] = NoCell
  <2>1. TokenUnit * winCount <= Rate * (clock - winStart)
    BY <1>1 DEF WInv, Account
  <2>2. clock - winStart \in Int /\ clock' - winStart \in Int
        /\ clock - winStart <= clock' - winStart /\ winCount \in Nat
    BY DEF WInv, TimeInv, IInv, TypeOK, WindowType
  <2>3. TokenUnit * winCount \in Nat
    BY <2>2, TimesNat, LimiterAssumption
  <2> DEFINE x == clock - winStart
             y == clock' - winStart
             spent == TokenUnit * winCount
  <2>4. spent <= Rate * x /\ x \in Int /\ y \in Int /\ x <= y /\ spent \in Nat
    BY <2>1, <2>2, <2>3
  <2> HIDE DEF x, y, spent
  <2>5. spent <= Rate * y
    BY <2>4, TimesMonotone, LimiterAssumption
  <2> QED
    BY <1>1, <2>5 DEF Account, spent, y
<1>2. CASE entries[Watched] # NoCell
  BY <1>2 DEF WInv, Account, Paid
<1> QED
  BY <1>1, <1>2

LEMMA MarkAccount ==
  ASSUME WInv, Burst > 0, Mark
  PROVE  Account'
<1>1. /\ clock \in Nat /\ entries' = entries /\ heap' = heap /\ clock' = clock
      /\ winStart' = clock /\ winCount' = 0
  BY DEF Mark, vars, WInv, TimeInv, IInv, TypeOK
<1>2. TokenUnit * winCount' = 0 /\ Rate * (clock' - winStart') = 0
  BY <1>1, LimiterAssumption
<1>3. ASSUME entries[Watched] # NoCell,
             heap[entries[Watched]].lastRefill >= clock - Lag
      PROVE  Paid(heap[entries[Watched]], winCount', clock)
  <2> DEFINE e == heap[entries[Watched]]
             x == e.lastRefill - clock + Lag
  <2>1. e \in Entry
    BY <1>3, WatchedAssumption DEF WInv, TimeInv, IInv, TypeOK
  <2>2. e.tokens \in Nat /\ e.tokens <= Capacity /\ e.lastRefill \in Nat
    BY <2>1, CapacityType DEF Entry
  <2>3. x \in Nat
    BY <1>1, <1>3, <2>2, LimiterAssumption
  <2>4. Rate * x \in Nat
    BY <2>3, TimesNat, LimiterAssumption
  <2> HIDE DEF e, x
  <2>5. TokenUnit * winCount' + e.tokens <= Capacity + Rate * x
    BY <1>2, <2>2, <2>4, CapacityType
  <2> QED
    BY <2>5 DEF Paid, e, x
<1> QED
  BY <1>1, <1>2, <1>3 DEF Account

LEMMA NextAccount ==
  ASSUME WInv, EvictionIsHarmless, [WNext]_wvars
  PROVE  Account'
<1> SUFFICES ASSUME Burst > 0 PROVE Account'
  BY DEF Account
<1>1. CASE UNCHANGED wvars
  BY <1>1, QuietAccount DEF wvars
<1>2. CASE Mark
  BY <1>2, MarkAccount
<1>3. CASE Tick /\ UNCHANGED <<winStart, winCount>>
  BY <1>3, QuietAccount DEF Tick
<1>4. ASSUME NEW c \in Call, CallAcquire(c) \/ Return(c),
             UNCHANGED <<winStart, winCount>>
      PROVE  Account'
  BY <1>4, QuietAccount DEF CallAcquire, Return
<1>5. ASSUME NEW c \in Call, Release(c), UNCHANGED <<winStart, winCount>>
      PROVE  Account'
  <2>1. entries' = entries /\ clock' = clock
    BY <1>5 DEF Release
  <2>2. \A k \in Cell : /\ heap'[k].tokens = heap[k].tokens
                         /\ heap'[k].lastRefill = heap[k].lastRefill
    BY <1>5 DEF Release, Dropped, WInv, TimeInv, IInv, TypeOK, Entry
  <2>3. entries[Watched] \in Cell \cup {NoCell}
    BY WatchedAssumption DEF WInv, TimeInv, IInv, TypeOK
  <2> QED
    BY <1>5, <2>1, <2>2, <2>3, QuietAccount
<1>6. ASSUME NEW c \in Call, Refuse(c), UNCHANGED <<winStart, winCount>>
      PROVE  Account'
  <2>1. phase[c] = "called"
    BY <1>6 DEF Refuse
  <2>2. PICK k \in Cell : Target(c, k) /\ Locked(c, k, Looked(c, k))
    BY <1>6 DEF Refuse
  <2>3. Looked(c, k) \in Entry
    BY LookedType DEF WInv, TimeInv, IInv
  <2>4. CASE IpOf[c] = Watched
    BY <1>6, <2>1, <2>2, <2>3, <2>4, OwnAccount
  <2>5. CASE IpOf[c] # Watched
    BY <1>6, <2>1, <2>2, <2>3, <2>5, OthersAccount
  <2> QED
    BY <2>4, <2>5
<1>7. ASSUME NEW c \in Call, Admit(c),
             IF IpOf[c] = Watched THEN winCount' = winCount + 1
                                  ELSE winCount' = winCount,
             winStart' = winStart
      PROVE  Account'
  <2>1. phase[c] = "called"
    BY <1>7 DEF Admit
  <2>2. PICK k \in Cell : /\ Target(c, k)
                          /\ HasToken(Looked(c, k))
                          /\ Locked(c, k, Charged(Looked(c, k)))
    BY <1>7 DEF Admit
  <2> DEFINE seen == Looked(c, k)
             e    == Charged(seen)
  <2>3. seen \in Entry
    BY LookedType DEF WInv, TimeInv, IInv
  <2>4. e \in Entry /\ e.lastRefill = seen.lastRefill
    BY <2>2, <2>3, ChargedType, ChargedTimes
  <2>5. CASE IpOf[c] = Watched
    <3>1. e.tokens = seen.tokens - TokenUnit
      BY <2>3, ChargedTokens
    <3>2. winCount \in Nat /\ seen.tokens \in Int
      BY <2>3, CapacityType DEF WInv, TimeInv, WindowType, Entry
    <3>3. TokenUnit * winCount' = TokenUnit * winCount + TokenUnit
      BY <1>7, <2>5, <3>2, LimiterAssumption
    <3>4. TokenUnit * winCount \in Int
      BY <3>2, LimiterAssumption
    <3> HIDE DEF e, seen
    <3>5. TokenUnit * winCount' + e.tokens = TokenUnit * winCount + seen.tokens
      BY <3>1, <3>2, <3>3, <3>4, LimiterAssumption
    <3> USE DEF e, seen
    <3> QED
      BY <1>7, <2>1, <2>2, <2>4, <2>5, <3>5, OwnAccount
  <2>6. CASE IpOf[c] # Watched
    BY <1>7, <2>1, <2>2, <2>4, <2>6, OthersAccount
  <2> QED
    BY <2>5, <2>6
<1> QED
  BY <1>1, <1>2, <1>3, <1>4, <1>5, <1>6, <1>7
     DEF WNext, AdmitWatched, OtherStep

LEMMA AccountGivesLaw ==
  ASSUME WInv
  PROVE  WindowLaw
<1> SUFFICES ASSUME Burst > 0
             PROVE  TokenUnit * winCount
                      <= Capacity + Rate * (clock - winStart + Lag)
  BY DEF WindowLaw
<1> DEFINE e == heap[entries[Watched]]
           x == clock - winStart
           z == clock - winStart + Lag
           spent == TokenUnit * winCount
<1>1. /\ clock \in Nat /\ winStart \in Nat /\ winCount \in Nat
      /\ winStart <= clock
  BY DEF WInv, TimeInv, IInv, TypeOK, WindowType
<1>2. x \in Int /\ z \in Nat /\ x <= z /\ spent \in Nat
  BY <1>1, TimesNat, LimiterAssumption
<1>3. Rate * z \in Nat
  BY <1>2, TimesNat, LimiterAssumption
<1>4. CASE entries[Watched] = NoCell
  <2>1. spent <= Rate * x
    BY <1>4 DEF WInv, Account
  <2> HIDE DEF x, z, spent
  <2>2. Rate * x \in Int /\ Rate * x <= Rate * z
    BY <1>2, TimesMonotone, LimiterAssumption
  <2>3. spent <= Capacity + Rate * z
    BY <1>2, <1>3, <2>1, <2>2, CapacityType
  <2> QED
    BY <2>3 DEF spent, z
<1>5. CASE entries[Watched] # NoCell /\ e.lastRefill >= winStart - Lag
  <2> DEFINE y == e.lastRefill - winStart + Lag
  <2>1. e \in Entry
    BY <1>5, WatchedAssumption DEF WInv, TimeInv, IInv, TypeOK
  <2>2. e.tokens \in Nat /\ e.lastRefill \in Nat
    BY <2>1, CapacityType DEF Entry
  <2>3. e.lastRefill <= clock
    BY <1>5, WatchedAssumption DEF WInv, TimeInv, EntryTimes
  <2>4. spent + e.tokens <= Capacity + Rate * y
    BY <1>5 DEF WInv, Account, Paid
  <2>5. y \in Int /\ y <= z
    <3> HIDE DEF e
    <3> QED
      BY <1>1, <2>2, <2>3, LimiterAssumption
  <2> HIDE DEF e, y, z, spent
  <2>6. Rate * y \in Int /\ Rate * y <= Rate * z
    BY <1>2, <2>5, TimesMonotone, LimiterAssumption
  <2>7. spent <= Capacity + Rate * z
    BY <1>2, <1>3, <2>2, <2>4, <2>6, CapacityType
  <2> QED
    BY <2>7 DEF spent, z
<1>6. CASE entries[Watched] # NoCell /\ ~ (e.lastRefill >= winStart - Lag)
  <2>1. winCount = 0
    BY <1>6 DEF WInv, Account
  <2>2. spent = 0
    BY <2>1, LimiterAssumption
  <2> HIDE DEF z
  <2> QED
    BY <1>3, <2>2, CapacityType DEF z
<1> QED
  BY <1>4, <1>5, <1>6

(***************************************************************************)
(* The law of the token bucket, for every number of clients, every rate    *)
(* and capacity and every schedule with bounded staleness, provided that a *)
(* bucket refills within the idle time to live.                            *)
(***************************************************************************)
THEOREM WindowLawHolds ==
  ASSUME EvictionIsHarmless
  PROVE  WSpec => []WindowLaw
<1>1. WInv /\ [WNext]_wvars => WInv'
  BY NextTimes, NextAccount DEF WInv
<1> QED
  BY <1>1, InitWInv, AccountGivesLaw, PTL DEF WSpec

----------------------------------------------------------------------------
(***************************************************************************)
(* The entries' lifetime.  A sweep is never planned further ahead than     *)
(* CleanupEvery, and when it comes, an entry without a test in flight was  *)
(* used within IdleTTL before or is dropped.                               *)
(***************************************************************************)
SweepPlanned == nextCleanup <= clock + CleanupEvery

Idle(a) == ~ (heap[entries[a]].active > 0)

UseTimes ==
  \A a \in Addr : entries[a] # NoCell =>
    /\ heap[entries[a]].lastSeen <= lastUse[a]
    /\ Idle(a) => nextCleanup - lastUse[a] <= IdleTTL + CleanupEvery

\* No entry has been seen after now.
SeenBefore ==
  \A a \in Addr : entries[a] # NoCell => heap[entries[a]].lastSeen <= clock

Life ==
  TimeInv /\ lastUse \in [Addr -> Nat] /\ SweepPlanned /\ UseTimes /\ SeenBefore

\* What the property asks of the entry of a after the Acquire of c.
Fresh(c, a) ==
  \/ heap'[entries'[a]].active > 0
  \/ stamp[c] - lastUse'[a] <= IdleTTL + CleanupEvery

\* The counter of an entry is never negative.
LEMMA ActiveNat ==
  ASSUME IInv, NEW a \in Addr, entries[a] # NoCell
  PROVE  heap[entries[a]].active \in Nat
BY InFlightFinite DEF IInv, ActiveCountsInFlight

\* Looking an entry up marks it with the clock the call has read.
LEMMA LookedSeen ==
  ASSUME TypeOK, NEW c \in Call, NEW k \in Cell
  PROVE  Looked(c, k).lastSeen = stamp[c]
<1>1. stamp[c] \in Nat /\ heap[k] \in Entry /\ NewEntry(stamp[c]) \in Entry
  BY NewEntryType DEF TypeOK
<1>2. PICK e \in Entry : Looked(c, k) = Touched(e, stamp[c])
  BY <1>1, Zenon DEF Looked
<1> DEFINE seen == [e EXCEPT !.lastSeen = stamp[c]]
<1>3. seen \in Entry /\ seen.lastSeen = stamp[c]
  BY <1>1 DEF Entry
<1>4. Looked(c, k) = Refill(seen, stamp[c])
  BY <1>2 DEF Touched
<1> HIDE DEF seen
<1> QED
  BY <1>1, <1>3, <1>4, RefillLevel

\* The observer's bookkeeping, for a step of one call and for one of none.
LEMMA UseOfCall ==
  ASSUME LNext, TypeOK, lastUse \in [Addr -> Nat], NEW c \in Call, NEW q,
         phase' = [phase EXCEPT ![c] = q], q # phase[c]
  PROVE  /\ lastUse' \in [Addr -> Nat]
         /\ \A a \in Addr : entries'[a] # NoCell =>
              lastUse'[a] = IF a = IpOf[c] /\ phase[c] = "called" THEN stamp[c]
                            ELSE IF a = IpOf[c] /\ phase[c] = "held" THEN clock
                            ELSE lastUse[a]
<1> DEFINE Used(a) == IF a = IpOf[c] /\ phase[c] = "called" THEN stamp[c]
                      ELSE IF a = IpOf[c] /\ phase[c] = "held" THEN clock
                      ELSE lastUse[a]
<1>1. lastUse' = [a \in Addr |-> UsedAt(a)]
  BY DEF LNext
<1>2. stamp[c] \in Nat /\ clock \in Nat
  BY DEF TypeOK
<1>3. ASSUME NEW a \in Addr
      PROVE  UsedAt(a) = IF entries'[a] = NoCell THEN 0 ELSE Used(a)
  <2>1. Leaving(a, "called") =
          IF a = IpOf[c] /\ phase[c] = "called" THEN {c} ELSE {}
    BY DEF Leaving, TypeOK
  <2>2. Leaving(a, "held") = IF a = IpOf[c] /\ phase[c] = "held" THEN {c} ELSE {}
    BY DEF Leaving, TypeOK
  <2>3. CASE entries'[a] = NoCell
    BY <2>3 DEF UsedAt
  <2>4. CASE entries'[a] # NoCell /\ a = IpOf[c] /\ phase[c] = "called"
    <3>1. Leaving(a, "called") = {c} /\ {c} # {}
      BY <2>1, <2>4
    <3>2. (CHOOSE d \in {c} : TRUE) = c
      OBVIOUS
    <3>3. UsedAt(a) = ReadBy({c})
      BY <2>4, <3>1 DEF UsedAt
    <3> QED
      BY <2>4, <3>2, <3>3 DEF ReadBy
  <2>5. CASE entries'[a] # NoCell /\ ~ (a = IpOf[c] /\ phase[c] = "called")
    <3>1. Leaving(a, "called") = {}
      BY <2>1, <2>5
    <3>2. UsedAt(a) = IF Leaving(a, "held") # {} THEN clock ELSE lastUse[a]
      BY <2>5, <3>1, Zenon DEF UsedAt
    <3> QED
      BY <2>2, <2>5, <3>2
  <2> QED
    BY <2>3, <2>4, <2>5
<1>4. \A a \in Addr : Used(a) \in Nat
  BY <1>2
<1> HIDE DEF Used
<1>5. /\ lastUse' \in [Addr -> Nat]
      /\ \A a \in Addr : entries'[a] # NoCell => lastUse'[a] = Used(a)
  BY <1>1, <1>3, <1>4
<1> QED
  BY <1>5 DEF Used

LEMMA UseOfNone ==
  ASSUME LNext, lastUse \in [Addr -> Nat], phase' = phase
  PROVE  /\ lastUse' \in [Addr -> Nat]
         /\ \A a \in Addr : entries'[a] # NoCell => lastUse'[a] = lastUse[a]
<1>1. \A a \in Addr : Leaving(a, "called") = {} /\ Leaving(a, "held") = {}
  BY DEF Leaving
<1>2. lastUse' = [a \in Addr |-> UsedAt(a)]
  BY DEF LNext
<1>3. ASSUME NEW a \in Addr
      PROVE  UsedAt(a) = IF entries'[a] = NoCell THEN 0 ELSE lastUse[a]
  BY <1>1, Zenon DEF UsedAt
<1> QED
  BY <1>2, <1>3

\* Steps that neither lock the mutex nor end a test.
LEMMA QuietLife ==
  ASSUME Life, TimeInv', UNCHANGED <<entries, heap, nextCleanup>>,
         lastUse' \in [Addr -> Nat],
         \A a \in Addr : entries'[a] # NoCell => lastUse'[a] = lastUse[a],
         clock' = clock \/ clock' = clock + 1
  PROVE  Life'
<1>1. SweepPlanned'
  <2>1. nextCleanup \in Int /\ clock \in Nat /\ nextCleanup' = nextCleanup
    BY DEF Life, TimeInv, IInv, TypeOK
  <2> QED
    BY <2>1, LimiterAssumption DEF Life, SweepPlanned
<1>2. UseTimes'
  BY DEF Life, UseTimes, Idle
<1>3. SeenBefore'
  <2> SUFFICES ASSUME NEW a \in Addr, entries[a] # NoCell
               PROVE  heap[entries[a]].lastSeen <= clock'
    BY DEF SeenBefore
  <2>1. heap[entries[a]].lastSeen \in Nat /\ clock \in Nat
    <3>1. heap[entries[a]] \in Entry
      BY DEF Life, TimeInv, IInv, TypeOK
    <3> QED
      BY <3>1 DEF Entry, Life, TimeInv, IInv, TypeOK
  <2>2. heap[entries[a]].lastSeen <= clock
    BY DEF Life, SeenBefore
  <2> QED
    BY <2>1, <2>2
<1> QED
  BY <1>1, <1>2, <1>3 DEF Life

(***************************************************************************)
(* An Acquire: its own entry is used now, every other entry was kept by    *)
(* the sweep it ran or is due for the next one.                            *)
(***************************************************************************)
LEMMA LockedLife ==
  ASSUME Life, TimeInv', Lag <= IdleTTL,
         NEW c \in Call, phase[c] = "called",
         NEW k \in Cell, Target(c, k), NEW e \in Entry, Locked(c, k, e),
         e.lastSeen = stamp[c],
         lastUse' \in [Addr -> Nat],
         \A a \in Addr : entries'[a] # NoCell =>
           lastUse'[a] = IF a = IpOf[c] THEN stamp[c] ELSE lastUse[a]
  PROVE  Life' /\ \A a \in Addr : entries'[a] # NoCell => Fresh(c, a)
<1> DEFINE t  == stamp[c]
           ip == IpOf[c]
<1>1. /\ ip \in Addr /\ t \in Nat /\ clock \in Nat /\ t <= clock
      /\ clock <= t + Lag /\ nextCleanup \in Int
      /\ nextCleanup <= clock + CleanupEvery
  BY LimiterAssumption
     DEF Life, TimeInv, IInv, TypeOK, StampsFresh, SweepPlanned
<1>2. /\ clock' = clock
      /\ nextCleanup' = IF t > nextCleanup THEN t + CleanupEvery ELSE nextCleanup
  BY DEF Locked, NextSweep, SweepDue
<1>3. /\ entries'[ip] = k /\ heap'[k] = e
      /\ \A a \in Addr \ {ip} : entries'[a] # NoCell =>
           /\ entries'[a] = entries[a]
           /\ heap'[entries'[a]] = heap[entries[a]]
  BY LockedSlots DEF Life, TimeInv
<1>4. SweepPlanned'
  BY <1>1, <1>2, LimiterAssumption DEF SweepPlanned
<1>5. ASSUME NEW a \in Addr, entries'[a] # NoCell
      PROVE  /\ heap'[entries'[a]].lastSeen <= lastUse'[a]
             /\ heap'[entries'[a]].lastSeen <= clock'
             /\ Idle(a)' => /\ nextCleanup' - lastUse'[a] <= IdleTTL + CleanupEvery
                            /\ t - lastUse'[a] <= IdleTTL + CleanupEvery
  <2>1. CASE a = ip
    <3>1. lastUse'[a] = t /\ heap'[entries'[a]].lastSeen = t
      BY <1>3, <1>5, <2>1
    <3>2. nextCleanup' - t <= IdleTTL + CleanupEvery
      BY <1>1, <1>2, LimiterAssumption
    <3> QED
      BY <1>1, <1>2, <3>1, <3>2, LimiterAssumption
  <2>2. CASE a # ip
    <3>1. /\ entries'[a] = entries[a] /\ entries[a] # NoCell
          /\ heap'[entries'[a]] = heap[entries[a]]
          /\ lastUse'[a] = lastUse[a]
      BY <1>3, <1>5, <2>2
    <3>2. /\ heap[entries[a]].lastSeen <= lastUse[a]
          /\ heap[entries[a]].lastSeen <= clock
          /\ Idle(a) => nextCleanup - lastUse[a] <= IdleTTL + CleanupEvery
      BY <3>1 DEF Life, UseTimes, SeenBefore
    <3>3. heap[entries[a]].lastSeen \in Nat /\ lastUse[a] \in Nat
      <4>1. heap[entries[a]] \in Entry
        BY <3>1 DEF Life, TimeInv, IInv, TypeOK
      <4> QED
        BY <4>1 DEF Life, Entry
    <3>4. ASSUME Idle(a), t > nextCleanup
          PROVE  t - heap[entries[a]].lastSeen <= IdleTTL
      <4>1. Kept(t)[a] # NoCell
        BY <1>1, <1>5, <2>2
           DEF Locked, Kept, Life, TimeInv, IInv, TypeOK
      <4>2. ~ (t - heap[entries[a]].lastSeen > IdleTTL)
        <5>1. heap[entries[a]].active \in Nat
          BY <3>1, ActiveNat DEF Life, TimeInv
        <5>2. heap[entries[a]].active = 0
          BY <3>4, <5>1 DEF Idle
        <5> QED
          BY <3>1, <3>4, <4>1, <5>2 DEF Kept, SweepDue, Expired
      <4> QED
        BY <1>1, <3>3, <4>2, LimiterAssumption
    <3>5. Idle(a)' => Idle(a)
      BY <3>1 DEF Idle
    <3> HIDE DEF t
    <3> QED
      BY <1>1, <1>2, <3>1, <3>2, <3>3, <3>4, <3>5, LimiterAssumption
  <2> QED
    BY <2>1, <2>2
<1>6. UseTimes' /\ SeenBefore'
  BY <1>5 DEF UseTimes, SeenBefore
<1>7. ASSUME NEW a \in Addr, entries'[a] # NoCell PROVE Fresh(c, a)
  BY <1>5, <1>7 DEF Fresh, Idle
<1> QED
  BY <1>4, <1>6, <1>7 DEF Life

\* The end of a test is a use; a repeated release is none.
LEMMA ReleaseLife ==
  ASSUME Life, TimeInv', LNext, NEW c \in Call, Release(c)
  PROVE  Life'
<1>1. /\ UNCHANGED <<clock, entries, nextCleanup>>
      /\ phase' = [phase EXCEPT ![c] = "released"]
      /\ heap' = [heap EXCEPT ![handle[c]] = Dropped(@, phase[c] = "released")]
  BY DEF Release
<1>2. TypeOK /\ IpOf[c] \in Addr /\ clock \in Nat
  BY LimiterAssumption DEF Life, TimeInv, IInv, TypeOK
<1>3. CASE phase[c] = "released"
  <2>1. heap' = heap /\ phase' = phase
    BY <1>1, <1>2, <1>3 DEF Dropped, TypeOK
  <2>2. /\ lastUse' \in [Addr -> Nat]
        /\ \A a \in Addr : entries'[a] # NoCell => lastUse'[a] = lastUse[a]
    BY <2>1, UseOfNone DEF Life
  <2> QED
    BY <1>1, <2>1, <2>2, QuietLife
<1>4. CASE phase[c] = "held"
  <2>1. /\ lastUse' \in [Addr -> Nat]
        /\ \A a \in Addr : entries'[a] # NoCell =>
             lastUse'[a] = IF a = IpOf[c] THEN clock ELSE lastUse[a]
    BY <1>1, <1>2, <1>4, UseOfCall DEF Life
  <2>3. SweepPlanned'
    BY <1>1 DEF Life, SweepPlanned
  <2>4. entries[IpOf[c]] = handle[c] /\ handle[c] \in Cell
    BY <1>4 DEF Life, TimeInv, IInv, HeldPoints
  <2>5. ASSUME NEW a \in Addr, entries'[a] # NoCell
        PROVE  /\ heap'[entries'[a]].lastSeen <= lastUse'[a]
               /\ Idle(a)' =>
                    nextCleanup' - lastUse'[a] <= IdleTTL + CleanupEvery
    <3>1. CASE a = IpOf[c]
      <4>1. lastUse'[a] = clock
        BY <2>1, <2>5, <3>1
      <4>2. heap'[entries'[a]].lastSeen = heap[handle[c]].lastSeen
        BY <1>1, <1>2, <2>4, <3>1 DEF Dropped, TypeOK, Entry
      <4>3. heap[handle[c]].lastSeen <= clock
        BY <2>4, <1>1, <2>5, <3>1 DEF Life, SeenBefore
      <4>4. nextCleanup' - clock <= IdleTTL + CleanupEvery
        BY <1>1, <1>2, LimiterAssumption DEF Life, SweepPlanned, TypeOK
      <4> QED
        BY <4>1, <4>2, <4>3, <4>4
    <3>2. CASE a # IpOf[c]
      <4>1. entries'[a] = entries[a] /\ lastUse'[a] = lastUse[a]
        BY <1>1, <2>1, <2>5, <3>2
      <4>2. entries[a] # handle[c]
        BY <1>2, <2>4, <2>5, <3>2, <4>1
           DEF Life, TimeInv, IInv, EntriesDistinct
      <4>3. heap'[entries'[a]] = heap[entries[a]]
        BY <1>1, <1>2, <2>5, <4>1, <4>2 DEF TypeOK
      <4> QED
        BY <1>1, <2>5, <4>1, <4>3 DEF Life, UseTimes, Idle
    <3> QED
      BY <3>1, <3>2
  <2>6. SeenBefore'
    BY <1>1, <1>2 DEF Dropped, TypeOK, Entry, Life, SeenBefore
  <2> QED
    BY <2>1, <2>3, <2>5, <2>6 DEF Life, UseTimes
<1> QED
  BY <1>3, <1>4 DEF Release

LEMMA NextLife ==
  ASSUME Life, Lag <= IdleTTL, [LNext]_lvars
  PROVE  /\ Life'
         /\ \A c \in Call, a \in Addr :
              (phase[c] = "called" /\ phase'[c] # "called" /\ entries'[a] # NoCell)
              => Fresh(c, a)
<1>1. TimeInv'
  BY NextTimes DEF Life, LNext, lvars, wvars
<1>2. TypeOK /\ clock \in Nat
  BY DEF Life, TimeInv, IInv, TypeOK
<1> DEFINE Swept == \A c \in Call, a \in Addr :
              (phase[c] = "called" /\ phase'[c] # "called" /\ entries'[a] # NoCell)
              => Fresh(c, a)
<1>3. CASE UNCHANGED lvars
  BY <1>1, <1>3, <1>2, QuietLife DEF lvars, Life
<1>4. ASSUME LNext, Mark \/ Tick PROVE Life' /\ Swept
  <2>1. /\ UNCHANGED <<entries, heap, nextCleanup, phase>>
        /\ clock' = clock \/ clock' = clock + 1
    BY <1>4 DEF Mark, Tick, vars
  <2>2. /\ lastUse' \in [Addr -> Nat]
        /\ \A a \in Addr : entries'[a] # NoCell => lastUse'[a] = lastUse[a]
    BY <1>4, <2>1, UseOfNone DEF Life
  <2> QED
    BY <1>1, <2>1, <2>2, QuietLife
<1>5. ASSUME LNext, NEW c \in Call, CallAcquire(c) \/ Return(c)
      PROVE  Life' /\ Swept
  <2>1. PICK q : /\ UNCHANGED <<entries, heap, nextCleanup, clock>>
                 /\ phase' = [phase EXCEPT ![c] = q]
                 /\ q # phase[c] /\ phase[c] \notin {"called", "held"}
    BY <1>5 DEF CallAcquire, Return
  <2>2. /\ lastUse' \in [Addr -> Nat]
        /\ \A a \in Addr : entries'[a] # NoCell => lastUse'[a] = lastUse[a]
    BY <1>2, <1>5, <2>1, UseOfCall DEF Life
  <2>3. Swept
    BY <1>2, <2>1 DEF TypeOK
  <2> QED
    BY <1>1, <2>1, <2>2, <2>3, QuietLife
<1>6. ASSUME LNext, NEW c \in Call, Release(c) PROVE Life' /\ Swept
  <2>1. Swept
    BY <1>2, <1>6 DEF Release, TypeOK
  <2> QED
    BY <1>1, <1>6, <2>1, ReleaseLife
<1>7. ASSUME LNext, NEW c \in Call, phase[c] = "called",
             NEW q, q # "called", phase' = [phase EXCEPT ![c] = q],
             NEW k \in Cell, Target(c, k), NEW e \in Entry, Locked(c, k, e),
             e.lastSeen = stamp[c]
      PROVE  Life' /\ Swept
  <2>1. /\ lastUse' \in [Addr -> Nat]
        /\ \A a \in Addr : entries'[a] # NoCell =>
             lastUse'[a] = IF a = IpOf[c] THEN stamp[c] ELSE lastUse[a]
    BY <1>2, <1>7, UseOfCall DEF Life
  <2>2. Life' /\ \A a \in Addr : entries'[a] # NoCell => Fresh(c, a)
    BY <1>1, <1>7, <2>1, LockedLife
  <2>3. \A d \in Call : phase[d] = "called" /\ phase'[d] # "called" => d = c
    BY <1>2, <1>7 DEF TypeOK
  <2> QED
    BY <2>2, <2>3
<1>8. ASSUME LNext, NEW c \in Call, Admit(c) PROVE Life' /\ Swept
  <2>1. PICK k \in Cell : /\ Target(c, k)
                          /\ HasToken(Looked(c, k))
                          /\ Locked(c, k, Charged(Looked(c, k)))
    BY <1>8 DEF Admit
  <2>2. Looked(c, k) \in Entry /\ Charged(Looked(c, k)) \in Entry
    BY <1>2, <2>1, LookedType, ChargedType
  <2>3. Charged(Looked(c, k)).lastSeen = stamp[c]
    BY <1>2, <2>2, ChargedTimes, LookedSeen
  <2>4. phase[c] = "called" /\ phase' = [phase EXCEPT ![c] = "held"]
    BY <1>8 DEF Admit
  <2> QED
    BY <1>7, <1>8, <2>1, <2>2, <2>3, <2>4
<1>9. ASSUME LNext, NEW c \in Call, Refuse(c) PROVE Life' /\ Swept
  <2>1. PICK k \in Cell : Target(c, k) /\ Locked(c, k, Looked(c, k))
    BY <1>9 DEF Refuse
  <2>2. Looked(c, k) \in Entry /\ Looked(c, k).lastSeen = stamp[c]
    BY <1>2, LookedType, LookedSeen
  <2>3. phase[c] = "called" /\ phase' = [phase EXCEPT ![c] = "refused"]
    BY <1>9 DEF Refuse
  <2> QED
    BY <1>7, <1>9, <2>1, <2>2, <2>3
<1> QED
  BY <1>3, <1>4, <1>5, <1>6, <1>8, <1>9
     DEF LNext, WNext, AdmitWatched, OtherStep

LEMMA InitLife == LInit => Life
<1> SUFFICES ASSUME LInit PROVE Life
  OBVIOUS
<1>1. TimeInv
  BY InitWInv DEF LInit, WInv
<1>2. SweepPlanned
  BY LimiterAssumption DEF LInit, WInit, Init, SweepPlanned
<1> QED
  BY <1>1, <1>2 DEF LInit, WInit, Init, Life, UseTimes, SeenBefore

(***************************************************************************)
(* After every Acquire, with any number of goroutines and addresses and    *)
(* stale clocks, an entry without a test in flight was used within the     *)
(* time to live plus one cleanup interval, provided that a call does not   *)
(* wait for the mutex longer than the time to live.                        *)
(***************************************************************************)
THEOREM IdleEntriesGo ==
  ASSUME Lag <= IdleTTL
  PROVE  LSpec => IdleEntriesAreSwept
<1>1. Life /\ [LNext]_lvars => Life'
  BY NextLife
<1>2. Life /\ [LNext]_lvars =>
        [\A c \in Call, a \in Addr :
           (phase[c] = "called" /\ phase'[c] # "called" /\ entries'[a] # NoCell)
           => \/ heap'[entries'[a]].active > 0
              \/ stamp[c] - lastUse'[a] <= IdleTTL + CleanupEvery]_lvars
  BY NextLife DEF Fresh
<1> QED
  BY <1>1, <1>2, InitLife, PTL DEF LSpec, IdleEntriesAreSwept

=============================================================================
