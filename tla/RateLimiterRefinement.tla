----------------------- MODULE RateLimiterRefinement -----------------------
(***************************************************************************)
(* RateLimiter implements TokenBucket when the clock read and the lock of  *)
(* Acquire fall into one tick (Lag = 0) and a bucket is full again by the  *)
(* time its entry may be evicted (EvictionIsHarmless).  Whatever its       *)
(* clocks and its settings are, it implements SlotGate.                    *)
(***************************************************************************)
EXTENDS RateLimiter

statusBar ==
  [c \in Call |-> IF phase[c] = "held" THEN "in"
                  ELSE IF phase[c] = "refused" THEN "rejected" ELSE "out"]

\* A bucket without an entry is full; the refill an entry has not yet been
\* given for the time since lastRefill already belongs to it.
levelBar ==
  [a \in Addr |->
     IF entries[a] = NoCell THEN Capacity
     ELSE Refill(heap[entries[a]], clock).tokens]

TB == INSTANCE TokenBucket WITH status <- statusBar, level <- levelBar

(***************************************************************************)
(* Lazy refill, creation on first sight and sweeping of idle entries are   *)
(* invisible: every decision of Acquire is the one an ideal bucket with    *)
(* the true number of tests in flight would have made, and a refused call  *)
(* consumes nothing.                                                       *)
(***************************************************************************)
ImplementsTokenBucket == TB!TBSpec

----------------------------------------------------------------------------
insideBar == [a \in Addr |-> InFlight(a)]

SG == INSTANCE SlotGate WITH inside <- insideBar

(***************************************************************************)
(* Whatever sweeps, stale clocks and repeated releases do, a test is let   *)
(* in only while its address has a slot left in truth, not only by the     *)
(* counter of an entry, and its slot is given back once.                   *)
(***************************************************************************)
ImplementsSlotGate == SG!SGSpec

=============================================================================
