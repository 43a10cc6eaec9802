--------------------------- MODULE EntryLifetime ---------------------------
(***************************************************************************)
(* An observer of RateLimiter beside the one of AdmissionWindow: it        *)
(* remembers when the entry in the map for each address was last used, by  *)
(* an Acquire (admitted or not) or by the end of a test.                   *)
(***************************************************************************)
EXTENDS AdmissionWindow

VARIABLE lastUse   \* 0 for an address without an entry

lvars == <<clock, entries, heap, nextCleanup, phase, stamp, handle,
           winStart, winCount, lastUse>>

LInit == WInit /\ lastUse = [a \in Addr |-> 0]

\* The calls of a that this step takes from phase p to another.
Leaving(a, p) == {c \in Call : IpOf[c] = a /\ phase[c] = p /\ phase'[c] # p}

\* The clock reading of the one call in S.
ReadBy(S) == stamp[CHOOSE c \in S : TRUE]

UsedAt(a) ==
  IF entries'[a] = NoCell THEN 0
  ELSE IF Leaving(a, "called") # {} THEN ReadBy(Leaving(a, "called"))
  ELSE IF Leaving(a, "held") # {} THEN clock
  ELSE lastUse[a]

LNext == WNext /\ lastUse' = [a \in Addr |-> UsedAt(a)]

LSpec == LInit /\ [][LNext]_lvars

(***************************************************************************)
(* The lazy sweep keeps the map from growing without bound: right after    *)
(* any Acquire, an entry without a test in flight was used within the last *)
(* IdleTTL + CleanupEvery, counted back from the clock that Acquire read.  *)
(***************************************************************************)
IdleEntriesAreSwept ==
  [][\A c \in Call, a \in Addr :
       (phase[c] = "called" /\ phase'[c] # "called" /\ entries'[a] # NoCell)
       => \/ heap'[entries'[a]].active > 0
          \/ stamp[c] - lastUse'[a] <= IdleTTL + CleanupEvery]_lvars

=============================================================================
