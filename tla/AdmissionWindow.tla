-------------------------- MODULE AdmissionWindow --------------------------
(***************************************************************************)
(* An observer of RateLimiter: it opens a window at any moment and counts  *)
(* the tests of one address admitted since.                                *)
(***************************************************************************)
EXTENDS RateLimiter

CONSTANT Watched   \* the address whose admissions are counted

ASSUME WatchedAssumption == Watched \in Addr

VARIABLES
  winStart,  \* the clock when the window was opened
  winCount   \* tests of Watched admitted since

wvars == <<clock, entries, heap, nextCleanup, phase, stamp, handle,
           winStart, winCount>>

WInit == Init /\ winStart = 0 /\ winCount = 0

AdmitWatched == \E c \in Call : IpOf[c] = Watched /\ Admit(c)

OtherStep ==
  \/ \E c \in Call : \/ IpOf[c] # Watched /\ Admit(c)
                     \/ CallAcquire(c)
                     \/ Refuse(c)
                     \/ Release(c)
                     \/ Return(c)
  \/ Tick

\* A window may be opened at any time; once per tick says it all.
Mark ==
  /\ winStart # clock
  /\ winStart' = clock
  /\ winCount' = 0
  /\ UNCHANGED vars

WNext ==
  \/ AdmitWatched /\ winCount' = winCount + 1 /\ UNCHANGED winStart
  \/ OtherStep /\ UNCHANGED <<winStart, winCount>>
  \/ Mark

WSpec == WInit /\ [][WNext]_wvars

(***************************************************************************)
(* The law of a token bucket, over every window of time: an address starts *)
(* at most Burst tests plus what the rate has refilled since the window    *)
(* was opened, whatever entries were swept and re-created, and although    *)
(* calls enter the mutex in another order than they read the clock (which  *)
(* is worth at most Lag more ticks of refill).                             *)
(***************************************************************************)
WindowLaw ==
  Burst > 0 =>
    TokenUnit * winCount <= Capacity + Rate * (clock - winStart + Lag)

=============================================================================
