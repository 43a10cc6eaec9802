---------------------------- MODULE TokenBucket ----------------------------
(***************************************************************************)
(* What the rate limiter promises (the comment of ratelimit.New): for each *)
(* address at most PerIP tests at a time, and a bucket of Burst tokens     *)
(* refilling at a constant rate from which every test start takes one.     *)
(* There are no entries here, no lazy refill, no sweep and no mutex: the   *)
(* bucket of every address exists from the beginning and fills as time     *)
(* passes.  RateLimiterRefinement shows that the code implements it.       *)
(***************************************************************************)
EXTENDS Integers, FiniteSets

CONSTANTS Addr, Call, IpOf, PerIP, Burst, TokenUnit, Rate

VARIABLES
  status,  \* of each call: out, in (its test runs) or rejected
  level    \* the bucket of each address, in 1/TokenUnit tokens

tbvars == <<status, level>>

Full == Burst * TokenUnit

Inside(a) == {c \in Call : status[c] = "in" /\ IpOf[c] = a}

TBInit ==
  /\ status = [c \in Call |-> "out"]
  /\ level = [a \in Addr |-> Full]

Allowed(a) ==
  /\ PerIP > 0 => Cardinality(Inside(a)) < PerIP
  /\ Burst > 0 => level[a] >= TokenUnit

Start(c) ==
  /\ status[c] = "out"
  /\ Allowed(IpOf[c])
  /\ status' = [status EXCEPT ![c] = "in"]
  /\ level' = [level EXCEPT ![IpOf[c]] = IF Burst > 0 THEN @ - TokenUnit ELSE @]

\* A refusal has a reason, and costs nothing.
Reject(c) ==
  /\ status[c] = "out"
  /\ ~ Allowed(IpOf[c])
  /\ status' = [status EXCEPT ![c] = "rejected"]
  /\ UNCHANGED level

Leave(c) ==
  /\ status[c] \in {"in", "rejected"}
  /\ status' = [status EXCEPT ![c] = "out"]
  /\ UNCHANGED level

\* One tick passes: every bucket gains Rate, up to its capacity.
Elapse ==
  /\ level' = [a \in Addr |-> IF level[a] + Rate < Full THEN level[a] + Rate
                                                        ELSE Full]
  /\ UNCHANGED status

TBNext == (\E c \in Call : Start(c) \/ Reject(c) \/ Leave(c)) \/ Elapse

TBSpec == TBInit /\ [][TBNext]_tbvars

=============================================================================
