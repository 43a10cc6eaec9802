------------------------------ MODULE SlotGate ------------------------------
(***************************************************************************)
(* The interface between the rate limiter and the server's middleware: a   *)
(* test has one slot of one address from its admission to its release, and *)
(* is admitted only while that address has fewer than PerIP.  There is no  *)
(* counter here and no clock, only who is inside; a refusal changes        *)
(* nothing and may have any reason.                                        *)
(*                                                                         *)
(* RateLimiter implements it for every setting and however stale its       *)
(* clocks are, so that the server may be modelled with the gate in place   *)
(* of the limiter; ServerLifecycle implements it with its own counters.    *)
(***************************************************************************)
EXTENDS Integers, FiniteSets

CONSTANTS Addr, Call, PerIP

VARIABLE inside   \* the calls that have a slot of each address

SGInit == inside = [a \in Addr |-> {}]

Enter(c, a) ==
  /\ \A b \in Addr : c \notin inside[b]
  /\ PerIP > 0 => Cardinality(inside[a]) < PerIP
  /\ inside' = [inside EXCEPT ![a] = @ \cup {c}]

Leave(c, a) ==
  /\ c \in inside[a]
  /\ inside' = [inside EXCEPT ![a] = @ \ {c}]

SGNext == \E c \in Call, a \in Addr : Enter(c, a) \/ Leave(c, a)

SGSpec == SGInit /\ [][SGNext]_inside

=============================================================================
