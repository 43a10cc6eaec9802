---------------------- MODULE MCRateLimiterRefinement ----------------------
\* The instance of MCRateLimiter for the refinement of TokenBucket.
EXTENDS RateLimiterRefinement, TLC

CONSTANTS a1, a2, c1, c2, c3, k1, k2, k3

MCAddr == {a1, a2}
MCCall == {c1, c2, c3}
MCCell == {k1, k2, k3}
MCIpOf == (c1 :> a1) @@ (c2 :> a1) @@ (c3 :> a2)

MCSymmetry == Permutations({c1, c2}) \cup Permutations(MCCell)

=============================================================================
