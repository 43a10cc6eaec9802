----------------------------- MODULE MCLimiter -----------------------------
\* Small instances of RateLimiter under its observers; the first address is
\* watched.
EXTENDS EntryLifetime, TLC

CONSTANTS a1, a2, c1, c2, c3, k1, k2, k3

MCAddr == {a1, a2}
MCCall == {c1, c2, c3}
MCCell == {k1, k2, k3}
MCIpOf == (c1 :> a1) @@ (c2 :> a1) @@ (c3 :> a2)

MCWatched == a1

MCSymmetry == Permutations({c1, c2}) \cup Permutations(MCCell)

=============================================================================
