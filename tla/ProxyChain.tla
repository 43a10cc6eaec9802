----------------------------- MODULE ProxyChain -----------------------------
(***************************************************************************)
(* Client address resolution, internal/clientip/clientip.go: the direct    *)
(* peer, or, if that is a trusted proxy, the address the forwarded headers *)
(* name.  A pure function of one request and of the trusted networks,      *)
(* which enter as the set of the addresses they contain.                   *)
(*                                                                         *)
(* One address can be written in several forms: with a port, a zone or in  *)
(* brackets, and an IPv4 address also as IPv6.  Each form is an element of *)
(* Addr, and Unmap takes it to the form that stands for the address.  An   *)
(* empty xff is an absent X-Forwarded-For (its first line is all the code  *)
(* reads), and real is NoAddr without X-Real-IP.                           *)
(***************************************************************************)
EXTENDS Integers, Sequences

CONSTANTS
  Addr,     \* addresses as written
  NoAddr,   \* the zero netip.Addr: what does not parse
  Unmap     \* form -> address

ASSUME ProxyAssumption ==
  /\ NoAddr \notin Addr
  /\ Unmap \in [Addr -> Addr]
  /\ \A a \in Addr : Unmap[Unmap[a]] = Unmap[a]

Written == Addr \cup {NoAddr}

Header == [peer : Written, xff : Seq(Written), real : Written]

\* Faulty variant: the form is kept.
ParseAddrAsWritten(h) == h

ParseAddr(h) == IF h = NoAddr THEN NoAddr ELSE Unmap[h]

\* The entries of X-Forwarded-For that parse; the loops skip the others.
Hops(r) == {i \in DOMAIN r.xff : ParseAddr(r.xff[i]) # NoAddr}

\* Those that are not among our proxies.
Strangers(trusted, r) ==
  {i \in Hops(r) : ParseAddr(r.xff[i]) \notin trusted}

Largest(S)  == CHOOSE i \in S : \A j \in S : j <= i
Smallest(S) == CHOOSE i \in S : \A j \in S : i <= j

\* Faulty variant: the walk goes from left to right.
ForwardedFromLeft(trusted, r) ==
  ParseAddr(r.xff[Smallest(IF Strangers(trusted, r) # {}
                           THEN Strangers(trusted, r) ELSE Hops(r))])

\* The two loops over the header: from the right to the first entry that is
\* not trusted, and if there is none, from the left to the first at all.
Forwarded(trusted, r) ==
  IF Strangers(trusted, r) # {}
  THEN ParseAddr(r.xff[Largest(Strangers(trusted, r))])
  ELSE ParseAddr(r.xff[Smallest(Hops(r))])

FromRequest(trusted, r) ==
  LET peer == ParseAddr(r.peer) IN
  CASE peer \notin trusted                 -> peer
    [] peer \in trusted /\ Hops(r) # {}    -> Forwarded(trusted, r)
    [] OTHER -> IF r.real # NoAddr THEN ParseAddr(r.real) ELSE peer

----------------------------------------------------------------------------
\* The reference.  A proxy has written the entry next to its left; one that
\* is trusted vouches for it.  What does not parse says nothing.

Vouched(trusted, r, i) ==
  \A j \in DOMAIN r.xff :
    j > i => r.xff[j] = NoAddr \/ Unmap[r.xff[j]] \in trusted

\* The leftmost entry that is vouched for.
ChainEnd(trusted, r, i) ==
  /\ i \in DOMAIN r.xff /\ r.xff[i] # NoAddr /\ Vouched(trusted, r, i)
  /\ \A k \in 1 .. i - 1 : r.xff[k] # NoAddr => ~ Vouched(trusted, r, k)

\* The same header with other entries before the i-th.
Rewritten(r, i, left) == [r EXCEPT !.xff = left \o SubSeq(@, i, Len(@))]

\* What is recorded as the client of a request that came with header r.
IsClient(trusted, r, client) ==
  IF r.peer = NoAddr \/ Unmap[r.peer] \notin trusted
  THEN client = ParseAddr(r.peer)
  ELSE \/ \E i \in DOMAIN r.xff :
            ChainEnd(trusted, r, i) /\ client = Unmap[r.xff[i]]
       \/ /\ \A i \in DOMAIN r.xff : r.xff[i] = NoAddr
          /\ client = Unmap[IF r.real # NoAddr THEN r.real ELSE r.peer]

=============================================================================
