-------------------------- MODULE ResultsApiProofs --------------------------
(***************************************************************************)
(* The configuration is what the precedence says, an id that was handed    *)
(* out stays readable, a list is of the newest results, and the address    *)
(* given out is the end of the chain of proxies, whatever a client wrote   *)
(* to the left of a stranger: for every set of flags' values, of handlers, *)
(* results, ids and headers.                                               *)
(*                                                                         *)
(* The first part is about ProxyChain alone, the second about the order of *)
(* the rows.  The invariant of the third says how far each stage of Load   *)
(* has come, and that rows have names of their own.                        *)
(***************************************************************************)
EXTENDS ResultsApi, SequenceTheorems, FiniteSetTheorems, WellFoundedInduction, TLAPS

(* The chain of proxies.                                                   *)

\* A set of positions that is not empty has a first one.
LEMMA FirstExists ==
  ASSUME NEW S \in SUBSET Nat, S # {}
  PROVE  Smallest(S) \in S /\ \A j \in S : Smallest(S) <= j
<1>1. PICK x \in S : \A y \in S : <<y, x>> \notin OpToRel(<, Nat)
  BY NatLessThanWellFounded, WFMin, Zenon
<1>2. \A y \in S : ~ (y < x)
  BY <1>1, Zenon DEF OpToRel
<1>3. \A y \in S : x <= y
  BY <1>2
<1>4. QED
  BY <1>3 DEF Smallest

\* One that is also bounded has a last one: the first, seen from the bound.
LEMMA LastExists ==
  ASSUME NEW n \in Nat, NEW S \in SUBSET (1 .. n), S # {}
  PROVE  Largest(S) \in S /\ \A j \in S : j <= Largest(S)
<1> DEFINE Seen == {k \in 0 .. n : n - k \in S}
<1>1. Seen \in SUBSET Nat /\ Seen # {}
  <2>1. PICK j \in S : TRUE
    OBVIOUS
  <2>2. n - j \in 0 .. n /\ n - (n - j) = j
    BY <2>1
  <2>3. Seen # {}
    BY <2>2, Zenon
  <2>4. Seen \subseteq Nat
    OBVIOUS
  <2>5. QED
    BY <2>3, <2>4, Zenon
<1>2. Smallest(Seen) \in Seen /\ \A k \in Seen : Smallest(Seen) <= k
  BY <1>1, FirstExists
<1> DEFINE last == n - Smallest(Seen)
<1>3. last \in S
  BY <1>2
<1>4. ASSUME NEW j \in S PROVE j <= last
  <2>1. n - j \in Seen
    OBVIOUS
  <2>2. Smallest(Seen) <= n - j
    BY <1>2, <2>1
  <2>3. Smallest(Seen) \in 0 .. n
    BY <1>2
  <2>4. QED
    BY <2>2, <2>3
<1>5. QED
  BY <1>3, <1>4, Zenon DEF Largest

----------------------------------------------------------------------------
\* The entries of a header that parse, and what they parse to.
LEMMA HopsParse ==
  ASSUME NEW r \in Header
  PROVE  /\ Hops(r) = {i \in DOMAIN r.xff : r.xff[i] # NoAddr}
         /\ \A i \in Hops(r) : ParseAddr(r.xff[i]) = Unmap[r.xff[i]]
         /\ Hops(r) \subseteq 1 .. Len(r.xff) /\ Len(r.xff) \in Nat
         /\ \A h \in Written : ParseAddr(h) \in Written
<1>1. r.xff \in Seq(Written)
  BY DEF Header
<1>2. \A h \in Written : (ParseAddr(h) # NoAddr <=> h # NoAddr) /\ ParseAddr(h) \in Written
  BY ProxyAssumption DEF ParseAddr, Written
<1>3. \A i \in DOMAIN r.xff : r.xff[i] \in Written
  BY <1>1
<1>4. QED
  BY <1>1, <1>2, <1>3 DEF Hops, ParseAddr

\* A position is vouched for if there is no stranger to its right.
LEMMA VouchedNoStranger ==
  ASSUME NEW trusted \in SUBSET Addr, NEW r \in Header, NEW i \in Int
  PROVE  Vouched(trusted, r, i) <=> \A j \in Strangers(trusted, r) : j <= i
<1>1. r.xff \in Seq(Written)
  BY DEF Header
<1>2. DOMAIN r.xff \subseteq Int
  BY <1>1
<1>3. Strangers(trusted, r)
        = {j \in DOMAIN r.xff : r.xff[j] # NoAddr /\ Unmap[r.xff[j]] \notin trusted}
  BY HopsParse DEF Strangers
<1>4. QED
  BY <1>2, <1>3 DEF Vouched

\* The two loops find the end of the chain.
LEMMA ForwardedIsChainEnd ==
  ASSUME NEW trusted \in SUBSET Addr, NEW r \in Header, Hops(r) # {}
  PROVE  \E i \in DOMAIN r.xff :
           ChainEnd(trusted, r, i) /\ Forwarded(trusted, r) = Unmap[r.xff[i]]
<1> DEFINE T == Strangers(trusted, r)
           n == Len(r.xff)
<1>1. T \subseteq Hops(r)
  BY DEF Strangers
<1>2. /\ r.xff \in Seq(Written) /\ n \in Nat /\ DOMAIN r.xff = 1 .. n
      /\ Hops(r) \in SUBSET (1 .. n) /\ Hops(r) \in SUBSET Nat /\ T \in SUBSET (1 .. n)
  BY HopsParse, <1>1 DEF Header
<1>3. CASE T # {}
  <2> DEFINE i == Largest(T)
  <2>1. i \in T /\ \A j \in T : j <= i
    BY <1>2, <1>3, LastExists
  <2>2. i \in Int /\ i \in DOMAIN r.xff /\ r.xff[i] # NoAddr
    BY <1>1, <1>2, <2>1, HopsParse
  <2>3. Vouched(trusted, r, i)
    BY <2>1, <2>2, VouchedNoStranger
  <2>4. \A k \in 1 .. i - 1 : ~ Vouched(trusted, r, k)
    BY <2>1, <2>2, VouchedNoStranger
  <2>5. Forwarded(trusted, r) = Unmap[r.xff[i]]
    BY <1>1, <1>3, <2>1, HopsParse DEF Forwarded
  <2>6. QED
    BY <2>2, <2>3, <2>4, <2>5 DEF ChainEnd
<1>4. CASE T = {}
  <2> DEFINE i == Smallest(Hops(r))
  <2>1. i \in Hops(r) /\ \A j \in Hops(r) : i <= j
    BY <1>2, FirstExists
  <2>2. i \in Int /\ i \in DOMAIN r.xff /\ r.xff[i] # NoAddr
    BY <1>2, <2>1, HopsParse
  <2>3. Vouched(trusted, r, i)
    BY <1>4, <2>2, VouchedNoStranger
  <2>4. \A k \in 1 .. i - 1 : r.xff[k] = NoAddr
    BY <1>2, <2>1, <2>2, HopsParse
  <2>5. Forwarded(trusted, r) = Unmap[r.xff[i]]
    BY <1>4, <2>1, HopsParse DEF Forwarded
  <2>6. QED
    BY <2>2, <2>3, <2>4, <2>5 DEF ChainEnd
<1>5. QED
  BY <1>3, <1>4

(***************************************************************************)
(* Every request gets the address its chain of proxies ends in, whatever   *)
(* the header: the walk from the right and the one from the left together  *)
(* are the chain of trust, for every length of X-Forwarded-For.            *)
(***************************************************************************)
THEOREM RequestsGetTheirClient ==
  ASSUME NEW trusted \in SUBSET Addr, NEW r \in Header
  PROVE  IsClient(trusted, r, FromRequest(trusted, r))
<1>1. /\ r.peer \in Written /\ r.real \in Written
      /\ NoAddr \notin trusted
  BY ProxyAssumption DEF Header
<1>2. CASE ParseAddr(r.peer) \notin trusted
  <2>1. r.peer = NoAddr \/ Unmap[r.peer] \notin trusted
    BY <1>2 DEF ParseAddr
  <2>2. QED
    BY <1>2, <2>1 DEF IsClient, FromRequest
<1>3. CASE ParseAddr(r.peer) \in trusted
  <2>1. r.peer # NoAddr /\ Unmap[r.peer] \in trusted /\ ParseAddr(r.peer) = Unmap[r.peer]
    BY <1>1, <1>3 DEF ParseAddr
  <2>2. CASE Hops(r) # {}
    <3>1. FromRequest(trusted, r) = Forwarded(trusted, r)
      BY <1>3, <2>2 DEF FromRequest
    <3>2. QED
      BY <2>1, <2>2, <3>1, ForwardedIsChainEnd DEF IsClient
  <2>3. CASE Hops(r) = {}
    <3>1. \A i \in DOMAIN r.xff : r.xff[i] = NoAddr
      BY <2>3, HopsParse
    <3>2. FromRequest(trusted, r) = Unmap[IF r.real # NoAddr THEN r.real ELSE r.peer]
      BY <1>3, <2>1, <2>3 DEF FromRequest, ParseAddr
    <3>3. QED
      BY <2>1, <3>1, <3>2 DEF IsClient
  <2>4. QED
    BY <2>2, <2>3
<1>4. QED
  BY <1>2, <1>3

\* The part of a sequence from its i-th element on.
LEMMA RightPart ==
  ASSUME NEW S, NEW s \in Seq(S), NEW i \in 1 .. Len(s)
  PROVE  /\ SubSeq(s, i, Len(s)) \in Seq(S)
         /\ Len(SubSeq(s, i, Len(s))) = Len(s) - i + 1
         /\ \A k \in i .. Len(s) : SubSeq(s, i, Len(s))[k - i + 1] = s[k]
<1> DEFINE n == Len(s)
<1>1. i \in Int /\ n \in Int /\ i <= n /\ \A k \in i .. n : s[k] \in S
  OBVIOUS
<1> HIDE DEF n
<1>2. /\ SubSeq(s, i, n) \in Seq(S)
      /\ Len(SubSeq(s, i, n)) = IF i <= n THEN n - i + 1 ELSE 0
      /\ \A l \in 1 .. n - i + 1 : SubSeq(s, i, n)[l] = s[i + l - 1]
  BY <1>1, SubSeqProperties
<1>3. ASSUME NEW k \in i .. n PROVE k - i + 1 \in 1 .. n - i + 1 /\ i + (k - i + 1) - 1 = k
  BY <1>1
<1>4. \A k \in i .. n : SubSeq(s, i, n)[k - i + 1] = s[k]
  BY <1>2, <1>3
<1>5. QED
  BY <1>1, <1>2, <1>4 DEF n

\* The i-th and later elements behind other ones.
LEMMA RightPartMoved ==
  ASSUME NEW S, NEW s \in Seq(S), NEW i \in 1 .. Len(s), NEW left \in Seq(S)
  PROVE  LET whole == left \o SubSeq(s, i, Len(s))
         IN  /\ whole \in Seq(S)
             /\ Len(whole) = Len(left) + (Len(s) - i + 1)
             /\ \A k \in i .. Len(s) : whole[Len(left) + (k - i + 1)] = s[k]
<1> DEFINE n == Len(s)
           m == Len(left)
           right == SubSeq(s, i, n)
           whole == left \o right
<1>1. i \in Int /\ n \in Nat /\ m \in Nat
  OBVIOUS
<1>2. /\ right \in Seq(S) /\ Len(right) = n - i + 1
      /\ \A k \in i .. n : right[k - i + 1] = s[k]
  BY RightPart
<1> HIDE DEF n, m, right
<1>3. /\ whole \in Seq(S) /\ Len(whole) = m + (n - i + 1)
      /\ \A l \in 1 .. m + (n - i + 1) :
            whole[l] = IF l <= m THEN left[l] ELSE right[l - m]
  <2>1. /\ whole \in Seq(S) /\ Len(whole) = m + Len(right)
        /\ \A l \in 1 .. m + Len(right) :
              whole[l] = IF l <= m THEN left[l] ELSE right[l - m]
    BY <1>2, ConcatProperties, Zenon DEF m
  <2>2. QED
    BY <1>2, <2>1, Zenon
<1> HIDE DEF whole
<1>4. ASSUME NEW k \in i .. n PROVE whole[m + (k - i + 1)] = s[k]
  <2>0. k \in Int /\ i <= k /\ k <= n
    BY <1>1
  <2>1. /\ m + (k - i + 1) \in 1 .. m + (n - i + 1) /\ ~ (m + (k - i + 1) <= m)
        /\ (m + (k - i + 1)) - m = k - i + 1
    BY <1>1, <2>0
  <2>2. whole[m + (k - i + 1)] = right[k - i + 1]
    BY <1>3, <2>1, Zenon
  <2>3. QED
    BY <1>2, <2>2
<1>5. QED
  BY <1>3, <1>4, Zenon DEF n, m, right, whole

\* What a header looks like after its entries before the i-th were replaced.
LEMMA RewrittenEntries ==
  ASSUME NEW r \in Header, NEW i \in DOMAIN r.xff, NEW left \in Seq(Written)
  PROVE  LET new == Rewritten(r, i, left)
         IN  /\ new \in Header /\ new.peer = r.peer /\ new.real = r.real
             /\ Len(new.xff) = Len(left) + (Len(r.xff) - i + 1)
             /\ \A k \in i .. Len(r.xff) : new.xff[Len(left) + (k - i + 1)] = r.xff[k]
<1> DEFINE s     == r.xff
           whole == left \o SubSeq(s, i, Len(s))
<1>1. s \in Seq(Written) /\ i \in 1 .. Len(s)
  BY DEF Header
<1>2. /\ whole \in Seq(Written)
      /\ Len(whole) = Len(left) + (Len(s) - i + 1)
      /\ \A k \in i .. Len(s) : whole[Len(left) + (k - i + 1)] = s[k]
  <2> HIDE DEF s
  <2>1. QED
    BY <1>1, RightPartMoved
<1>3. Rewritten(r, i, left) = [r EXCEPT !.xff = whole]
  BY Zenon DEF Rewritten
<1> HIDE DEF whole
<1>4. /\ [r EXCEPT !.xff = whole] \in Header
      /\ [r EXCEPT !.xff = whole].xff = whole
      /\ [r EXCEPT !.xff = whole].peer = r.peer /\ [r EXCEPT !.xff = whole].real = r.real
  BY <1>2 DEF Header
<1>5. QED
  BY <1>2, <1>3, <1>4, Zenon

(***************************************************************************)
(* What stands to the left of the last stranger in X-Forwarded-For was     *)
(* under a client's control, and it makes no difference: however many      *)
(* entries, and whichever, the client puts there, its address is the same. *)
(***************************************************************************)
THEOREM LeftIsIgnored ==
  ASSUME NEW trusted \in SUBSET Addr, NEW r \in Header, NEW left \in Seq(Written),
         NEW i \in Strangers(trusted, r), Vouched(trusted, r, i)
  PROVE  FromRequest(trusted, Rewritten(r, i, left)) = FromRequest(trusted, r)
<1> DEFINE new == Rewritten(r, i, left)
           m == Len(left) + 1
<1>1. /\ r.xff \in Seq(Written) /\ DOMAIN r.xff = 1 .. Len(r.xff) /\ Len(r.xff) \in Nat
      /\ i \in DOMAIN r.xff /\ i \in Int /\ r.xff[i] # NoAddr
      /\ Unmap[r.xff[i]] \notin trusted
      /\ Len(left) \in Nat
  BY HopsParse DEF Strangers, Header
<1>2. /\ new \in Header /\ new.peer = r.peer /\ new.real = r.real
      /\ Len(new.xff) = Len(left) + (Len(r.xff) - i + 1)
      /\ \A k \in i .. Len(r.xff) : new.xff[Len(left) + (k - i + 1)] = r.xff[k]
  BY <1>1, RewrittenEntries, Zenon
<1>3. new.xff \in Seq(Written) /\ DOMAIN new.xff = 1 .. Len(new.xff)
  BY <1>2 DEF Header
<1>4. new.xff[m] = r.xff[i] /\ m \in DOMAIN new.xff
  <2>1. /\ i \in i .. Len(r.xff) /\ Len(left) + (i - i + 1) = m
        /\ m \in 1 .. Len(left) + (Len(r.xff) - i + 1)
    BY <1>1
  <2>2. new.xff[Len(left) + (i - i + 1)] = r.xff[i]
    BY <1>2, <2>1, Zenon
  <2> HIDE DEF new, m
  <2>3. QED
    BY <1>2, <1>3, <2>1, <2>2, Zenon
<1>5. m \in Strangers(trusted, new)
  BY <1>1, <1>2, <1>4, HopsParse DEF Strangers
<1>6. ASSUME NEW j \in Strangers(trusted, new) PROVE j <= m
  <2>1. /\ j \in DOMAIN new.xff /\ new.xff[j] # NoAddr
        /\ Unmap[new.xff[j]] \notin trusted
    BY <1>2, HopsParse DEF Strangers
  <2>2. SUFFICES ASSUME j > m PROVE FALSE
    BY <1>1, <1>3, <2>1
  <2>3. PICK k \in i .. Len(r.xff) : j = Len(left) + (k - i + 1) /\ k > i
    <3>1. j \in Int /\ j <= Len(left) + (Len(r.xff) - i + 1) /\ j > Len(left) + 1
      BY <1>1, <1>2, <1>3, <2>1, <2>2
    <3> DEFINE c == Len(left)
               n == Len(r.xff)
    <3>2. c \in Nat /\ n \in Nat /\ i \in Int
      BY <1>1
    <3> HIDE DEF c, n
    <3>3. /\ j - c + i - 1 \in i .. n /\ j - c + i - 1 > i
          /\ j = c + ((j - c + i - 1) - i + 1)
      BY <3>1, <3>2 DEF c, n
    <3>4. QED
      BY <3>3, Zenon DEF c, n
  <2>4. new.xff[j] = r.xff[k]
    BY <1>2, <2>3
  <2>5. k \in DOMAIN r.xff
    BY <1>1, <2>3
  <2>6. r.xff[k] = NoAddr \/ Unmap[r.xff[k]] \in trusted
    BY <1>1, <2>3, <2>5 DEF Vouched
  <2>7. QED
    BY <2>1, <2>4, <2>6
<1>7. Largest(Strangers(trusted, new)) = m
  <2>1. Strangers(trusted, new) \in SUBSET (1 .. Len(new.xff)) /\ Len(new.xff) \in Nat
    BY <1>2, HopsParse DEF Strangers
  <2>2. /\ Largest(Strangers(trusted, new)) \in Strangers(trusted, new)
        /\ m <= Largest(Strangers(trusted, new))
    BY <1>5, <2>1, LastExists
  <2>3. QED
    BY <1>1, <1>6, <2>1, <2>2
<1>8. Largest(Strangers(trusted, r)) = i
  <2>1. Strangers(trusted, r) \in SUBSET (1 .. Len(r.xff))
    BY HopsParse DEF Strangers
  <2>2. /\ Largest(Strangers(trusted, r)) \in Strangers(trusted, r)
        /\ i <= Largest(Strangers(trusted, r))
    BY <1>1, <2>1, LastExists
  <2>3. \A j \in Strangers(trusted, r) : j <= i
    BY <1>1, VouchedNoStranger
  <2>4. QED
    BY <1>1, <2>1, <2>2, <2>3
<1>9. Forwarded(trusted, new) = Forwarded(trusted, r)
  BY <1>4, <1>5, <1>7, <1>8 DEF Forwarded
<1>10. Hops(new) # {} /\ Hops(r) # {}
  BY <1>5 DEF Strangers
<1>11. QED
  BY <1>2, <1>9, <1>10 DEF FromRequest

----------------------------------------------------------------------------
(* The order of the rows.                                                  *)

LEMMA StampsCited ==
  ASSUME rows \in Seq(Result)
  PROVE  /\ Len(rows) \in Nat /\ DOMAIN rows = 1 .. Len(rows)
         /\ \A n \in DOMAIN rows :
              rows[n].stamp.local \in Nat /\ rows[n].stamp.zone \in {"+", "-", "Z"}
              /\ rows[n].stamp \in Stamp
<1>1. \A n \in DOMAIN rows : rows[n] \in Result
  OBVIOUS
<1>2. \A r \in Result : r.stamp \in Stamp
  BY DEF Result
<1>3. \A s \in Stamp : s.local \in Nat /\ s.zone \in {"+", "-", "Z"}
  BY DEF Stamp, Zone
<1>4. QED
  BY <1>1, <1>2, <1>3

\* Texts are in a strict order, and two that neither precedes are the same.
LEMMA TextOrder ==
  ASSUME NEW s \in Stamp, NEW t \in Stamp, NEW u \in Stamp
  PROVE  /\ TextBefore(s, t) \/ TextBefore(t, s) \/ s = t
         /\ ~ (TextBefore(s, t) /\ TextBefore(t, s)) /\ ~ TextBefore(s, s)
         /\ TextBefore(s, t) /\ TextBefore(t, u) => TextBefore(s, u)
<1>1. \A x \in Stamp : x.local \in Nat /\ ZoneRank(x.zone) \in 1 .. 3
  BY DEF Stamp, Zone, ZoneRank
<1>2. ZoneRank(s.zone) = ZoneRank(t.zone) => s.zone = t.zone
  BY DEF Stamp, Zone, ZoneRank
<1>3. s.local = t.local /\ s.zone = t.zone => s = t
  BY DEF Stamp
<1>4. QED
  BY <1>1, <1>2, <1>3 DEF TextBefore

\* So are the rows: any two differ, if not in their stamps then in rowid.
LEMMA RowOrder ==
  ASSUME rows \in Seq(Result), NEW n \in DOMAIN rows, NEW m \in DOMAIN rows,
         NEW l \in DOMAIN rows
  PROVE  /\ n # m => ListBefore(n, m) \/ ListBefore(m, n)
         /\ ~ ListBefore(n, n) /\ ~ (ListBefore(n, m) /\ ListBefore(m, n))
         /\ ListBefore(n, m) /\ ListBefore(m, l) => ListBefore(n, l)
<1>1. n \in Nat /\ m \in Nat /\ l \in Nat
  BY StampsCited
<1>2. rows[n].stamp \in Stamp /\ rows[m].stamp \in Stamp /\ rows[l].stamp \in Stamp
  BY StampsCited
<1> DEFINE s == rows[n].stamp
           t == rows[m].stamp
           u == rows[l].stamp
<1>3. /\ TextBefore(s, t) \/ TextBefore(t, s) \/ s = t
      /\ ~ (TextBefore(s, t) /\ TextBefore(t, s)) /\ ~ TextBefore(s, s)
      /\ TextBefore(u, t) /\ TextBefore(t, s) => TextBefore(u, s)
  <2> HIDE DEF s, t, u
  <2>1. s \in Stamp /\ t \in Stamp /\ u \in Stamp
    BY <1>2 DEF s, t, u
  <2>2. QED
    BY <2>1, TextOrder
<1>4. /\ ListBefore(n, m) <=> TextBefore(t, s) \/ (s = t /\ n > m)
      /\ ListBefore(m, n) <=> TextBefore(s, t) \/ (t = s /\ m > n)
      /\ ListBefore(n, n) <=> TextBefore(s, s) \/ (s = s /\ n > n)
      /\ ListBefore(m, l) <=> TextBefore(u, t) \/ (t = u /\ m > l)
      /\ ListBefore(n, l) <=> TextBefore(u, s) \/ (s = u /\ n > l)
  BY DEF ListBefore
<1> HIDE DEF s, t, u
<1>5. QED
  BY <1>1, <1>3, <1>4

\* A row that comes before another has the smaller place.
LEMMA PlacesAscend ==
  ASSUME rows \in Seq(Result), NEW n \in DOMAIN rows
  PROVE  /\ Place(n) \in DOMAIN rows
         /\ \A m \in DOMAIN rows : ListBefore(m, n) => Place(m) < Place(n)
<1> DEFINE D         == DOMAIN rows
           Before(m) == {k \in D : ListBefore(k, m)}
<1>1. D = 1 .. Len(rows) /\ Len(rows) \in Nat /\ IsFiniteSet(D) /\ Cardinality(D) = Len(rows)
  <2>1. D = 1 .. Len(rows) /\ Len(rows) \in Nat
    BY StampsCited
  <2>2. \A k \in Nat : 1 \in Int /\ k \in Int /\ (IF 1 > k THEN 0 ELSE k - 1 + 1) = k
    OBVIOUS
  <2>3. IsFiniteSet(1 .. Len(rows)) /\ Cardinality(1 .. Len(rows)) = Len(rows)
    BY <2>1, <2>2, FS_Interval, Zenon
  <2>4. QED
    BY <2>1, <2>3, Zenon
<1>2. \A m \in D : Place(m) = 1 + Cardinality(Before(m))
  BY DEF Place
<1>3. \A m \in D : m \notin Before(m)
  BY RowOrder
<1> HIDE DEF D
<1>4. ASSUME NEW m \in D
      PROVE  IsFiniteSet(Before(m)) /\ Cardinality(Before(m)) \in Nat
  <2>1. Before(m) \in SUBSET D
    OBVIOUS
  <2> HIDE DEF Before
  <2>2. QED
    BY <1>1, <2>1, FS_Subset, FS_CardinalityType
<1>5. Cardinality(Before(n)) < Len(rows)
  <2>1. Before(n) \in SUBSET D /\ Before(n) # D /\ n \in D
    BY <1>3 DEF D
  <2> HIDE DEF Before
  <2>2. Cardinality(Before(n)) <= Cardinality(D) /\ Cardinality(D) # Cardinality(Before(n))
    BY <1>1, <2>1, FS_Subset
  <2>3. Cardinality(Before(n)) \in Nat
    BY <1>4, <2>1, Zenon
  <2>4. QED
    BY <1>1, <2>2, <2>3
<1>6. Place(n) \in D
  <2> DEFINE c == Cardinality(Before(n))
  <2>1. c \in Nat /\ c < Len(rows) /\ Place(n) = 1 + c
    BY <1>2, <1>4, <1>5, Zenon DEF D
  <2> HIDE DEF c
  <2>2. QED
    BY <1>1, <2>1
<1>7. ASSUME NEW m \in D, ListBefore(m, n) PROVE Place(m) < Place(n)
  <2>1. Before(m) \subseteq Before(n)
    BY <1>7, RowOrder DEF D
  <2>2. m \in Before(n) /\ m \notin Before(m) /\ n \in D
    BY <1>3, <1>7 DEF D
  <2> HIDE DEF Before
  <2>3. Cardinality(Before(m)) <= Cardinality(Before(n))
    BY <1>4, <2>1, <2>2, FS_Subset
  <2>4. Cardinality(Before(n)) # Cardinality(Before(m))
    BY <1>4, <2>1, <2>2, FS_Subset
  <2>5. Cardinality(Before(m)) \in Nat /\ Cardinality(Before(n)) \in Nat
    BY <1>4, <2>2
  <2>6. QED
    BY <1>2, <2>2, <2>3, <2>4, <2>5
<1>8. QED
  BY <1>6, <1>7 DEF D

\* Each place is one row's.
LEMMA PlacesAreTaken ==
  ASSUME rows \in Seq(Result)
  PROVE  /\ \A n, m \in DOMAIN rows : Place(n) = Place(m) => n = m
         /\ \A k \in DOMAIN rows : \E n \in DOMAIN rows : Place(n) = k
<1> DEFINE D == DOMAIN rows
           place == [n \in D |-> Place(n)]
<1>1. ASSUME NEW n \in D, NEW m \in D, Place(n) = Place(m) PROVE n = m
  <2>1. /\ n # m => ListBefore(n, m) \/ ListBefore(m, n)
        /\ ListBefore(n, m) => Place(n) < Place(m)
        /\ ListBefore(m, n) => Place(m) < Place(n)
    BY RowOrder, PlacesAscend
  <2>2. Place(n) \in Int /\ Place(m) \in Int
    BY PlacesAscend, StampsCited
  <2>3. QED
    BY <1>1, <2>1, <2>2
<1>2. \A n \in D : Place(n) \in D
  BY PlacesAscend
<1>3. IsFiniteSet(D)
  BY StampsCited, FS_Interval
<1> HIDE DEF D
<1>4. place \in Injection(D, D)
  <2>1. place \in [D -> D]
    BY <1>2
  <2>2. ASSUME NEW n \in D, NEW m \in D, place[n] = place[m] PROVE n = m
    <3>1. place[n] = Place(n) /\ place[m] = Place(m)
      OBVIOUS
    <3>2. QED
      BY <1>1, <2>2, <3>1, Zenon
  <2>3. QED
    BY <2>1, <2>2, Zenon DEF Injection, IsInjective
<1>5. place \in Surjection(D, D)
  <2> HIDE DEF place
  <2>1. QED
    BY <1>3, <1>4, FS_Injection
<1>6. ASSUME NEW k \in D PROVE \E n \in D : Place(n) = k
  <2>1. \E n \in D : place[n] = k
    <3> HIDE DEF place
    <3>1. QED
      BY <1>5 DEF Surjection
  <2>2. QED
    BY <2>1
<1>7. QED
  BY <1>1, <1>6 DEF D

\* What a list holds, of results stamped in UTC.
LEMMA ListHoldsNewest ==
  ASSUME rows \in Seq(Result), NEW limit \in Nat \ {0}
  PROVE  LET list == List(limit)
         IN  /\ list \in Seq(DOMAIN rows)
             /\ Len(list) = IF limit < Len(rows) THEN limit ELSE Len(rows)
             /\ \A k \in DOMAIN list, m \in DOMAIN rows :
                   (InUTC(list[k]) /\ InUTC(m) /\ Newer(m, list[k])) =>
                      \E j \in 1 .. k - 1 : list[j] = m
<1> DEFINE D == DOMAIN rows
           list == List(limit)
           size == IF limit < Len(rows) THEN limit ELSE Len(rows)
<1>1. Len(rows) \in Nat /\ D = 1 .. Len(rows) /\ size \in Nat /\ size <= Len(rows)
  BY StampsCited
<1>2. list = [k \in 1 .. size |-> CHOOSE n \in D : Place(n) = k]
  <2>1. {j \in 1 .. Len(rows) : j <= limit} = 1 .. size
    BY <1>1
  <2>2. QED
    BY <2>1, Zenon DEF List
<1>3. ASSUME NEW k \in 1 .. size PROVE list[k] \in D /\ Place(list[k]) = k
  <2>1. \E n \in D : Place(n) = k
    BY <1>1, PlacesAreTaken
  <2>2. list[k] = CHOOSE n \in D : Place(n) = k
    BY <1>2, Zenon
  <2>3. QED
    BY <2>1, <2>2, Zenon
<1>4. list \in Seq(D) /\ Len(list) = size /\ DOMAIN list = 1 .. size
  <2> HIDE DEF size, D
  <2>1. list \in [1 .. size -> D]
    <3>1. DOMAIN list = 1 .. size /\ list = [k \in 1 .. size |-> list[k]]
      BY <1>2
    <3>2. QED
      BY <1>3, <3>1, Zenon
  <2> HIDE DEF list
  <2>2. QED
    BY <1>1, <2>1
<1>5. ASSUME NEW k \in 1 .. size, NEW m \in D,
             InUTC(list[k]), InUTC(m), Newer(m, list[k])
      PROVE  \E j \in 1 .. k - 1 : list[j] = m
  <2> DEFINE n == list[k]
  <2>1. n \in D /\ Place(n) = k
    BY <1>3
  <2> HIDE DEF list
  <2>2. ListBefore(m, n)
    <3> DEFINE s == rows[n].stamp
               t == rows[m].stamp
    <3>1. s.zone = "Z" /\ t.zone = "Z"
      BY <1>5 DEF InUTC
    <3>2. s \in Stamp /\ t \in Stamp
      BY <2>1, StampsCited
    <3>3. Instant(s) = s.local /\ Instant(t) = t.local
      BY <3>1 DEF Instant
    <3>4. Instant(t) > Instant(s) \/ (Instant(t) = Instant(s) /\ m > n)
      BY <1>5 DEF Newer
    <3>5. s.local = t.local => s = t
      <4> HIDE DEF s, t
      <4>1. QED
        BY <3>1, <3>2 DEF Stamp
    <3>6. t.local > s.local \/ (s = t /\ m > n)
      BY <3>3, <3>4, <3>5
    <3>7. t.local > s.local => TextBefore(s, t)
      BY <3>2 DEF TextBefore, Stamp
    <3>8. QED
      BY <3>6, <3>7 DEF ListBefore
  <2>3. Place(m) < k /\ Place(m) \in D
    BY <2>1, <2>2, PlacesAscend
  <2>4. Place(m) \in 1 .. k - 1 /\ Place(m) \in 1 .. size
    BY <1>1, <2>3
  <2>5. list[Place(m)] = m
    BY <1>3, <2>4, PlacesAreTaken
  <2>6. QED
    BY <2>4, <2>5
<1>6. QED
  BY <1>4, <1>5

----------------------------------------------------------------------------
(* The configuration and the results.                                      *)

\* The configuration at each stage of Load.
Merging ==
  /\ stage = "start" => cfg = Defaults /\ explicit = {}
  /\ stage = "parsed" =>
       /\ Readable(args, Given(args)) /\ explicit = Given(args)
       /\ cfg = [f \in Flag |-> IF f \in Given(args) THEN args[f] ELSE Defaults[f]]
  /\ stage \in {"merged", "profiled", "loaded"} =>
       /\ Readable(args, Given(args)) /\ Readable(env, Given(env) \ Given(args))
       /\ explicit = Given(args) \cup Given(env)
  /\ stage = "merged" => cfg = [f \in Flag |-> Wanted(f)]
  /\ stage \in {"profiled", "loaded"} => cfg = [f \in Flag |-> Effective(f)]
  /\ stage = "loaded" => Valid(cfg)
  /\ stage = "failed" => ~ Acceptable

Sources ==
  stage # "serving" => args \in SourceOf(ArgsOffer) /\ env \in SourceOf(EnvOffer)

Networks == stage = "serving" => cfg.proxies \in SUBSET Addr

\* Two rows never have one name, and every result answered for has a row.
Stored ==
  /\ \A m, n \in DOMAIN rows : rows[m].id = rows[n].id => m = n
  /\ cfg.telemetry = "sqlite" => \A r \in answered : \E n \in DOMAIN rows : rows[n] = r
  /\ stage # "serving" => answered = {} /\ reply = Nothing

Addressed ==
  reply.kind = "ip" =>
    stage = "serving" /\ reply.header \in Header
      /\ reply.client = FromRequest(cfg.proxies, reply.header)

ConfigInv == ApiTypeOK /\ Sources /\ Merging /\ Networks

ApiIInv == ConfigInv /\ Stored /\ Addressed

----------------------------------------------------------------------------
LEMMA FlagsCited ==
  Flag = {"rate", "burst", "mode", "telemetry", "token", "streams", "proxies"}
BY DEF Flag, Limit

LEMMA SourcesAreFunctions ==
  ASSUME NEW offer, NEW s \in SourceOf(offer)
  PROVE  DOMAIN s = Flag /\ s.proxies \in offer.proxies \cup {Absent}
BY FlagsCited DEF SourceOf

\* The form of everything a stage makes of the configuration.
LEMMA ReadableMeans ==
  ASSUME NEW s, NEW flags \in SUBSET Flag, Readable(s, flags), NEW f \in flags
  PROVE  s[f] # Unreadable
BY DEF Readable

\* What is wanted of a flag depends on the sources alone.
LEMMA AcceptableStays ==
  ASSUME UNCHANGED <<args, env>> PROVE Acceptable' <=> Acceptable
<1> DEFINE c == [f \in Flag |-> Effective(f)]
<1>1. \A f : Wanted(f)' = Wanted(f)
  BY DEF Wanted, Given
<1>2. c' = c
  BY <1>1 DEF Effective, Given
<1>3. Acceptable <=> /\ \A f \in Flag : args[f] # Unreadable /\ Wanted(f) # Unreadable
                     /\ Valid(c)
  BY DEF Acceptable
<1>4. Acceptable' <=> /\ \A f \in Flag : args'[f] # Unreadable /\ Wanted(f)' # Unreadable
                      /\ Valid(c)'
  BY DEF Acceptable
<1>5. Valid(c)' <=> Valid(c)
  <2> HIDE DEF c
  <2>1. QED
    BY <1>2 DEF Valid
<1> HIDE DEF c
<1>6. QED
  BY <1>1, <1>3, <1>4, <1>5

\* Once both sources were read, nothing that a flag ends up as is unreadable.
LEMMA AcceptableMeansValid ==
  ASSUME Readable(args, Given(args)), Readable(env, Given(env) \ Given(args))
  PROVE  Acceptable <=> Valid([f \in Flag |-> Effective(f)])
<1>1. \A f \in Flag : args[f] # Unreadable
  BY SettingsAssumption DEF Readable, Given
<1>2. ASSUME NEW f \in Flag PROVE Wanted(f) # Unreadable
  <2>1. CASE f \in Given(args)
    BY <2>1 DEF Wanted, Readable
  <2>2. CASE f \in Given(env) \ Given(args)
    BY <2>2 DEF Wanted, Readable
  <2>3. CASE f \notin Given(args) \cup Given(env)
    BY <2>3, SettingsAssumption DEF Wanted
  <2>4. QED
    BY <2>1, <2>2, <2>3
<1>3. QED
  BY <1>1, <1>2 DEF Acceptable

----------------------------------------------------------------------------
\* Load, stage by stage.
LEMMA ParseArgsMerging ==
  ASSUME Merging, DOMAIN cfg = Flag, ParseArgs
  PROVE  Merging' /\ DOMAIN cfg' = Flag /\ explicit' \subseteq Flag
<1>1. stage = "start" /\ cfg = Defaults /\ explicit = {} /\ Given(args) \subseteq Flag
  BY DEF ParseArgs, Merging, Given
<1>2. CASE Readable(args, Given(args))
  <2>1. /\ cfg' = Overridden(args, Given(args)) /\ explicit' = Given(args)
        /\ stage' = "parsed" /\ args' = args /\ env' = env
    BY <1>2 DEF ParseArgs
  <2>2. cfg' = [f \in Flag |-> IF f \in Given(args) THEN args[f] ELSE Defaults[f]]
    BY <1>1, <2>1 DEF Overridden
  <2>3. QED
    BY <1>1, <1>2, <2>1, <2>2 DEF Merging, Readable, Given
<1>3. CASE ~ Readable(args, Given(args))
  <2>1. stage' = "failed" /\ UNCHANGED <<args, env, cfg, explicit>>
    BY <1>3 DEF ParseArgs, FailLoad
  <2>2. ~ Acceptable
    BY <1>1, <1>3 DEF Readable, Acceptable
  <2>3. ~ Acceptable'
    BY <2>1, <2>2, AcceptableStays
  <2>4. QED
    BY <1>1, <2>1, <2>3 DEF Merging
<1>4. QED
  BY <1>2, <1>3

LEMMA MergeEnvMerging ==
  ASSUME Merging, DOMAIN cfg = Flag, MergeEnv
  PROVE  Merging' /\ DOMAIN cfg' = Flag /\ explicit' \subseteq Flag
<1>1. /\ stage = "parsed" /\ Readable(args, Given(args)) /\ explicit = Given(args)
      /\ cfg = [f \in Flag |-> IF f \in Given(args) THEN args[f] ELSE Defaults[f]]
      /\ Given(args) \subseteq Flag /\ Given(env) \subseteq Flag
  BY DEF MergeEnv, Merging, Given
<1> DEFINE merged == Given(env) \ Given(args)
<1>2. CASE Readable(env, merged)
  <2>1. /\ cfg' = Overridden(env, merged) /\ explicit' = explicit \cup merged
        /\ stage' = "merged" /\ args' = args /\ env' = env
    BY <1>1, <1>2 DEF MergeEnv
  <2>2. cfg' = [f \in Flag |-> Wanted(f)]
    BY <1>1, <2>1 DEF Overridden, Wanted
  <2>3. \A f : Wanted(f)' = Wanted(f)
    BY <2>1 DEF Wanted, Given
  <2>4. explicit' = Given(args) \cup Given(env)
    BY <1>1, <2>1
  <2>5. QED
    BY <1>1, <1>2, <2>1, <2>2, <2>3, <2>4 DEF Merging, Readable, Given, Wanted
<1>3. CASE ~ Readable(env, merged)
  <2>1. stage' = "failed" /\ UNCHANGED <<args, env, cfg, explicit>>
    BY <1>1, <1>3 DEF MergeEnv, FailLoad
  <2>2. ~ Acceptable
    <3>1. PICK f \in merged : env[f] = Unreadable
      BY <1>3 DEF Readable
    <3>2. Wanted(f) = Unreadable /\ f \in Flag
      BY <1>1, <3>1 DEF Wanted
    <3>3. QED
      BY <3>2 DEF Acceptable
  <2>3. ~ Acceptable'
    BY <2>1, <2>2, AcceptableStays
  <2>4. QED
    BY <1>1, <2>1, <2>3 DEF Merging
<1>4. QED
  BY <1>2, <1>3

LEMMA ApplyProfileMerging ==
  ASSUME Merging, DOMAIN cfg = Flag, ApplyProfile
  PROVE  Merging' /\ DOMAIN cfg' = Flag
<1>1. /\ stage = "merged" /\ Readable(args, Given(args))
      /\ Readable(env, Given(env) \ Given(args))
      /\ explicit = Given(args) \cup Given(env) /\ cfg = [f \in Flag |-> Wanted(f)]
  BY DEF ApplyProfile, Merging
<1>2. /\ cfg' = [f \in Flag |-> IF cfg.mode = "lan" /\ f \in Limit \ explicit
                                THEN 0 ELSE cfg[f]]
      /\ stage' = "profiled" /\ UNCHANGED <<args, env, explicit>>
  BY DEF ApplyProfile
<1>3. cfg.mode = Wanted("mode")
  BY <1>1, FlagsCited
<1>4. cfg' = [f \in Flag |-> Effective(f)]
  BY <1>1, <1>2, <1>3 DEF Effective
<1>5. \A f : Effective(f)' = Effective(f)
  BY <1>2 DEF Effective, Wanted, Given
<1>6. QED
  BY <1>1, <1>2, <1>4, <1>5 DEF Merging, Readable, Given

LEMMA ValidateMerging ==
  ASSUME Merging, Validate
  PROVE  Merging'
<1>1. /\ stage = "profiled" /\ Readable(args, Given(args))
      /\ Readable(env, Given(env) \ Given(args))
      /\ explicit = Given(args) \cup Given(env) /\ cfg = [f \in Flag |-> Effective(f)]
      /\ UNCHANGED <<args, env, cfg, explicit>>
  BY DEF Validate, Merging, FailLoad
<1>2. \A f : Effective(f)' = Effective(f)
  BY <1>1 DEF Effective, Wanted, Given
<1>3. CASE Valid(cfg)
  BY <1>1, <1>2, <1>3 DEF Validate, Merging, Readable, Given, Valid
<1>4. CASE ~ Valid(cfg)
  <2>1. ~ Acceptable
    BY <1>1, <1>4, AcceptableMeansValid
  <2>2. ~ Acceptable'
    BY <1>1, <2>1, AcceptableStays
  <2>3. stage' = "failed"
    BY <1>4 DEF Validate, FailLoad
  <2>4. QED
    BY <2>2, <2>3 DEF Merging
<1>5. QED
  BY <1>3, <1>4

LEMMA LoadConfig ==
  ASSUME ConfigInv, Loading
  PROVE  ConfigInv'
<1>1. UNCHANGED <<args, env, now, saving, reply, answered, rows>>
  BY DEF Loading, avars, Load, ParseArgs, MergeEnv, ApplyProfile, Validate, FailLoad
<1>2. Merging' /\ DOMAIN cfg' = Flag /\ explicit' \subseteq Flag
  <2>1. Merging /\ DOMAIN cfg = Flag /\ explicit \subseteq Flag
    BY DEF ConfigInv, ApiTypeOK
  <2>2. CASE ParseArgs
    BY <2>1, <2>2, ParseArgsMerging
  <2>3. CASE MergeEnv
    BY <2>1, <2>3, MergeEnvMerging
  <2>4. CASE ApplyProfile
    <3>1. explicit' = explicit
      BY <2>4 DEF ApplyProfile
    <3>2. QED
      BY <2>1, <2>4, <3>1, ApplyProfileMerging
  <2>5. CASE Validate
    <3>1. cfg' = cfg /\ explicit' = explicit
      BY <2>5 DEF Validate, FailLoad
    <3>2. QED
      BY <2>1, <2>5, <3>1, ValidateMerging
  <2>6. QED
    BY <2>2, <2>3, <2>4, <2>5 DEF Loading, Load
<1>3. stage # "serving" /\ stage' \in {"parsed", "merged", "profiled", "loaded", "failed"}
  BY DEF Loading, Load, ParseArgs, MergeEnv, ApplyProfile, Validate, FailLoad
<1>4. ApiTypeOK'
  BY <1>1, <1>2, <1>3 DEF ConfigInv, ApiTypeOK
<1>5. Sources' /\ Networks'
  BY <1>1, <1>3 DEF ConfigInv, Sources, Networks
<1>6. QED
  BY <1>2, <1>4, <1>5 DEF ConfigInv

\* A configuration that was accepted names networks.
LEMMA LoadedNetworks ==
  ASSUME ConfigInv, stage = "loaded"
  PROVE  cfg.proxies \in SUBSET Addr
<1>1. /\ args \in SourceOf(ArgsOffer) /\ env \in SourceOf(EnvOffer)
      /\ Valid(cfg) /\ cfg = [f \in Flag |-> Effective(f)] /\ "proxies" \in Flag
  BY FlagsCited DEF ConfigInv, Sources, Merging
<1>2. /\ args.proxies \in ArgsOffer.proxies \cup {Absent}
      /\ env.proxies \in EnvOffer.proxies \cup {Absent}
  BY <1>1, SourcesAreFunctions
<1>3. cfg.proxies = Wanted("proxies")
  BY <1>1 DEF Effective, Limit
<1>4. Wanted("proxies") \in (SUBSET Addr) \cup {NoNetwork}
  <2>1. CASE "proxies" \in Given(args)
    BY <1>2, <2>1, ApiAssumption DEF Wanted, Given
  <2>2. CASE "proxies" \in Given(env) \ Given(args)
    BY <1>2, <2>2, ApiAssumption DEF Wanted, Given
  <2>3. CASE "proxies" \notin Given(args) \cup Given(env)
    BY <2>3 DEF Wanted, Defaults
  <2>4. QED
    BY <2>1, <2>2, <2>3
<1>5. QED
  BY <1>1, <1>3, <1>4 DEF Valid

LEMMA StartConfig ==
  ASSUME ConfigInv, Start
  PROVE  ConfigInv'
<1>1. /\ stage = "loaded" /\ stage' = "serving" /\ explicit' = {}
      /\ cfg' = [Defaults EXCEPT !.telemetry = cfg.telemetry, !.token = cfg.token,
                                 !.proxies = cfg.proxies]
      /\ UNCHANGED <<now, saving, reply, answered, rows>>
  BY DEF Start, avars
<1>2. DOMAIN cfg' = Flag /\ cfg'.proxies = cfg.proxies
  BY <1>1, FlagsCited DEF Defaults
<1>3. ApiTypeOK'
  BY <1>1, <1>2 DEF ConfigInv, ApiTypeOK
<1>4. Networks'
  BY <1>1, <1>2, LoadedNetworks DEF Networks
<1>5. QED
  BY <1>1, <1>3, <1>4 DEF ConfigInv, Sources, Merging

----------------------------------------------------------------------------
\* The handlers.
LEMMA ClientIsWritten ==
  ASSUME NEW trusted \in SUBSET Addr, NEW r \in Header
  PROVE  FromRequest(trusted, r) \in Written
<1>1. /\ r.peer \in Written /\ r.real \in Written /\ r.xff \in Seq(Written)
      /\ \A i \in DOMAIN r.xff : r.xff[i] \in Written
  BY DEF Header
<1>2. \A h \in Written : h # NoAddr => Unmap[h] \in Written
  BY ProxyAssumption DEF Written
<1>3. NoAddr \in Written /\ NoAddr \notin trusted
  BY ProxyAssumption DEF Written
<1>4. IsClient(trusted, r, FromRequest(trusted, r))
  BY RequestsGetTheirClient
<1>5. QED
  BY <1>1, <1>2, <1>3, <1>4 DEF IsClient, ChainEnd, ParseAddr

LEMMA CompletedType ==
  ASSUME ConfigInv, stage = "serving", NEW body \in Body, NEW header \in Via
  PROVE  Completed(body, header) \in [kind : {"result"}, stamp : Stamp, client : Written]
<1>1. /\ body.stamp \in Stamp \cup {NoStamp} /\ body.client \in Written
      /\ header \in Header
  BY ApiAssumption
<1>2. UTC(now) \in Stamp
  BY ApiAssumption DEF ConfigInv, ApiTypeOK, UTC, Stamp, Zone
<1>3. FromRequest(cfg.proxies, header) \in Written
  BY <1>1, ClientIsWritten DEF ConfigInv, Networks
<1>4. QED
  BY <1>1, <1>2, <1>3 DEF Completed

\* A result that a handler saves, with an id.
LEMMA RowType ==
  ASSUME ApiTypeOK, NEW h \in Handler, saving[h] # Nothing, NEW id \in Id
  PROVE  Row(h, id) \in Result /\ Row(h, id).id = id
<1>1. saving[h] \in [kind : {"result"}, stamp : Stamp, client : Written]
  BY DEF ApiTypeOK
<1>2. QED
  BY <1>1 DEF Row, Result

LEMMA FinishStores ==
  ASSUME ConfigInv, Stored, stage = "serving", NEW h \in Handler, Finish(h)
  PROVE  /\ rows' \in Seq(Result) /\ answered' \subseteq Result
         /\ saving' \in [Handler -> {Nothing} \cup [kind : {"result"}, stamp : Stamp, client : Written]]
         /\ reply'.kind = "status" /\ now' = now
         /\ \A m, n \in DOMAIN rows' : rows'[m].id = rows'[n].id => m = n
         /\ cfg.telemetry = "sqlite" => \A r \in answered' : \E n \in DOMAIN rows' : rows'[n] = r
<1>1. PICK id \in Id, ok \in BOOLEAN :
        /\ Fresh(id)
        /\ IF cfg.telemetry = "sqlite" THEN Save(Row(h, id), ok)
                                       ELSE ok /\ UNCHANGED rows
        /\ IF ok THEN Status(200) /\ answered' = answered \cup {Row(h, id)}
                 ELSE Status(500) /\ UNCHANGED answered
  BY DEF Finish
<1>2. /\ saving[h] # Nothing /\ saving' = [saving EXCEPT ![h] = Nothing] /\ now' = now
      /\ ApiTypeOK /\ rows \in Seq(Result) /\ answered \subseteq Result
  BY DEF Finish, ConfigInv, ApiTypeOK
<1> DEFINE new == Row(h, id)
<1>3. new \in Result /\ new.id = id
  BY <1>2, RowType
<1>4. \A n \in DOMAIN rows : rows[n].id # id
  BY <1>1 DEF Fresh, Named
<1> HIDE DEF new
<1>5. ASSUME rows' = Append(rows, new)
      PROVE  /\ rows' \in Seq(Result) /\ DOMAIN rows' = 1 .. Len(rows) + 1
             /\ \A n \in DOMAIN rows : rows'[n] = rows[n] /\ n \in DOMAIN rows'
             /\ rows'[Len(rows) + 1] = new /\ Len(rows) \in Nat
             /\ DOMAIN rows = 1 .. Len(rows)
  BY <1>2, <1>3, <1>5
<1>6. CASE rows' = Append(rows, new)
  <2>1. \A m, n \in DOMAIN rows' : rows'[m].id = rows'[n].id => m = n
    BY <1>3, <1>4, <1>5, <1>6 DEF Stored
  <2>2. ASSUME cfg.telemetry = "sqlite", NEW r \in answered'
        PROVE  \E n \in DOMAIN rows' : rows'[n] = r
    <3>1. CASE r \in answered
      <4>1. PICK n \in DOMAIN rows : rows[n] = r
        BY <2>2, <3>1 DEF Stored
      <4>2. QED
        BY <1>5, <1>6, <4>1
    <3>2. CASE r = new
      BY <1>5, <1>6, <3>2
    <3>3. QED
      BY <1>1, <2>2, <3>1, <3>2 DEF new
  <2>3. answered' \subseteq Result /\ reply'.kind = "status"
    BY <1>1, <1>2, <1>3 DEF Status, new
  <2>4. QED
    BY <1>2, <1>5, <1>6, <2>1, <2>2, <2>3 DEF ApiTypeOK
<1>7. CASE rows' = rows
  <2>1. ~ ok \/ cfg.telemetry # "sqlite" \/ rows' = Append(rows, new)
    BY <1>1 DEF Save, new
  <2>2. CASE cfg.telemetry = "sqlite" /\ ~ ok
    <3>1. answered' = answered /\ reply'.kind = "status"
      BY <1>1, <2>2 DEF Status
    <3>2. QED
      BY <1>2, <1>7, <3>1 DEF ApiTypeOK, Stored
  <2>3. CASE cfg.telemetry # "sqlite"
    <3>1. answered' \subseteq Result /\ reply'.kind = "status"
      BY <1>1, <1>2, <1>3 DEF Status, new
    <3>2. QED
      BY <1>2, <1>7, <2>3, <3>1 DEF ApiTypeOK, Stored
  <2>4. QED
    BY <1>6, <2>1, <2>2, <2>3
<1>8. QED
  BY <1>1, <1>6, <1>7 DEF Save, new

\* The invariant holds in every step of a server that serves.
LEMMA ServingKeeps ==
  ASSUME ApiIInv, Serving
  PROVE  ApiIInv'
<1>1. /\ stage = "serving" /\ UNCHANGED <<args, env, stage, cfg, explicit>>
      /\ ConfigInv /\ ApiTypeOK /\ Stored
  BY DEF Serving, svars, ApiIInv, ConfigInv
<1>2. Merging' /\ Sources' /\ Networks'
  BY <1>1 DEF Merging, Sources, Networks, ConfigInv
<1>3. SUFFICES /\ now' \in 0 .. MaxNow
               /\ saving' \in [Handler -> {Nothing} \cup [kind : {"result"}, stamp : Stamp, client : Written]]
               /\ reply'.kind \in {"none", "status", "result", "list", "ip"}
               /\ answered' \subseteq Result /\ rows' \in Seq(Result)
               /\ \A m, n \in DOMAIN rows' : rows'[m].id = rows'[n].id => m = n
               /\ cfg.telemetry = "sqlite" => \A r \in answered' : \E n \in DOMAIN rows' : rows'[n] = r
               /\ reply'.kind = "ip" => /\ reply'.header \in Header
                                       /\ reply'.client = FromRequest(cfg.proxies, reply'.header)
  BY <1>1, <1>2 DEF ApiIInv, ConfigInv, ApiTypeOK, Stored, Addressed
<1>4. CASE \E h \in Handler : Ingest(h)
  <2>1. PICK h \in Handler : Ingest(h)
    BY <1>4
  <2>2. PICK bearer \in Bearer, body \in Body, header \in Via :
          CASE ~ Authorized(bearer) -> Status(401) /\ UNCHANGED saving
            [] Authorized(bearer) /\ body.bad -> Status(400) /\ UNCHANGED saving
            [] OTHER -> /\ saving' = [saving EXCEPT ![h] = Completed(body, header)]
                        /\ reply' = Nothing
    BY <2>1 DEF Ingest
  <2>3. Completed(body, header) \in [kind : {"result"}, stamp : Stamp, client : Written]
    BY <1>1, CompletedType
  <2>4. UNCHANGED <<now, answered, rows>>
    BY <2>1 DEF Ingest
  <2>5. /\ saving' = saving \/ saving' = [saving EXCEPT ![h] = Completed(body, header)]
        /\ reply'.kind \in {"none", "status"}
    <3>1. CASE ~ Authorized(bearer)
      BY <2>2, <3>1 DEF Status
    <3>2. CASE Authorized(bearer) /\ body.bad
      BY <2>2, <3>2 DEF Status
    <3>3. CASE Authorized(bearer) /\ ~ body.bad
      BY <2>2, <3>3 DEF Nothing
    <3>4. QED
      BY <3>1, <3>2, <3>3
  <2>6. QED
    BY <1>1, <2>3, <2>4, <2>5 DEF ApiTypeOK, Stored
<1>5. CASE \E h \in Handler : Finish(h)
  BY <1>1, <1>5, FinishStores DEF ApiTypeOK
<1>6. CASE Read
  <2>1. UNCHANGED <<now, saving, answered, rows>> /\ reply'.kind \in {"result", "status"}
    BY <1>6 DEF Read, Status
  <2>2. QED
    BY <1>1, <2>1 DEF ApiTypeOK, Stored
<1>7. CASE Stats
  <2>1. UNCHANGED <<now, saving, answered, rows>> /\ reply'.kind \in {"list", "status"}
    BY <1>7 DEF Stats, Status
  <2>2. QED
    BY <1>1, <2>1 DEF ApiTypeOK, Stored
<1>8. CASE Ip
  <2>1. PICK header \in Asked :
          reply' = [kind |-> "ip", header |-> header,
                    client |-> FromRequest(cfg.proxies, header)]
    BY <1>8 DEF Ip
  <2>2. header \in Header /\ UNCHANGED <<now, saving, answered, rows>>
    BY <1>8, ApiAssumption DEF Ip
  <2>3. QED
    BY <1>1, <2>1, <2>2 DEF ApiTypeOK, Stored
<1>9. CASE Restart
  <2>1. /\ UNCHANGED <<now, answered, rows>> /\ reply'.kind = "none"
        /\ saving' = [h \in Handler |-> Nothing]
    BY <1>9 DEF Restart, Nothing
  <2>2. QED
    BY <1>1, <2>1 DEF ApiTypeOK, Stored
<1>10. CASE Tick
  <2>1. /\ UNCHANGED <<saving, answered, rows>> /\ reply'.kind = "none"
        /\ now' \in 0 .. MaxNow
    BY <1>1, <1>10, ApiAssumption DEF Tick, Nothing, ApiTypeOK
  <2>2. QED
    BY <1>1, <2>1 DEF ApiTypeOK, Stored
<1>11. QED
  BY <1>4, <1>5, <1>6, <1>7, <1>8, <1>9, <1>10 DEF Serving

LEMMA ApiInitInv == ApiInit => ApiIInv
<1> SUFFICES ASSUME ApiInit PROVE ApiIInv
  OBVIOUS
<1>1. /\ args \in SourceOf(ArgsOffer) /\ env \in SourceOf(EnvOffer) /\ stage = "start"
      /\ cfg = Defaults /\ explicit = {} /\ now = 0 /\ answered = {} /\ rows = <<>>
      /\ saving = [h \in Handler |-> Nothing] /\ reply = Nothing
  BY DEF ApiInit, SettingsInit
<1>2. DOMAIN Defaults = Flag
  BY FlagsCited DEF Defaults
<1>3. reply.kind = "none"
  BY <1>1 DEF Nothing
<1>4. ApiTypeOK
  BY <1>1, <1>2, <1>3, ApiAssumption DEF ApiTypeOK
<1>5. QED
  BY <1>1, <1>3, <1>4 DEF ApiIInv, ConfigInv, Merging, Sources, Networks, Stored, Addressed

LEMMA ApiStep == ApiIInv /\ [ApiNext]_apivars => ApiIInv'
<1> SUFFICES ASSUME ApiIInv, [ApiNext]_apivars PROVE ApiIInv'
  OBVIOUS
<1>1. CASE Loading
  <2>1. ConfigInv'
    BY <1>1, LoadConfig DEF ApiIInv
  <2>2. /\ UNCHANGED avars /\ stage # "serving" /\ stage' # "serving"
        /\ answered = {} /\ reply = Nothing
    BY <1>1 DEF Loading, Load, ParseArgs, MergeEnv, ApplyProfile, Validate, FailLoad,
                ApiIInv, Stored
  <2>3. QED
    BY <2>1, <2>2 DEF ApiIInv, Stored, Addressed, avars, Nothing
<1>2. CASE Start
  <2>1. ConfigInv'
    BY <1>2, StartConfig DEF ApiIInv
  <2>2. UNCHANGED avars /\ answered = {} /\ reply = Nothing /\ stage' = "serving"
    BY <1>2 DEF Start, ApiIInv, Stored
  <2>3. QED
    BY <2>1, <2>2 DEF ApiIInv, Stored, Addressed, avars, Nothing
<1>3. CASE Serving
  BY <1>3, ServingKeeps
<1>4. CASE UNCHANGED apivars
  <2>1. /\ UNCHANGED <<stage, args, env, cfg, explicit>>
        /\ UNCHANGED <<now, saving, reply, answered, rows>>
    BY <1>4 DEF apivars, avars, svars
  <2>2. Merging'
    BY <2>1, AcceptableStays
    DEF ApiIInv, ConfigInv, Merging, Readable, Given, Wanted, Effective, Valid
  <2>3. ApiTypeOK' /\ Sources' /\ Networks'
    BY <2>1 DEF ApiIInv, ConfigInv, ApiTypeOK, Sources, Networks
  <2>4. Stored' /\ Addressed'
    BY <2>1 DEF ApiIInv, Stored, Addressed
  <2>5. QED
    BY <2>2, <2>3, <2>4 DEF ApiIInv, ConfigInv
<1>5. QED
  BY <1>1, <1>2, <1>3, <1>4 DEF ApiNext

LEMMA ApiInvariant == ApiSpec => []ApiIInv
BY ApiInitInv, ApiStep, PTL DEF ApiSpec

(***************************************************************************)
(* The server's state keeps its types, for all sets of values offered.     *)
(***************************************************************************)
THEOREM ApiTypeCorrect == ApiSpec => []ApiTypeOK
<1>1. ApiIInv => ApiTypeOK
  BY DEF ApiIInv, ConfigInv
<1>2. QED
  BY <1>1, ApiInvariant, PTL

(***************************************************************************)
(* The four passes of Load together are the precedence of flag over        *)
(* environment over mode profile over default, for any offers of values.   *)
(***************************************************************************)
THEOREM PrecedenceHolds == ApiSpec => []LoadMatchesPrecedence
<1>1. ApiIInv => LoadMatchesPrecedence
  <2> SUFFICES ASSUME ApiIInv PROVE LoadMatchesPrecedence
    OBVIOUS
  <2>1. Merging
    BY DEF ApiIInv, ConfigInv
  <2>2. CASE stage = "loaded"
    <3>1. /\ Readable(args, Given(args)) /\ Readable(env, Given(env) \ Given(args))
          /\ cfg = [f \in Flag |-> Effective(f)] /\ Valid(cfg)
      BY <2>1, <2>2 DEF Merging
    <3>2. Acceptable
      BY <3>1, AcceptableMeansValid
    <3>3. QED
      BY <2>2, <3>1, <3>2 DEF LoadMatchesPrecedence
  <2>3. CASE stage # "loaded"
    BY <2>1, <2>3 DEF Merging, LoadMatchesPrecedence
  <2>4. QED
    BY <2>2, <2>3
<1>2. QED
  BY <1>1, ApiInvariant, PTL

(***************************************************************************)
(* With the sqlite store an id that was handed out reads back as its       *)
(* result for any number of handlers, failed inserts and restarts.         *)
(***************************************************************************)
THEOREM AnsweredReadable == ApiSpec => []AnsweredIsReadable
<1>1. ApiIInv => AnsweredIsReadable
  <2> SUFFICES ASSUME ApiIInv, cfg.telemetry = "sqlite", NEW r \in answered
               PROVE  Found(r.id) /\ Get(r.id) = r
    BY DEF AnsweredIsReadable
  <2>1. PICK n \in DOMAIN rows : rows[n] = r
    BY DEF ApiIInv, Stored
  <2>2. \A m \in DOMAIN rows : rows[m].id = r.id => m = n
    BY <2>1 DEF ApiIInv, Stored
  <2>3. QED
    BY <2>1, <2>2 DEF Found, Get
<1>2. QED
  BY <1>1, ApiInvariant, PTL

\* Only a step that answers something else adds a row.
LEMMA ListStep == ApiIInv /\ ListIsNewest /\ [ApiNext]_apivars => ListIsNewest'
<1> SUFFICES ASSUME ApiIInv, ListIsNewest, [ApiNext]_apivars, reply'.kind = "list"
             PROVE  ListIsNewest'
  BY DEF ListIsNewest
<1>1. rows \in Seq(Result)
  BY DEF ApiIInv, ConfigInv, ApiTypeOK
<1>2. CASE UNCHANGED <<rows, reply>>
  BY <1>2 DEF ListIsNewest, InUTC, Newer
<1>3. CASE Stats
  <2>1. PICK bearer \in Bearer, q \in Limits :
          IF Authorized(bearer)
          THEN LET limit == IF q > 0 THEN q ELSE 50
               IN  reply' = [kind |-> "list", limit |-> limit, list |-> List(limit),
                             upto |-> Len(rows)]
          ELSE Status(401)
    BY <1>3 DEF Stats
  <2>2. Authorized(bearer)
    BY <2>1 DEF Status
  <2>3. PICK limit \in Nat \ {0} :
          reply' = [kind |-> "list", limit |-> limit, list |-> List(limit),
                    upto |-> Len(rows)]
    <3>1. (IF q > 0 THEN q ELSE 50) \in Nat \ {0}
      BY ApiAssumption
    <3>2. QED
      BY <2>1, <2>2, <3>1, Zenon
  <2> DEFINE list == List(limit)
  <2>4. /\ reply'.list = list /\ reply'.limit = limit /\ reply'.upto = Len(rows)
        /\ rows' = rows
    BY <1>3, <2>3 DEF Stats
  <2>5. /\ list \in Seq(DOMAIN rows)
        /\ Len(list) = IF limit < Len(rows) THEN limit ELSE Len(rows)
        /\ \A k \in DOMAIN list, m \in DOMAIN rows :
              (InUTC(list[k]) /\ InUTC(m) /\ Newer(m, list[k])) =>
                 \E j \in 1 .. k - 1 : list[j] = m
    BY <1>1, ListHoldsNewest
  <2>6. DOMAIN rows = 1 .. Len(rows)
    BY <1>1, StampsCited
  <2> HIDE DEF list
  <2>7. QED
    BY <2>4, <2>5, <2>6 DEF ListIsNewest, InUTC, Newer
<1>4. CASE Loading \/ Start
  BY <1>2, <1>4 DEF Loading, Start, avars
<1>5. CASE Serving
  <2>1. CASE \E h \in Handler : Ingest(h) \/ Finish(h)
    <3>1. PICK h \in Handler : Ingest(h) \/ Finish(h)
      BY <2>1
    <3>2. CASE Finish(h)
      BY <3>2 DEF Finish, Status
    <3>3. CASE Ingest(h)
      BY <3>3 DEF Ingest, Status, Nothing
    <3>4. QED
      BY <3>1, <3>2, <3>3
  <2>2. CASE Read \/ Ip \/ Restart \/ Tick
    BY <2>2 DEF Read, Ip, Restart, Tick, Status, Nothing
  <2>3. QED
    BY <1>3, <1>5, <2>1, <2>2 DEF Serving
<1>6. CASE UNCHANGED apivars
  BY <1>2, <1>6 DEF apivars, avars
<1>7. QED
  BY <1>4, <1>5, <1>6 DEF ApiNext

(***************************************************************************)
(* A list is of the newest results stamped in UTC to the second, newest    *)
(* first, whatever results of other zones lie between them, for any number *)
(* of rows and any limit.                                                  *)
(***************************************************************************)
THEOREM ListsAreNewest == ApiSpec => []ListIsNewest
<1>1. ApiInit => ListIsNewest
  BY DEF ApiInit, Nothing, ListIsNewest
<1>2. QED
  BY <1>1, ListStep, ApiInvariant, PTL DEF ApiSpec

(***************************************************************************)
(* The address given out is that of the chain's end, under every accepted  *)
(* configuration and for every header.                                     *)
(***************************************************************************)
THEOREM ClientsAreChainEnds == ApiSpec => []ClientIsChainEnd
<1>1. ApiIInv => ClientIsChainEnd
  <2> SUFFICES ASSUME ApiIInv, reply.kind = "ip" PROVE ClientIsChainEnd
    BY DEF ClientIsChainEnd
  <2> DEFINE r == reply.header
             trusted == cfg.proxies
  <2>1. /\ r \in Header /\ reply.client = FromRequest(trusted, r)
        /\ trusted \in SUBSET Addr
    BY DEF ApiIInv, Addressed, ConfigInv, Networks
  <2>2. IsClient(trusted, r, reply.client)
    BY <2>1, RequestsGetTheirClient
  <2>3. ASSUME NEW i \in DOMAIN r.xff,
               NEW left \in {<<a>> : a \in Written} \cup {<<>>},
               r.peer # NoAddr, Unmap[r.peer] \in trusted, ChainEnd(trusted, r, i),
               reply.client \notin trusted
        PROVE  FromRequest(trusted, Rewritten(r, i, left)) = reply.client
    <3>1. PICK j \in DOMAIN r.xff :
            ChainEnd(trusted, r, j) /\ reply.client = Unmap[r.xff[j]]
      BY <2>2, <2>3 DEF IsClient, ChainEnd
    <3>2. i \in Int /\ j \in Int /\ i >= 1 /\ j >= 1
      BY <2>1 DEF Header
    <3>3. i = j
      BY <2>3, <3>1, <3>2 DEF ChainEnd
    <3>4. i \in Strangers(trusted, r)
      BY <2>1, <2>3, <3>1, <3>3, HopsParse DEF Strangers, ChainEnd
    <3>5. left \in Seq(Written)
      <4>1. CASE left = <<>>
        BY <4>1
      <4>2. CASE left \in {<<a>> : a \in Written}
        <5>1. PICK a \in Written : left = <<a>>
          BY <4>2
        <5>2. <<a>> \in Seq(Written)
          OBVIOUS
        <5>3. QED
          BY <5>1, <5>2
      <4>3. QED
        BY <2>3, <4>1, <4>2
    <3>6. Vouched(trusted, r, i)
      BY <2>3 DEF ChainEnd
    <3>7. QED
      BY <2>1, <3>4, <3>5, <3>6, LeftIsIgnored
  <2>4. QED
    BY <2>2, <2>3 DEF ClientIsChainEnd
<1>2. QED
  BY <1>1, ApiInvariant, PTL

=============================================================================
