--------------------------- MODULE TelemetryStore ---------------------------
(***************************************************************************)
(* The results store, internal/telemetry: the sqlite table as the sequence *)
(* of its rows, whose index is sqlite's rowid, as results are only added.  *)
(* The default store is the same with no rows: it answers a Save with an   *)
(* id and forgets the result.  One connection serialises the calls.        *)
(*                                                                         *)
(* A time stamp is text.  Of an RFC 3339 text the model keeps what decides *)
(* its order, the local time and the zone that follows it: "Z" for UTC, or *)
(* an offset, of which one hour east and west stand for all.  Fractions of *)
(* a second, which only a client of its own making sends, are left out.    *)
(***************************************************************************)
EXTENDS Integers, Sequences, FiniteSets

CONSTANT Id   \* 128-bit random numbers, assumed not to repeat

VARIABLE rows

Zone == {"+", "-", "Z"}

Stamp == [local : Nat, zone : Zone]

UTC(t) == [local |-> t, zone |-> "Z"]

\* The moment a stamp denotes.
Instant(s) ==
  CASE s.zone = "+" -> s.local - 1
    [] s.zone = "-" -> s.local + 1
    [] s.zone = "Z" -> s.local

\* The characters in the order of the text.
ZoneRank(z) == CASE z = "+" -> 1 [] z = "-" -> 2 [] z = "Z" -> 3

TextBefore(s, t) ==
  \/ s.local < t.local
  \/ s.local = t.local /\ ZoneRank(s.zone) < ZoneRank(t.zone)

\* The rows of results called id.
Named(id) == {n \in DOMAIN rows : rows[n].id = id}

\* newID: a random number that no result has.
Fresh(id) == Named(id) = {}

\* Save inserts the row; it may also fail, before or after the insert.
Save(r, ok) ==
  \/ rows' = Append(rows, r)
  \/ ~ ok /\ UNCHANGED rows

\* Get: the row with that primary key.
Found(id) == \E n \in DOMAIN rows : rows[n].id = id

Get(id) == rows[CHOOSE n \in DOMAIN rows : rows[n].id = id]

\* Faulty variant: the order is of the rows alone.
ListBeforeByRow(n, m) == n > m

\* ORDER BY timestamp DESC, rowid DESC
ListBefore(n, m) ==
  \/ TextBefore(rows[m].stamp, rows[n].stamp)
  \/ rows[m].stamp = rows[n].stamp /\ n > m

\* The place of row n in that order.
Place(n) == 1 + Cardinality({m \in DOMAIN rows : ListBefore(m, n)})

\* List: the rowids of at most limit results, each in its place.
List(limit) ==
  [k \in {j \in 1 .. Len(rows) : j <= limit} |-> CHOOSE n \in DOMAIN rows : Place(n) = k]

=============================================================================
