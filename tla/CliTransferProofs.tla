-------------------------- MODULE CliTransferProofs --------------------------
(***************************************************************************)
(* A transfer phase of the CLI for any number of streams, any grace period *)
(* and duration and requests of any size: the window that is reported is   *)
(* whole, and what is counted in it is what the streams read, or the       *)
(* server accepted, but for at most one read or one blob of each other     *)
(* stream.                                                                 *)
(*                                                                         *)
(* A sum over the streams is the size of a set of units, one for every     *)
(* unit of every stream, so that facts about finite sets apply to it.      *)
(***************************************************************************)
EXTENDS CliTransfer, FiniteSetTheorems, TLAPS

(* Sums over the streams.                                                  *)

Units(cap, w) == {u \in Stream \X (1 .. cap) : u[2] <= w[u[1]]}

Sum(cap, w) == Cardinality(Units(cap, w))

\* The units of the streams other than s.
Others(cap, w, s) == {u \in Units(cap, w) : u[1] # s}

LEMMA UnitsFinite ==
  ASSUME NEW cap \in Nat, NEW S \in SUBSET (Stream \X (1 .. cap))
  PROVE  IsFiniteSet(S) /\ Cardinality(S) \in Nat
<1>1. IsFiniteSet(1 .. cap) /\ IsFiniteSet(Stream)
  BY FS_Interval, TransferAssumption
<1>2. IsFiniteSet(Stream \X (1 .. cap))
  BY <1>1, FS_Product
<1>3. QED
  BY <1>2, FS_Subset, FS_CardinalityType

LEMMA SumWithout ==
  ASSUME NEW cap \in Nat, NEW s \in Stream, NEW w, w[s] \in 0 .. cap
  PROVE  Sum(cap, w) = Cardinality(Others(cap, w, s)) + w[s]
<1> DEFINE Own == {s} \X (1 .. w[s])
<1>1. Units(cap, w) = Others(cap, w, s) \cup Own /\ Others(cap, w, s) \cap Own = {}
  <2>1. ASSUME NEW u \in Units(cap, w), u[1] = s PROVE u \in Own
    BY <2>1 DEF Units
  <2>2. Own \subseteq Units(cap, w)
    BY DEF Units
  <2>3. \A u \in Own : u[1] = s
    OBVIOUS
  <2>4. QED
    BY <2>1, <2>2, <2>3 DEF Others
<1>2. IsFiniteSet(Others(cap, w, s))
  BY UnitsFinite DEF Others, Units
<1>3. IsFiniteSet(Own) /\ Cardinality(Own) = w[s]
  <2>1. IsFiniteSet(1 .. w[s]) /\ Cardinality(1 .. w[s]) = w[s]
    <3>1. w[s] \in Int /\ 1 \in Int
      OBVIOUS
    <3>2. /\ IsFiniteSet(1 .. w[s])
          /\ Cardinality(1 .. w[s]) = IF 1 > w[s] THEN 0 ELSE w[s] - 1 + 1
      BY <3>1, FS_Interval, Zenon
    <3>3. QED
      BY <3>2
  <2>2. IsFiniteSet({s}) /\ Cardinality({s}) = 1
    BY FS_Singleton
  <2>3. /\ IsFiniteSet(Own)
        /\ Cardinality(Own) = Cardinality({s}) * Cardinality(1 .. w[s])
    BY <2>1, <2>2, FS_Product, Zenon
  <2>4. QED
    BY <2>1, <2>2, <2>3
<1>4. Cardinality(Others(cap, w, s)) \in Nat
  BY <1>2, FS_CardinalityType
<1> HIDE DEF Own
<1>5. Sum(cap, w) = Cardinality(Others(cap, w, s)) + Cardinality(Own)
                      - Cardinality(Others(cap, w, s) \cap Own)
  BY <1>1, <1>2, <1>3, FS_Union, Zenon DEF Sum
<1>6. Cardinality(Others(cap, w, s) \cap Own) = 0
  BY <1>1, FS_EmptySet, Zenon
<1>7. QED
  BY <1>3, <1>4, <1>5, <1>6

\* One stream's share changes.
LEMMA SumChanges ==
  ASSUME NEW cap \in Nat, NEW s \in Stream, NEW w, NEW v,
         w[s] \in 0 .. cap, v[s] \in 0 .. cap, \A q \in Stream \ {s} : v[q] = w[q]
  PROVE  Sum(cap, v) = Sum(cap, w) + v[s] - w[s] /\ Sum(cap, w) \in Nat
<1>1. Others(cap, v, s) = Others(cap, w, s)
  BY DEF Others, Units
<1>2. Sum(cap, w) \in Nat /\ Cardinality(Others(cap, w, s)) \in Nat
  BY UnitsFinite DEF Sum, Units, Others
<1>3. QED
  BY <1>1, <1>2, SumWithout

LEMMA SumSame ==
  ASSUME NEW cap \in Nat, NEW w, NEW v, \A q \in Stream : v[q] = w[q]
  PROVE  Sum(cap, v) = Sum(cap, w)
<1>1. Units(cap, v) = Units(cap, w)
  BY DEF Units
<1>2. QED
  BY <1>1 DEF Sum

LEMMA SumNone ==
  ASSUME NEW cap \in Nat, NEW w, \A q \in Stream : w[q] = 0
  PROVE  Sum(cap, w) = 0
<1>1. Units(cap, w) = {}
  BY DEF Units
<1>2. QED
  BY <1>1, FS_EmptySet DEF Sum

\* If one stream has no share, the others have at most a full one each.
LEMMA SumBound ==
  ASSUME NEW cap \in Nat, NEW s \in Stream, NEW w, w[s] = 0
  PROVE  Sum(cap, w) <= cap * (Cardinality(Stream) - 1)
<1> DEFINE Rest1 == Stream \ {s}
<1>1. IsFiniteSet(Rest1) /\ Cardinality(Rest1) = Cardinality(Stream) - 1
      /\ Cardinality(Rest1) \in Nat
  BY TransferAssumption, FS_RemoveElement, FS_CardinalityType
<1>2. IsFiniteSet(1 .. cap) /\ Cardinality(1 .. cap) = cap
  BY FS_Interval
<1>3. Units(cap, w) \subseteq Rest1 \X (1 .. cap)
  BY DEF Units
<1> HIDE DEF Rest1
<1>4. /\ IsFiniteSet(Rest1 \X (1 .. cap))
      /\ Cardinality(Rest1 \X (1 .. cap)) = Cardinality(Rest1) * cap
  <2>1. Cardinality(Rest1 \X (1 .. cap)) = Cardinality(Rest1) * Cardinality(1 .. cap)
        /\ IsFiniteSet(Rest1 \X (1 .. cap))
    BY <1>1, <1>2, FS_Product, Zenon
  <2>2. QED
    BY <1>2, <2>1
<1>5. Sum(cap, w) <= Cardinality(Rest1) * cap
  BY <1>3, <1>4, FS_Subset DEF Sum
<1>6. Cardinality(Rest1) * cap = cap * Cardinality(Rest1)
  BY <1>1
<1>7. QED
  BY <1>1, <1>5, <1>6

----------------------------------------------------------------------------
(* The meter.                                                              *)

LEMMA ExtendedMeter ==
  ASSUME NEW m \in Meter, NEW now \in Nat
  PROVE  LET z == Extended(m, now)
         IN  /\ z \in Meter /\ z.started = m.started /\ z.grace = m.grace
             /\ z.graceEnded = m.graceEnded /\ z.baseTime = m.baseTime
             /\ z.bytes = m.bytes /\ z.baseTime + z.elapsed >= now
<1> DEFINE e == IF now - m.baseTime > m.elapsed THEN now - m.baseTime ELSE m.elapsed
           z == [m EXCEPT !.elapsed = e]
<1>1. Extended(m, now) = z
  BY DEF Extended
<1>2. m.baseTime \in Int /\ m.elapsed \in Nat
  BY DEF Meter
<1>3. e \in Nat /\ m.baseTime + e >= now
  BY <1>2
<1> HIDE DEF e
<1>4. /\ z \in Meter /\ z.started = m.started /\ z.grace = m.grace
      /\ z.graceEnded = m.graceEnded /\ z.baseTime = m.baseTime
      /\ z.bytes = m.bytes /\ z.elapsed = e
  BY <1>3 DEF Meter
<1> HIDE DEF z
<1>5. QED
  BY <1>1, <1>3, <1>4

\* What a sample does to a meter that was started.
AddsSample(m, n, now) ==
  LET z == MeterAdd(m, n, now)
  IN  /\ z \in Meter /\ z.started = 0 /\ z.grace = m.grace
      /\ Crosses(m, now) => /\ ~ m.graceEnded /\ now >= m.grace /\ z.graceEnded
                            /\ z.baseTime = now /\ z.bytes = 0
      /\ ~ Crosses(m, now) => /\ z.graceEnded = m.graceEnded /\ z.baseTime = m.baseTime
                              /\ z.bytes = m.bytes + n

LEMMA SampleAdded ==
  ASSUME NEW m \in Meter, m.started = 0, NEW n \in Nat, NEW now \in Nat
  PROVE  AddsSample(m, n, now)
<1>1. MeterAdd(m, n, now) = IF Crosses(m, now) THEN MeterReset(m, now)
                            ELSE Extended([m EXCEPT !.bytes = @ + n], now)
  BY DEF MeterAdd, Never
<1>2. /\ m.grace \in Nat /\ m.started \in Int /\ m.graceEnded \in BOOLEAN
      /\ m.baseTime \in Int /\ m.bytes \in Nat /\ m.elapsed \in Nat
  BY DEF Meter
<1>3. CASE Crosses(m, now)
  <2> DEFINE z == MeterReset(m, now)
  <2>1. /\ z.started = m.started /\ z.grace = m.grace
        /\ z.graceEnded /\ z.baseTime = now /\ z.bytes = 0
    BY DEF MeterReset, Meter
  <2>2. z \in Meter
    <3> DEFINE a == [m EXCEPT !.graceEnded = TRUE]
               b == [a EXCEPT !.baseTime = now]
               c == [b EXCEPT !.bytes = 0, !.elapsed = 0]
    <3>1. a \in Meter
      BY DEF Meter
    <3>2. z = c
      BY DEF MeterReset
    <3> HIDE DEF a
    <3>3. b \in Meter
      BY <3>1 DEF Meter
    <3> HIDE DEF b
    <3>4. c \in Meter
      BY <3>3 DEF Meter
    <3>5. QED
      BY <3>2, <3>4
  <2>3. MeterAdd(m, n, now) = z
    BY <1>1, <1>3
  <2>4. ~ m.graceEnded /\ now >= m.grace
    BY <1>2, <1>3 DEF Crosses
  <2> HIDE DEF z
  <2>5. QED
    BY <1>3, <2>1, <2>2, <2>3, <2>4 DEF AddsSample
<1>4. CASE ~ Crosses(m, now)
  <2> DEFINE a == [m EXCEPT !.bytes = @ + n]
             z == Extended(a, now)
  <2>1. /\ a \in Meter /\ a.started = m.started /\ a.grace = m.grace
        /\ a.graceEnded = m.graceEnded /\ a.baseTime = m.baseTime /\ a.bytes = m.bytes + n
    BY <1>2 DEF Meter
  <2> HIDE DEF a
  <2>2. /\ z \in Meter /\ z.started = a.started /\ z.grace = a.grace
        /\ z.graceEnded = a.graceEnded /\ z.baseTime = a.baseTime /\ z.bytes = a.bytes
    BY <2>1, ExtendedMeter
  <2>3. MeterAdd(m, n, now) = z
    BY <1>1, <1>4 DEF a
  <2> HIDE DEF z
  <2>4. QED
    BY <1>4, <2>1, <2>2, <2>3 DEF AddsSample
<1>5. QED
  BY <1>3, <1>4

LEMMA Stopped ==
  ASSUME NEW m \in Meter, NEW now \in Nat
  PROVE  /\ MeterStop(m, now) \in Meter
         /\ MeterStop(m, now).started = m.started /\ MeterStop(m, now).grace = m.grace
         /\ MeterStop(m, now).graceEnded = m.graceEnded
         /\ MeterStop(m, now).baseTime = m.baseTime /\ MeterStop(m, now).bytes = m.bytes
         /\ (m.started # Never /\ m.graceEnded) =>
              MeterStop(m, now).baseTime + MeterStop(m, now).elapsed >= now
<1>1. CASE m.started = Never \/ ~ m.graceEnded
  BY <1>1 DEF MeterStop
<1>2. CASE ~ (m.started = Never \/ ~ m.graceEnded)
  <2>1. MeterStop(m, now) = Extended(m, now)
    BY <1>2 DEF MeterStop
  <2>2. QED
    BY <2>1, ExtendedMeter
<1>3. QED
  BY <1>1, <1>2

----------------------------------------------------------------------------
(* The invariant.                                                          *)

Kinds == kind \in {"download", "upload"}

\* How the window, the context and the streams stand in time.
Timed ==
  /\ meter.grace = Grace /\ meter.started = 0
  /\ meter.graceEnded => meter.baseTime >= Grace
  /\ ~ meter.graceEnded => inWindow = 0
  /\ expired => clock >= Total
  /\ \A s \in Stream : pc[s] = "done" => expired
  /\ verdict # "running" => \A s \in Stream : pc[s] = "done"
  /\ (verdict # "running" /\ meter.graceEnded) => meter.baseTime + meter.elapsed >= Total

\* What a stream holds between reading, or being accepted, and adding.
Handed ==
  \A s \in Stream :
    /\ pc[s] # "add" => hand[s].n = 0
    /\ kind = "download" => hand[s].n <= MaxRead
    /\ kind = "upload" =>
         /\ pc[s] # "body"
         /\ pc[s] = "add" => hand[s].n <= Blob /\ hand[s].next = "loop"

Held == [s \in Stream |-> hand[s].n]

\* What of its blob a stream has sent and not yet added.
Pending == [s \in Stream |-> IF pc[s] = "add" THEN hand[s].n
                             ELSE IF pc[s] = "request" THEN tally[s] ELSE 0]

Spare(cap) == cap * (Cardinality(Stream) - 1)

DownloadCount ==
  LET held == Sum(MaxRead, Held)
  IN  /\ meter.graceEnded =>
           inWindow <= meter.bytes + held /\ meter.bytes + held <= inWindow + Spare(MaxRead)
      /\ ~ meter.graceEnded => moved = meter.bytes + held

\* The verdict is about what the meter holds.
Judged == verdict # "running" => (verdict = "failed" <=> meter.bytes = 0)

\* What was accepted against what was counted.
CreditCount ==
  LET held == Sum(Blob, Held)
  IN  /\ meter.graceEnded =>
           credit <= meter.bytes + held /\ meter.bytes + held <= credit + Spare(Blob)
      /\ ~ meter.graceEnded => credit = meter.bytes + held

UploadCount ==
  /\ CreditCount
  /\ meter.bytes + Sum(Blob, Held) <= Blob * accepted
  /\ meter.graceEnded => meter.bytes + Sum(Blob, Pending) <= inWindow + Spare(Blob)

Sound == UploadTypeOK /\ Kinds /\ Timed /\ Handed /\ Judged

CliInv ==
  /\ Sound
  /\ kind = "download" => DownloadCount
  /\ kind = "upload" => UploadCount

LEMMA SpareNat == \A cap \in Nat : Spare(cap) \in Nat
<1>1. Cardinality(Stream) - 1 \in Nat
  BY TransferAssumption, FS_CardinalityType, FS_EmptySet
<1>2. QED
  BY <1>1 DEF Spare

LEMMA Bounds == MaxRead \in Nat /\ Blob \in Nat /\ Grace \in Nat /\ Total \in Nat /\ Total > Grace
BY DownloadAssumption, UploadAssumption, TransferAssumption DEF Total

LEMMA InitHolds == CliInit => CliInv
<1> SUFFICES ASSUME CliInit PROVE CliInv
  OBVIOUS
<1>1. meter = [grace |-> Grace, started |-> 0, graceEnded |-> Grace <= 0,
               baseTime |-> 0, bytes |-> 0, elapsed |-> 0]
  BY DEF CliInit, UploadInit, Init, MeterStart, NewMeter
<1>2. UploadTypeOK
  <2>1. meter \in Meter
    BY <1>1, Bounds DEF Meter
  <2>2. hand \in [Stream -> Hand]
    BY DEF CliInit, UploadInit, Init, Hand, Empty
  <2>3. /\ clock \in 0 .. MaxTime /\ moved \in 0 .. MaxMoved /\ inWindow \in 0 .. moved
        /\ tally \in [Stream -> 0 .. Blob]
    BY TransferAssumption, Bounds DEF CliInit, UploadInit, Init
  <2>4. QED
    BY <2>1, <2>2, <2>3 DEF CliInit, UploadInit, Init, UploadTypeOK, TypeOK, Place
<1>3. Kinds /\ Timed /\ Handed /\ Judged
  <2>1. /\ meter.grace = Grace /\ meter.started = 0 /\ meter.baseTime = 0
        /\ meter.graceEnded <=> Grace <= 0
    BY <1>1
  <2>4. Timed
    BY <2>1, Bounds DEF CliInit, UploadInit, Init, Timed
  <2>2. \A s \in Stream : pc[s] = "loop" /\ hand[s].n = 0
    BY DEF CliInit, UploadInit, Init, Empty
  <2>3. Handed
    BY <2>2, Bounds DEF Handed
  <2>5. QED
    BY <2>3, <2>4 DEF CliInit, UploadInit, Init, Kinds, Judged
<1>4. Sum(MaxRead, Held) = 0 /\ Sum(Blob, Held) = 0 /\ Sum(Blob, Pending) = 0
  BY SumNone, Bounds DEF CliInit, UploadInit, Init, Held, Pending, Empty
<1>5. DownloadCount /\ UploadCount
  BY <1>1, <1>4, SpareNat, Bounds 
     DEF CliInit, UploadInit, Init, DownloadCount, UploadCount, CreditCount
<1>6. QED
  BY <1>2, <1>3, <1>5 DEF CliInv, Sound

----------------------------------------------------------------------------
(* The steps of a stream.                                                  *)

\* A stream goes from one place to another and takes no bytes with it.
QuietStep(s) ==
  /\ pc[s] \notin {"add", "done"}
  /\ pc'[s] \in Place \ {"add"} /\ pc' = [pc EXCEPT ![s] = pc'[s]]
  /\ pc'[s] = "done" => expired
  /\ pc'[s] = "body" => kind = "download"
  /\ wake' \in [Stream -> Nat]
  /\ UNCHANGED <<hand, clock, expired, meter, verdict, moved, inWindow, kind>>

LEMMA LoopQuiet ==
  ASSUME Sound, NEW s \in Stream, UNCHANGED kind,
         \/ LoopTest(s) \/ AfterFailure(s) \/ WakeUp(s) \/ CancelSleep(s) \/ RequestFails(s)
  PROVE  QuietStep(s)
<1>1. UNCHANGED <<hand, clock, expired, meter, verdict, moved, inWindow>>
  BY DEF LoopTest, AfterFailure, WakeUp, CancelSleep, RequestFails, Rest
<1>2. \E to \in Place : pc' = [pc EXCEPT ![s] = to] /\ to \notin {"add", "body"}
                        /\ (to = "done" => expired)
  BY DEF LoopTest, AfterFailure, WakeUp, CancelSleep, RequestFails, Goto, Place
<1>3. pc[s] \notin {"add", "done"} /\ pc \in [Stream -> Place]
  BY DEF LoopTest, AfterFailure, WakeUp, CancelSleep, RequestFails, Sound, UploadTypeOK, TypeOK
<1>4. wake' \in [Stream -> Nat]
  <2>1. wake \in [Stream -> Nat] /\ clock + Backoff \in Nat
    BY TransferAssumption DEF Sound, UploadTypeOK, TypeOK
  <2>2. CASE AfterFailure(s)
    BY <2>1, <2>2 DEF AfterFailure
  <2>3. CASE ~ AfterFailure(s)
    BY <2>1, <2>3 DEF LoopTest, WakeUp, CancelSleep, RequestFails
  <2>4. QED
    BY <2>2, <2>3
<1>5. QED
  BY <1>1, <1>2, <1>3, <1>4 DEF QuietStep

LEMMA QuietSound ==
  ASSUME Sound, NEW s \in Stream, QuietStep(s),
         tally' \in [Stream -> 0 .. Blob], accepted' \in Nat, credit' \in Nat
  PROVE  Sound'
<1>1. UploadTypeOK'
  BY DEF Sound, UploadTypeOK, TypeOK, QuietStep
<1>2. pc[s] # "done" /\ \A q \in Stream \ {s} : pc'[q] = pc[q]
  BY DEF Sound, UploadTypeOK, TypeOK, QuietStep
<1>3. Timed'
  BY <1>2 DEF Sound, Timed, QuietStep
<1>4. Handed'
  BY <1>2 DEF Sound, Handed, QuietStep
<1>5. QED
  BY <1>1, <1>3, <1>4 DEF Sound, Kinds, Judged, QuietStep

LEMMA HeldStays ==
  ASSUME UNCHANGED hand
  PROVE  Held' = Held
BY DEF Held

LEMMA QuietDownload ==
  ASSUME DownloadCount, UNCHANGED <<hand, meter, verdict, moved, inWindow>>
  PROVE  DownloadCount'
BY HeldStays DEF DownloadCount, Sum, Units

LEMMA QuietUpload ==
  ASSUME Sound, UploadCount, kind = "upload", NEW s \in Stream, QuietStep(s),
         tally' = [tally EXCEPT ![s] = IF pc'[s] = "request" THEN 0 ELSE @],
         UNCHANGED <<accepted, credit>>
  PROVE  UploadCount'
<1>1. pc \in [Stream -> Place] /\ tally \in [Stream -> 0 .. Blob]
      /\ meter.bytes \in Nat /\ inWindow \in Nat
  BY DEF Sound, UploadTypeOK, TypeOK, Meter
<1>2. /\ \A q \in Stream \ {s} : Pending'[q] = Pending[q]
      /\ Pending[s] \in 0 .. Blob /\ Pending'[s] = 0
  BY <1>1, Bounds DEF Pending, QuietStep
<1>3. Sum(Blob, Pending') <= Sum(Blob, Pending) /\ Sum(Blob, Pending') \in Nat
      /\ Sum(Blob, Pending) \in Nat
  <2> DEFINE v == Pending'
             w == Pending
  <2>1. 0 \in 0 .. Blob
    BY Bounds
  <2> HIDE DEF v, w
  <2>2. Sum(Blob, v) = Sum(Blob, w) + v[s] - w[s] /\ Sum(Blob, w) \in Nat
        /\ Sum(Blob, w) = Sum(Blob, v) + w[s] - v[s] /\ Sum(Blob, v) \in Nat
    BY <1>2, <2>1, SumChanges, Bounds DEF v, w
  <2>3. QED
    BY <1>2, <2>2 DEF v, w
<1>4. Held' = Held
  BY HeldStays DEF QuietStep
<1>5. meter.bytes + Sum(Blob, Held') <= Blob * accepted'
  BY <1>4 DEF UploadCount
<1>6. meter.graceEnded => meter.bytes + Sum(Blob, Pending') <= inWindow + Spare(Blob)
  BY <1>1, <1>3, SpareNat, Bounds DEF UploadCount
<1>7. CreditCount'
  BY <1>4 DEF UploadCount, CreditCount, QuietStep
<1>8. QED
  BY <1>5, <1>6, <1>7 DEF UploadCount, QuietStep

\* Adding: what the meter gains the stream no longer has.
LEMMA RecordMeter ==
  ASSUME Sound, NEW s \in Stream, Record(s)
  PROVE  /\ pc[s] = "add" /\ verdict = "running"
         /\ pc' = [pc EXCEPT ![s] = hand[s].next] /\ hand' = [hand EXCEPT ![s] = Empty]
         /\ hand[s].n \in Nat /\ hand[s].next \in {"loop", "body", "failed"}
         /\ UNCHANGED <<clock, expired, wake, verdict, moved>>
         /\ meter' \in Meter /\ meter'.started = 0 /\ meter'.grace = Grace
         /\ \/ /\ ~ meter.graceEnded /\ meter'.graceEnded /\ meter'.baseTime >= Grace
               /\ meter'.bytes = 0 /\ inWindow' = 0
            \/ /\ meter'.graceEnded = meter.graceEnded /\ meter'.baseTime = meter.baseTime
               /\ meter'.bytes = meter.bytes + hand[s].n /\ inWindow' = inWindow
<1>1. /\ pc[s] = "add" /\ meter' = MeterAdd(meter, hand[s].n, clock)
      /\ inWindow' = (IF Crosses(meter, clock) THEN 0 ELSE inWindow)
      /\ pc' = [pc EXCEPT ![s] = hand[s].next] /\ hand' = [hand EXCEPT ![s] = Empty]
      /\ UNCHANGED <<clock, expired, wake, verdict, moved>>
  BY DEF Record, Goto
<1>2. /\ meter \in Meter /\ meter.started = 0 /\ meter.grace = Grace /\ clock \in Nat
      /\ hand[s] \in Hand
  BY TransferAssumption DEF Sound, Timed, UploadTypeOK, TypeOK
<1>3. hand[s].n \in Nat /\ hand[s].next \in {"loop", "body", "failed"}
  BY <1>2 DEF Hand
<1>4. verdict = "running"
  BY <1>1 DEF Sound, Timed
<1> DEFINE m == MeterAdd(meter, hand[s].n, clock)
           crosses == Crosses(meter, clock)
<1>5. /\ m \in Meter /\ m.started = 0 /\ m.grace = meter.grace
      /\ crosses => /\ ~ meter.graceEnded /\ clock >= meter.grace /\ m.graceEnded
                    /\ m.baseTime = clock /\ m.bytes = 0
      /\ ~ crosses => /\ m.graceEnded = meter.graceEnded /\ m.baseTime = meter.baseTime
                      /\ m.bytes = meter.bytes + hand[s].n
  <2>1. AddsSample(meter, hand[s].n, clock)
    BY <1>2, <1>3, SampleAdded, Zenon
  <2>2. QED
    BY <2>1 DEF AddsSample
<1>6. meter' = m /\ inWindow' = (IF crosses THEN 0 ELSE inWindow)
  BY <1>1
<1> HIDE DEF m, crosses
<1>7. CASE crosses
  BY <1>1, <1>2, <1>3, <1>4, <1>5, <1>6, <1>7
<1>8. CASE ~ crosses
  BY <1>1, <1>2, <1>3, <1>4, <1>5, <1>6, <1>8
<1>9. QED
  BY <1>7, <1>8

LEMMA RecordSound ==
  ASSUME Sound, NEW s \in Stream, Record(s), UNCHANGED kind,
         tally' \in [Stream -> 0 .. Blob], accepted' \in Nat, credit' \in Nat
  PROVE  Sound'
<1>1. /\ pc[s] = "add" /\ verdict = "running"
      /\ pc' = [pc EXCEPT ![s] = hand[s].next] /\ hand' = [hand EXCEPT ![s] = Empty]
      /\ hand[s].n \in Nat /\ hand[s].next \in {"loop", "body", "failed"}
      /\ UNCHANGED <<clock, expired, wake, verdict, moved>>
      /\ meter' \in Meter /\ meter'.started = 0 /\ meter'.grace = Grace
  BY RecordMeter
<1>2. \/ meter'.graceEnded /\ meter'.baseTime >= Grace /\ inWindow' = 0
      \/ /\ meter'.graceEnded = meter.graceEnded /\ meter'.baseTime = meter.baseTime
         /\ inWindow' = inWindow
  BY RecordMeter
<1>3. /\ pc \in [Stream -> Place] /\ hand \in [Stream -> Hand] /\ Empty \in Hand
      /\ inWindow \in 0 .. moved /\ moved \in Nat
  BY DEF Sound, UploadTypeOK, TypeOK, Empty, Hand
<1>4. pc' \in [Stream -> Place] /\ hand' \in [Stream -> Hand] /\ inWindow' \in 0 .. moved'
  BY <1>1, <1>2, <1>3 DEF Place
<1>5. UploadTypeOK'
  BY <1>1, <1>4 DEF Sound, UploadTypeOK, TypeOK
<1>6. \A q \in Stream : pc'[q] = "done" => pc[q] = "done"
  BY <1>1, <1>3
<1>7. Timed'
  BY <1>1, <1>2, <1>6 DEF Sound, Timed
<1>8. Handed'
  <2> SUFFICES ASSUME NEW q \in Stream
               PROVE  /\ pc'[q] # "add" => hand'[q].n = 0
                      /\ kind = "download" => hand'[q].n <= MaxRead
                      /\ kind = "upload" =>
                           /\ pc'[q] # "body"
                           /\ pc'[q] = "add" => hand'[q].n <= Blob /\ hand'[q].next = "loop"
    BY DEF Handed
  <2>1. CASE q = s
    <3>1. hand'[q].n = 0 /\ pc'[q] = hand[s].next
      BY <1>1, <1>3, <2>1 DEF Empty
    <3>2. kind = "upload" => hand[s].next = "loop"
      BY <1>1 DEF Sound, Handed
    <3>3. QED
      BY <1>1, <3>1, <3>2, Bounds
  <2>2. CASE q # s
    BY <1>1, <1>3, <2>2 DEF Sound, Handed
  <2>3. QED
    BY <2>1, <2>2
<1>9. QED
  BY <1>1, <1>5, <1>7, <1>8 DEF Sound, Kinds, Judged

\* What the others hold after s has added its share.
LEMMA RecordHeld ==
  ASSUME Sound, NEW s \in Stream, Record(s), NEW cap \in Nat, hand[s].n <= cap
  PROVE  /\ Sum(cap, Held') = Sum(cap, Held) - hand[s].n
         /\ Sum(cap, Held) \in Nat /\ Sum(cap, Held') \in Nat
         /\ Sum(cap, Held') <= Spare(cap)
<1>1. hand \in [Stream -> Hand] /\ hand' = [hand EXCEPT ![s] = Empty] /\ hand[s].n \in Nat
  BY RecordMeter DEF Sound, UploadTypeOK, TypeOK
<1> DEFINE v == Held'
           w == Held
<1>2. /\ \A q \in Stream \ {s} : v[q] = w[q]
      /\ w[s] = hand[s].n /\ v[s] = 0 /\ w[s] \in 0 .. cap /\ v[s] \in 0 .. cap
  BY <1>1 DEF Held, Empty
<1> HIDE DEF v, w
<1>3. Sum(cap, v) = Sum(cap, w) + v[s] - w[s] /\ Sum(cap, w) \in Nat
  BY <1>2, SumChanges
<1>4. Sum(cap, v) \in Nat
  BY UnitsFinite DEF Sum, Units
<1>5. Sum(cap, v) <= Spare(cap)
  BY <1>2, SumBound DEF Spare
<1>6. QED
  BY <1>1, <1>2, <1>3, <1>4, <1>5 DEF v, w

LEMMA RecordDownload ==
  ASSUME Sound, DownloadCount, kind = "download", NEW s \in Stream, Record(s)
  PROVE  DownloadCount'
<1>1. hand[s].n <= MaxRead /\ hand[s].n \in Nat /\ meter.bytes \in Nat /\ inWindow \in Nat
      /\ Spare(MaxRead) \in Nat
  BY RecordMeter, SpareNat, Bounds DEF Sound, Handed, UploadTypeOK, TypeOK, Meter
<1>2. /\ Sum(MaxRead, Held') = Sum(MaxRead, Held) - hand[s].n
      /\ Sum(MaxRead, Held) \in Nat /\ Sum(MaxRead, Held') \in Nat
      /\ Sum(MaxRead, Held') <= Spare(MaxRead)
  BY <1>1, RecordHeld, Bounds
<1>3. /\ verdict' = "running" /\ moved' = moved
      /\ \/ meter'.graceEnded /\ meter'.bytes = 0 /\ inWindow' = 0
         \/ /\ meter'.graceEnded = meter.graceEnded
            /\ meter'.bytes = meter.bytes + hand[s].n /\ inWindow' = inWindow
  BY RecordMeter
<1> DEFINE h == Sum(MaxRead, Held')
<1>4. /\ meter'.graceEnded =>
            inWindow' <= meter'.bytes + h /\ meter'.bytes + h <= inWindow' + Spare(MaxRead)
      /\ ~ meter'.graceEnded => moved' = meter'.bytes + h
  BY <1>1, <1>2, <1>3 DEF DownloadCount
<1>5. QED
  BY <1>3, <1>4 DEF DownloadCount

LEMMA RecordUpload ==
  ASSUME Sound, UploadCount, kind = "upload", NEW s \in Stream, Record(s),
         tally' = [tally EXCEPT ![s] = IF pc'[s] = "request" THEN 0 ELSE @],
         UNCHANGED accepted, Credited
  PROVE  UploadCount'
<1>1. /\ pc \in [Stream -> Place] /\ tally \in [Stream -> 0 .. Blob]
      /\ meter.bytes \in Nat /\ inWindow \in Nat /\ Spare(Blob) \in Nat
      /\ accepted \in Nat /\ Blob \in Nat /\ credit \in Nat
  BY SpareNat, Bounds DEF Sound, UploadTypeOK, TypeOK, Meter
<1> DEFINE n == hand[s].n
<1>2. /\ pc[s] = "add" /\ pc' = [pc EXCEPT ![s] = "loop"]
      /\ n \in 0 .. Blob /\ hand' = [hand EXCEPT ![s] = Empty]
  BY RecordMeter DEF Sound, Handed
<1>3. /\ Sum(Blob, Held') = Sum(Blob, Held) - n
      /\ Sum(Blob, Held) \in Nat /\ Sum(Blob, Held') \in Nat
      /\ Sum(Blob, Held') <= Spare(Blob)
  BY <1>1, <1>2, RecordHeld
<1>4. /\ Sum(Blob, Pending') = Sum(Blob, Pending) - n
      /\ Sum(Blob, Pending) \in Nat /\ Sum(Blob, Pending') \in Nat
      /\ Sum(Blob, Pending') <= Spare(Blob)
  <2> DEFINE v == Pending'
             w == Pending
  <2>1. /\ \A q \in Stream \ {s} : v[q] = w[q]
        /\ w[s] = n /\ v[s] = 0 /\ w[s] \in 0 .. Blob /\ v[s] \in 0 .. Blob
    <3>1. hand \in [Stream -> Hand]
      BY DEF Sound, UploadTypeOK, TypeOK
    <3>2. \A q \in Stream \ {s} : hand'[q] = hand[q] /\ pc'[q] = pc[q] /\ tally'[q] = tally[q]
      BY <1>1, <1>2, <3>1
    <3>3. pc'[s] = "loop" /\ pc[s] = "add"
      BY <1>1, <1>2
    <3>4. QED
      BY <1>1, <1>2, <3>2, <3>3 DEF Pending
  <2> HIDE DEF v, w
  <2>2. Sum(Blob, v) = Sum(Blob, w) + v[s] - w[s] /\ Sum(Blob, w) \in Nat
    <3>1. w[s] \in 0 .. Blob /\ v[s] \in 0 .. Blob /\ \A q \in Stream \ {s} : v[q] = w[q]
      BY <2>1
    <3>2. Blob \in Nat
      BY Bounds
    <3>3. QED
      BY <3>1, <3>2, SumChanges, Zenon
  <2>3. Sum(Blob, v) \in Nat
    BY <1>1, UnitsFinite DEF Sum, Units
  <2>4. Sum(Blob, v) <= Spare(Blob)
    BY <1>1, <2>1, SumBound DEF Spare
  <2>5. QED
    BY <1>1, <2>1, <2>2, <2>3, <2>4 DEF v, w
<1>5. \/ /\ ~ meter.graceEnded /\ meter'.graceEnded
         /\ meter'.bytes = 0 /\ inWindow' = 0 /\ credit' = 0
      \/ /\ meter'.graceEnded = meter.graceEnded /\ credit' = credit
         /\ meter'.bytes = meter.bytes + n /\ inWindow' = inWindow
  BY <1>2, RecordMeter DEF Credited
<1> HIDE DEF n
<1>6. meter'.bytes + Sum(Blob, Held') <= Blob * accepted'
  <2>1. meter.bytes + Sum(Blob, Held) <= Blob * accepted' /\ Blob * accepted' \in Nat
    BY <1>1 DEF UploadCount
  <2>2. QED
    BY <1>1, <1>2, <1>3, <1>5, <2>1
<1>7. meter'.graceEnded => meter'.bytes + Sum(Blob, Pending') <= inWindow' + Spare(Blob)
  <2>1. CASE meter'.bytes = 0 /\ inWindow' = 0
    BY <1>1, <1>4, <2>1
  <2>2. CASE /\ meter'.graceEnded = meter.graceEnded
             /\ meter'.bytes = meter.bytes + n /\ inWindow' = inWindow
    <3>1. meter'.graceEnded => meter.bytes + Sum(Blob, Pending) <= inWindow + Spare(Blob)
      BY <2>2 DEF UploadCount
    <3>2. QED
      BY <1>1, <1>2, <1>4, <2>2, <3>1
  <2>3. QED
    BY <1>5, <2>1, <2>2
<1>8. CreditCount'
  <2> DEFINE h == Sum(Blob, Held')
  <2>1. /\ meter'.graceEnded =>
              credit' <= meter'.bytes + h /\ meter'.bytes + h <= credit' + Spare(Blob)
        /\ ~ meter'.graceEnded => credit' = meter'.bytes + h
    BY <1>1, <1>2, <1>3, <1>5 DEF UploadCount, CreditCount
  <2>2. QED
    BY <2>1 DEF CreditCount
<1>9. QED
  BY <1>6, <1>7, <1>8 DEF UploadCount

\* Reading: the stream has what has moved.
LEMMA ReadKeeps ==
  ASSUME Sound, DownloadCount, kind = "download", NEW s \in Stream, Read(s),
         UNCHANGED <<kind, tally, accepted, credit>>
  PROVE  Sound' /\ DownloadCount'
<1>1. PICK n \in 1 .. MaxRead, next \in {"body", "loop", "failed"} :
        Moves(n) /\ hand' = [hand EXCEPT ![s] = [n |-> n, next |-> next]]
  BY DEF Read
<1>2. /\ pc[s] = "body" /\ pc' = [pc EXCEPT ![s] = "add"]
      /\ UNCHANGED <<clock, expired, wake, meter, verdict>>
  BY DEF Read, Goto
<1>3. /\ pc \in [Stream -> Place] /\ hand \in [Stream -> Hand] /\ n \in Nat
      /\ [n |-> n, next |-> next] \in Hand
      /\ moved \in Nat /\ inWindow \in 0 .. moved /\ meter.bytes \in Nat
  BY <1>1, Bounds DEF Sound, UploadTypeOK, TypeOK, Hand, Meter
<1>4. /\ moved' = moved + n /\ moved' <= MaxMoved
      /\ inWindow' = IF meter.graceEnded THEN inWindow + n ELSE inWindow
  BY <1>1 DEF Moves
<1>5. UploadTypeOK'
  <2>1. moved' \in 0 .. MaxMoved /\ inWindow' \in 0 .. moved'
    BY <1>3, <1>4, TransferAssumption
  <2>2. pc' \in [Stream -> Place] /\ hand' \in [Stream -> Hand]
    BY <1>1, <1>2, <1>3 DEF Place
  <2>3. QED
    BY <1>2, <2>1, <2>2 DEF Sound, UploadTypeOK, TypeOK
<1>6. Timed'
  <2>1. \A q \in Stream : pc'[q] = "done" => pc[q] = "done"
    BY <1>2, <1>3
  <2>2. verdict = "running"
    BY <1>2 DEF Sound, Timed
  <2>3. ~ meter.graceEnded => inWindow' = 0
    BY <1>4 DEF Sound, Timed
  <2>4. QED
    BY <1>2, <2>1, <2>2, <2>3 DEF Sound, Timed
<1>7. Handed'
  BY <1>1, <1>2, <1>3 DEF Sound, Handed
<1>8. Sum(MaxRead, Held') = Sum(MaxRead, Held) + n /\ Sum(MaxRead, Held) \in Nat
  <2> DEFINE v == Held'
             w == Held
  <2>1. hand[s].n = 0 /\ hand'[s].n = n /\ \A q \in Stream \ {s} : hand'[q] = hand[q]
    BY <1>1, <1>2, <1>3 DEF Sound, Handed
  <2>2. /\ \A q \in Stream \ {s} : v[q] = w[q]
        /\ w[s] = 0 /\ v[s] = n /\ w[s] \in 0 .. MaxRead /\ v[s] \in 0 .. MaxRead
    BY <1>3, <2>1, Bounds DEF Held
  <2> HIDE DEF v, w
  <2>3. Sum(MaxRead, v) = Sum(MaxRead, w) + v[s] - w[s] /\ Sum(MaxRead, w) \in Nat
    BY <2>2, SumChanges, Bounds
  <2>4. QED
    BY <1>3, <2>2, <2>3 DEF v, w
<1>9. DownloadCount'
  <2> DEFINE h == Sum(MaxRead, Held')
  <2>1. verdict = "running" /\ Spare(MaxRead) \in Nat
    BY <1>2, SpareNat, Bounds DEF Sound, Timed
  <2>2. /\ meter.graceEnded =>
              inWindow' <= meter.bytes + h /\ meter.bytes + h <= inWindow' + Spare(MaxRead)
        /\ ~ meter.graceEnded => moved' = meter.bytes + h
    <3>1. CASE meter.graceEnded
      BY <1>3, <1>4, <1>8, <2>1, <3>1 DEF DownloadCount
    <3>2. CASE ~ meter.graceEnded
      BY <1>3, <1>4, <1>8, <3>2 DEF DownloadCount
    <3>3. QED
      BY <3>1, <3>2
  <2> HIDE DEF h
  <2>3. QED
    BY <1>2, <2>1, <2>2 DEF DownloadCount, h
<1>10. QED
  BY <1>2, <1>5, <1>6, <1>7, <1>9 DEF Sound, Kinds, Judged

\* Sending: what the stream has sent has moved.
LEMMA SendKeeps ==
  ASSUME Sound, UploadCount, kind = "upload", NEW s \in Stream, Send(s), UNCHANGED kind
  PROVE  Sound' /\ UploadCount'
<1>1. /\ pc[s] = "request" /\ tally[s] < Blob /\ Moves(1)
      /\ tally' = [tally EXCEPT ![s] = @ + 1]
      /\ UNCHANGED <<clock, expired, pc, wake, hand, meter, verdict, accepted, credit>>
  BY DEF Send
<1>2. /\ pc \in [Stream -> Place] /\ tally \in [Stream -> 0 .. Blob] /\ Blob \in Nat
      /\ moved \in Nat /\ inWindow \in 0 .. moved /\ meter.bytes \in Nat
  BY Bounds DEF Sound, UploadTypeOK, TypeOK, Meter
<1>3. /\ moved' = moved + 1 /\ moved' <= MaxMoved
      /\ inWindow' = IF meter.graceEnded THEN inWindow + 1 ELSE inWindow
  BY <1>1 DEF Moves
<1>4. UploadTypeOK'
  <2>1. moved' \in 0 .. MaxMoved /\ inWindow' \in 0 .. moved'
    BY <1>2, <1>3, TransferAssumption
  <2>2. tally' \in [Stream -> 0 .. Blob]
    BY <1>1, <1>2
  <2>3. QED
    BY <1>1, <2>1, <2>2 DEF Sound, UploadTypeOK, TypeOK
<1>5. Timed'
  <2>1. ~ meter.graceEnded => inWindow' = 0
    BY <1>3 DEF Sound, Timed
  <2>2. QED
    BY <1>1, <2>1 DEF Sound, Timed
<1>6. Handed'
  BY <1>1 DEF Sound, Handed
<1>7. Sum(Blob, Pending') = Sum(Blob, Pending) + 1 /\ Sum(Blob, Pending) \in Nat
  <2> DEFINE v == Pending'
             w == Pending
  <2>1. /\ \A q \in Stream \ {s} : v[q] = w[q]
        /\ v[s] = w[s] + 1 /\ w[s] \in 0 .. Blob /\ v[s] \in 0 .. Blob
    BY <1>1, <1>2 DEF Pending
  <2> HIDE DEF v, w
  <2>2. Sum(Blob, v) = Sum(Blob, w) + v[s] - w[s] /\ Sum(Blob, w) \in Nat
    BY <1>2, <2>1, SumChanges
  <2>3. QED
    BY <2>1, <2>2 DEF v, w
<1>8. UploadCount'
  <2>1. meter.bytes + Sum(Blob, Held') <= Blob * accepted'
    BY <1>1, HeldStays DEF UploadCount
  <2>2. meter.graceEnded => meter.bytes + Sum(Blob, Pending') <= inWindow' + Spare(Blob)
    <3> SUFFICES ASSUME meter.graceEnded
                 PROVE  meter.bytes + Sum(Blob, Pending') <= inWindow' + Spare(Blob)
      OBVIOUS
    <3>1. meter.bytes + Sum(Blob, Pending) <= inWindow + Spare(Blob) /\ inWindow' = inWindow + 1
          /\ Spare(Blob) \in Nat
      BY <1>2, <1>3, SpareNat DEF UploadCount
    <3>2. QED
      BY <1>2, <1>7, <3>1
  <2>3. CreditCount'
    BY <1>1, HeldStays DEF UploadCount, CreditCount
  <2>4. QED
    BY <1>1, <2>1, <2>2, <2>3 DEF UploadCount
<1>9. QED
  BY <1>1, <1>4, <1>5, <1>6, <1>8 DEF Sound, Kinds, Judged

\* What the stream has in hand of an accepted blob, it has sent.
LEMMA AcceptKeeps ==
  ASSUME Sound, UploadCount, kind = "upload", NEW s \in Stream, Accept(s), UNCHANGED kind
  PROVE  Sound' /\ UploadCount'
<1> PICK n \in 0 .. tally[s] : Took(s, n) /\ credit' = credit + n
  BY DEF Accept
<1>1. /\ pc[s] = "request" /\ pc' = [pc EXCEPT ![s] = "add"]
      /\ hand' = [hand EXCEPT ![s] = [n |-> n, next |-> "loop"]]
      /\ accepted' = accepted + 1 /\ credit' = credit + n
      /\ UNCHANGED <<clock, expired, wake, meter, verdict, moved, inWindow, tally>>
  BY DEF Accept, Took, Goto
<1>2. /\ pc \in [Stream -> Place] /\ hand \in [Stream -> Hand] /\ Blob \in Nat
      /\ tally \in [Stream -> 0 .. Blob] /\ n \in Nat /\ n <= tally[s] /\ n <= Blob
      /\ [n |-> n, next |-> "loop"] \in Hand
      /\ accepted \in Nat /\ credit \in Nat /\ meter.bytes \in Nat /\ inWindow \in Nat
  <2>1. tally \in [Stream -> 0 .. Blob] /\ Blob \in Nat
    BY Bounds DEF Sound, UploadTypeOK
  <2>2. n \in Nat /\ n <= tally[s] /\ n <= Blob
    BY <2>1
  <2>3. inWindow \in Nat
    BY DEF Sound, UploadTypeOK, TypeOK
  <2>4. QED
    BY <2>1, <2>2, <2>3 DEF Sound, UploadTypeOK, TypeOK, Hand, Meter
<1>3. UploadTypeOK'
  <2>1. pc' \in [Stream -> Place] /\ hand' \in [Stream -> Hand] /\ accepted' \in Nat /\ credit' \in Nat
    BY <1>1, <1>2 DEF Place
  <2>2. QED
    BY <1>1, <2>1 DEF Sound, UploadTypeOK, TypeOK
<1>4. Timed'
  <2>1. \A q \in Stream : pc'[q] = "done" => pc[q] = "done"
    BY <1>1, <1>2
  <2>2. verdict = "running"
    BY <1>1 DEF Sound, Timed
  <2>3. QED
    BY <1>1, <2>1, <2>2 DEF Sound, Timed
<1>5. Handed'
  BY <1>1, <1>2 DEF Sound, Handed
<1>6. Sum(Blob, Held') = Sum(Blob, Held) + n /\ Sum(Blob, Held) \in Nat
  <2> DEFINE v == Held'
             w == Held
  <2>1. hand[s].n = 0 /\ hand'[s].n = n /\ \A q \in Stream \ {s} : hand'[q] = hand[q]
    BY <1>1, <1>2 DEF Sound, Handed
  <2>2. /\ \A q \in Stream \ {s} : v[q] = w[q]
        /\ w[s] = 0 /\ v[s] = n /\ w[s] \in 0 .. Blob /\ v[s] \in 0 .. Blob
    BY <1>2, <2>1 DEF Held
  <2> HIDE DEF v, w
  <2>3. Sum(Blob, v) = Sum(Blob, w) + v[s] - w[s] /\ Sum(Blob, w) \in Nat
    BY <2>2, SumChanges, Bounds
  <2>4. QED
    BY <1>2, <2>2, <2>3 DEF v, w
<1>7. /\ Sum(Blob, Pending') = Sum(Blob, Pending) + n - tally[s]
      /\ Sum(Blob, Pending) \in Nat
  <2> DEFINE v == Pending'
             w == Pending
  <2>1. /\ \A q \in Stream \ {s} : v[q] = w[q]
        /\ w[s] = tally[s] /\ v[s] = n /\ w[s] \in 0 .. Blob /\ v[s] \in 0 .. Blob
    BY <1>1, <1>2 DEF Pending
  <2> HIDE DEF v, w
  <2>2. Sum(Blob, v) = Sum(Blob, w) + v[s] - w[s] /\ Sum(Blob, w) \in Nat
    BY <1>2, <2>1, SumChanges
  <2>3. QED
    BY <2>1, <2>2 DEF v, w
<1>8. UploadCount'
  <2>1. Blob * accepted' = Blob * accepted + Blob /\ Blob * accepted \in Nat
    BY <1>1, <1>2
  <2>2. meter.bytes + Sum(Blob, Held') <= Blob * accepted'
    BY <1>2, <1>6, <2>1 DEF UploadCount
  <2>3. meter.graceEnded => meter.bytes + Sum(Blob, Pending') <= inWindow + Spare(Blob)
    <3> SUFFICES ASSUME meter.graceEnded
                 PROVE  meter.bytes + Sum(Blob, Pending') <= inWindow + Spare(Blob)
      OBVIOUS
    <3>1. meter.bytes + Sum(Blob, Pending) <= inWindow + Spare(Blob) /\ Spare(Blob) \in Nat
      BY <1>2, SpareNat DEF UploadCount
    <3>2. tally[s] \in Nat
      BY <1>2
    <3>3. QED
      BY <1>2, <1>7, <3>1, <3>2
  <2>4. CreditCount'
    <3> DEFINE h == Sum(Blob, Held')
    <3>1. Spare(Blob) \in Nat
      BY <1>2, SpareNat
    <3>2. /\ meter.graceEnded =>
                credit' <= meter.bytes + h /\ meter.bytes + h <= credit' + Spare(Blob)
          /\ ~ meter.graceEnded => credit' = meter.bytes + h
      BY <1>1, <1>2, <1>6, <3>1 DEF UploadCount, CreditCount
    <3>3. QED
      BY <1>1, <3>2 DEF CreditCount
  <2>5. QED
    BY <1>1, <2>2, <2>3, <2>4 DEF UploadCount
<1>9. QED
  BY <1>1, <1>3, <1>4, <1>5, <1>8 DEF Sound, Kinds, Judged

----------------------------------------------------------------------------
(* The steps of the phase.                                                 *)

LEMMA TimeKeeps ==
  ASSUME Sound, Expire \/ Tick, UNCHANGED <<kind, tally, accepted, credit>>
  PROVE  /\ Sound'
         /\ DownloadCount => DownloadCount'
         /\ UploadCount => UploadCount'
<1>1. /\ UNCHANGED <<pc, wake, hand, meter, verdict, moved, inWindow>>
      /\ clock' \in 0 .. MaxTime /\ clock' >= clock /\ clock \in Nat /\ clock' \in Nat
      /\ expired' \in BOOLEAN /\ (expired => expired') /\ (expired' => expired \/ clock' >= Total)
  <2>1. clock \in 0 .. MaxTime /\ expired \in BOOLEAN /\ MaxTime \in Nat
    BY TransferAssumption DEF Sound, UploadTypeOK, TypeOK
  <2>2. CASE Expire
    BY <2>1, <2>2 DEF Expire
  <2>3. CASE Tick
    BY <2>1, <2>3 DEF Tick
  <2>4. QED
    BY <2>2, <2>3
<1>2. UploadTypeOK'
  BY <1>1 DEF Sound, UploadTypeOK, TypeOK
<1>3. Timed'
  <2>1. expired' => clock' >= Total
    BY <1>1, Bounds DEF Sound, Timed
  <2>2. QED
    BY <1>1, <2>1 DEF Sound, Timed
<1>4. Handed'
  BY <1>1 DEF Sound, Handed
<1>5. DownloadCount => DownloadCount'
  BY <1>1, QuietDownload
<1>6. UploadCount => UploadCount'
  <2>1. Held' = Held /\ Pending' = Pending
    BY <1>1 DEF Held, Pending
  <2>2. QED
    BY <1>1, <2>1 DEF UploadCount, CreditCount
<1>7. QED
  BY <1>1, <1>2, <1>3, <1>4, <1>5, <1>6 DEF Sound, Kinds, Judged

LEMMA FinishKeeps ==
  ASSUME Sound, Finish, UNCHANGED <<kind, tally, accepted, credit>>
  PROVE  /\ Sound'
         /\ DownloadCount => DownloadCount'
         /\ UploadCount => UploadCount'
<1>1. /\ verdict = "running" /\ \A s \in Stream : pc[s] = "done"
      /\ meter' = MeterStop(meter, clock) /\ verdict' = Judge(meter')
      /\ UNCHANGED <<clock, expired, pc, wake, hand, moved, inWindow>>
  BY DEF Finish
<1>2. meter \in Meter /\ meter.started = 0 /\ meter.grace = Grace /\ clock \in Nat
  BY DEF Sound, UploadTypeOK, TypeOK, Timed
<1>3. /\ meter' \in Meter /\ meter'.started = 0 /\ meter'.grace = Grace
      /\ meter'.graceEnded = meter.graceEnded /\ meter'.baseTime = meter.baseTime
      /\ meter'.bytes = meter.bytes
      /\ meter.graceEnded => meter'.baseTime + meter'.elapsed >= clock
  BY <1>1, <1>2, Stopped DEF Never
<1>4. verdict' \in {"ok", "failed"} /\ (verdict' = "failed" <=> meter'.bytes = 0)
  BY <1>1 DEF Judge
<1>5. expired /\ clock >= Total
  BY <1>1, TransferAssumption DEF Sound, Timed
<1>6. UploadTypeOK'
  BY <1>1, <1>3, <1>4 DEF Sound, UploadTypeOK, TypeOK
<1>7. Timed'
  <2>1. meter'.graceEnded => meter'.baseTime + meter'.elapsed >= Total
    <3>1. meter'.baseTime \in Int /\ meter'.elapsed \in Nat
      BY <1>3 DEF Meter
    <3>2. QED
      BY <1>2, <1>3, <1>5, <3>1, Bounds
  <2>2. QED
    BY <1>1, <1>3, <2>1 DEF Sound, Timed
<1>8. Handed'
  BY <1>1 DEF Sound, Handed
<1>9. Held' = Held /\ Pending' = Pending
  BY <1>1 DEF Held, Pending
<1>10. DownloadCount => DownloadCount'
  BY <1>1, <1>3, <1>9 DEF DownloadCount
<1>11. UploadCount => UploadCount'
  BY <1>1, <1>3, <1>9 DEF UploadCount, CreditCount
<1>12. QED
  BY <1>4, <1>6, <1>7, <1>8, <1>10, <1>11 DEF Sound, Kinds, Judged

LEMMA DownloadKeeps ==
  ASSUME CliInv, kind = "download", DownloadNext, UNCHANGED <<kind, tally, accepted, credit>>
  PROVE  CliInv'
<1>1. Sound /\ DownloadCount
  BY DEF CliInv
<1>2. tally' \in [Stream -> 0 .. Blob] /\ accepted' \in Nat /\ credit' \in Nat
  BY <1>1 DEF Sound, UploadTypeOK
<1>3. SUFFICES Sound' /\ DownloadCount'
  BY DEF CliInv
<1>4. ASSUME NEW s \in Stream, QuietStep(s) PROVE Sound' /\ DownloadCount'
  BY <1>1, <1>2, <1>4, QuietSound, QuietDownload DEF QuietStep
<1>5. ASSUME NEW s \in Stream, LoopStep(s) PROVE Sound' /\ DownloadCount'
  <2>1. CASE Record(s)
    BY <1>1, <1>2, <2>1, RecordSound, RecordDownload
  <2>2. CASE ~ Record(s)
    <3>1. QuietStep(s)
      BY <1>1, <1>5, <2>2, LoopQuiet DEF LoopStep
    <3>2. QED
      BY <1>4, <3>1
  <2>3. QED
    BY <2>1, <2>2
<1>6. ASSUME NEW s \in Stream, DownloadStep(s) PROVE Sound' /\ DownloadCount'
  <2>1. CASE Read(s)
    BY <1>1, <2>1, ReadKeeps
  <2>2. CASE ReplyOK(s) \/ EndOfBody(s)
    <3>1. /\ pc[s] \in {"request", "body"} /\ pc \in [Stream -> Place]
          /\ pc' = [pc EXCEPT ![s] = "body"] \/ pc' = [pc EXCEPT ![s] = "loop"]
          /\ UNCHANGED <<hand, clock, expired, meter, verdict, moved, inWindow>>
          /\ wake' \in [Stream -> Nat]
      BY <1>1, <2>2 DEF ReplyOK, EndOfBody, Goto, Rest, Sound, UploadTypeOK, TypeOK
    <3>2. QuietStep(s)
      BY <3>1 DEF QuietStep, Place
    <3>3. QED
      BY <1>4, <3>2
  <2>3. QED
    BY <1>6, <2>1, <2>2 DEF DownloadStep
<1>7. CASE Expire \/ Tick \/ Finish
  BY <1>1, <1>7, TimeKeeps, FinishKeeps
<1>8. QED
  BY <1>5, <1>6, <1>7 DEF DownloadNext, SharedStep

LEMMA UploadKeeps ==
  ASSUME CliInv, kind = "upload", UploadNext, UNCHANGED kind
  PROVE  CliInv'
<1>1. Sound /\ UploadCount
  BY DEF CliInv
<1>2. SUFFICES Sound' /\ UploadCount'
  BY DEF CliInv
<1>3. ASSUME NEW s \in Stream, UploadLoop(s) PROVE Sound' /\ UploadCount'
  <2>1. /\ LoopStep(s) /\ UNCHANGED accepted /\ Credited
        /\ tally' = [tally EXCEPT ![s] = IF pc'[s] = "request" THEN 0 ELSE @]
    BY <1>3 DEF UploadLoop
  <2>2. tally' \in [Stream -> 0 .. Blob] /\ accepted' \in Nat /\ credit' \in Nat
    BY <1>1, <2>1, Bounds DEF Sound, UploadTypeOK, Credited
  <2>3. CASE Record(s)
    BY <1>1, <2>1, <2>2, <2>3, RecordSound, RecordUpload
  <2>4. CASE ~ Record(s)
    <3>1. QuietStep(s)
      BY <1>1, <2>1, <2>4, LoopQuiet DEF LoopStep
    <3>2. credit' = credit
      BY <2>1, <3>1 DEF Credited, QuietStep
    <3>3. QED
      BY <1>1, <2>1, <2>2, <3>1, <3>2, QuietSound, QuietUpload
  <2>5. QED
    BY <2>3, <2>4
<1>4. ASSUME NEW s \in Stream, Send(s) \/ Accept(s) PROVE Sound' /\ UploadCount'
  BY <1>1, <1>4, SendKeeps, AcceptKeeps
<1>5. CASE (Expire \/ Finish \/ Tick) /\ UNCHANGED <<tally, accepted, credit>>
  BY <1>1, <1>5, TimeKeeps, FinishKeeps
<1>6. QED
  BY <1>3, <1>4, <1>5 DEF UploadNext

LEMMA StepKeeps == CliInv /\ [CliNext]_cvars => CliInv'
<1> SUFFICES ASSUME CliInv, [CliNext]_cvars PROVE CliInv'
  OBVIOUS
<1>1. CASE CliNext
  BY <1>1, DownloadKeeps, UploadKeeps DEF CliNext
<1>2. CASE UNCHANGED cvars
  <2>1. UNCHANGED <<clock, expired, pc, wake, hand, meter, verdict, moved, inWindow,
                    tally, accepted, credit, kind>>
    BY <1>2 DEF cvars
  <2>2. Held' = Held /\ Pending' = Pending
    BY <2>1 DEF Held, Pending
  <2>3. Sound'
    BY <2>1 DEF CliInv, Sound, UploadTypeOK, TypeOK, Kinds, Timed, Handed, Judged
  <2>4. (kind = "download" => DownloadCount') /\ (kind = "upload" => UploadCount')
    BY <2>1, <2>2 DEF CliInv, DownloadCount, UploadCount, CreditCount
  <2>5. QED
    BY <2>1, <2>3, <2>4 DEF CliInv
<1>3. QED
  BY <1>1, <1>2

LEMMA AlwaysInv == CliSpec => []CliInv
BY InitHolds, StepKeeps, PTL DEF CliSpec

----------------------------------------------------------------------------
(***************************************************************************)
(* The state of a phase keeps its types, for any number of streams: in     *)
(* particular the meter, which all of them add to, never goes below zero.  *)
(***************************************************************************)
THEOREM TransferTypeCorrect == CliSpec => []UploadTypeOK
<1>1. CliInv => UploadTypeOK
  BY DEF CliInv, Sound
<1>2. QED
  BY <1>1, AlwaysInv, PTL

(***************************************************************************)
(* No stream of runDownload or runUpload ends before the context is done,  *)
(* and the meter that was stopped reports a window up to the end of the    *)
(* phase, whatever failed or stalled, and whenever.                        *)
(***************************************************************************)
THEOREM WindowIsWhole == CliSpec => []WholeWindowReported
<1>1. CliInv => WholeWindowReported
  BY DEF CliInv, Sound, Timed, WholeWindowReported
<1>2. QED
  BY <1>1, AlwaysInv, PTL

(***************************************************************************)
(* Of a download the meter holds all that was read in the window and added *)
(* and at most one read of every other stream too much; of an upload all   *)
(* that was accepted in it and added, and at most one blob of every other  *)
(* stream too much.  Against what was sent in the window an upload is only *)
(* bounded above: what was sent and not accepted is not counted.  A phase  *)
(* fails exactly if the meter is left with nothing.  The number of streams *)
(* and the order in which they cross the end of the grace period make no   *)
(* difference.                                                             *)
(***************************************************************************)
THEOREM WindowCounts == CliSpec => []WindowIsCounted
<1>1. CliInv => WindowIsCounted
  <2> SUFFICES ASSUME CliInv PROVE WindowIsCounted
    OBVIOUS
  <2>1. verdict = "ok" => meter.bytes > 0
    BY DEF CliInv, Sound, Judged, UploadTypeOK, TypeOK, Meter
  <2>2. CASE kind = "download"
    <3> DEFINE h == Sum(MaxRead, Held)
    <3>1. DownloadCount /\ Sound
      BY <2>2 DEF CliInv
    <3>2. InHand(MaxRead) = h
      BY DEF InHand, Sum, Units, Held
    <3>3. WindowConserved
      BY <3>1, <3>2 DEF DownloadCount, WindowConserved, Spare
    <3>4. verdict = "failed" => inWindow = 0 /\ (~ meter.graceEnded => moved = 0)
      <4> SUFFICES ASSUME verdict = "failed"
                   PROVE  inWindow = 0 /\ (~ meter.graceEnded => moved = 0)
        OBVIOUS
      <4>1. \A s \in Stream : hand[s].n = 0
        BY <3>1 DEF Sound, Timed, Handed
      <4>2. h = 0
        BY <4>1, SumNone, Bounds DEF Held
      <4>3. meter.bytes = 0 /\ inWindow \in Nat
        BY <3>1 DEF Sound, Judged, UploadTypeOK, TypeOK
      <4> HIDE DEF h
      <4>4. (meter.graceEnded => inWindow <= meter.bytes + h)
            /\ (~ meter.graceEnded => moved = meter.bytes + h)
        BY <3>1 DEF DownloadCount, h
      <4>5. ~ meter.graceEnded => inWindow = 0
        BY <3>1 DEF Sound, Timed
      <4>6. QED
        BY <4>2, <4>3, <4>4, <4>5
    <3>5. QED
      BY <2>1, <2>2, <3>3, <3>4 DEF WindowIsCounted
  <2>3. CASE kind = "upload"
    <3>1. UploadCount /\ meter.bytes \in Nat /\ inWindow \in Nat
      BY <2>3 DEF CliInv, Sound, UploadTypeOK, TypeOK, Meter
    <3>2. Sum(Blob, Pending) \in Nat /\ Spare(Blob) \in Nat
      BY UnitsFinite, SpareNat, Bounds DEF Sum, Units
    <3>3. meter.graceEnded => meter.bytes <= inWindow + Spare(Blob)
      BY <3>1, <3>2 DEF UploadCount
    <3>4. OvercountBounded
      BY <3>3 DEF OvercountBounded, Spare
    <3> DEFINE h == Sum(Blob, Held)
    <3>5. InHand(Blob) = h
      BY DEF InHand, Sum, Units, Held
    <3>6. AcceptedConserved
      BY <3>1, <3>5 DEF UploadCount, CreditCount, AcceptedConserved, Spare
    <3>7. verdict = "failed" => credit = 0
      <4> SUFFICES ASSUME verdict = "failed" PROVE credit = 0
        OBVIOUS
      <4>1. \A s \in Stream : hand[s].n = 0
        BY DEF CliInv, Sound, Timed, Handed
      <4>2. h = 0
        BY <4>1, SumNone, Bounds DEF Held
      <4>3. meter.bytes = 0 /\ credit \in Nat
        BY DEF CliInv, Sound, Judged, UploadTypeOK
      <4> HIDE DEF h
      <4>4. credit <= meter.bytes + h \/ credit = meter.bytes + h
        BY <3>1 DEF UploadCount, CreditCount, h
      <4>5. QED
        BY <4>2, <4>3, <4>4
    <3>8. QED
      BY <2>1, <2>3, <3>4, <3>6, <3>7 DEF WindowIsCounted
  <2>4. QED
    BY <2>2, <2>3 DEF CliInv, Sound, Kinds
<1>2. QED
  BY <1>1, AlwaysInv, PTL

(***************************************************************************)
(* The meter of an upload never holds more than the blobs the server has   *)
(* answered with 200, however many requests fail half-way.                 *)
(***************************************************************************)
THEOREM AcceptedCounts == CliSpec => []UploadCounts
<1>1. CliInv => UploadCounts
  <2> SUFFICES ASSUME CliInv, kind = "upload" PROVE OnlyAcceptedCounts
    BY DEF UploadCounts
  <2>1. UploadCount /\ meter.bytes \in Nat /\ accepted \in Nat
    BY DEF CliInv, Sound, UploadTypeOK, TypeOK, Meter
  <2>2. Sum(Blob, Held) \in Nat /\ Blob * accepted \in Nat
    BY <2>1, UnitsFinite, Bounds DEF Sum, Units
  <2>3. QED
    BY <2>1, <2>2 DEF UploadCount, OnlyAcceptedCounts
<1>2. QED
  BY <1>1, AlwaysInv, PTL

=============================================================================
