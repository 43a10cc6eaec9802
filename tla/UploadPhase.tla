---------------------------- MODULE UploadPhase ----------------------------
(***************************************************************************)
(* uploadOnce in the stream loop of TransferPhase: a POST of one blob,     *)
(* whose bytes a countingReader tallies as the transport takes them and    *)
(* which are added at once when the server has answered 200.               *)
(*                                                                         *)
(* This repository's server answers 200 only after draining the body; then *)
(* the tally is complete and no longer written when it is read.  Another   *)
(* server may answer sooner: the transport is then still reading the body, *)
(* and uploadOnce reads the tally without synchronisation.                 *)
(***************************************************************************)
EXTENDS TransferPhase

CONSTANT Blob   \* units of one blob

ASSUME UploadAssumption == Blob \in Nat \ {0}

VARIABLES
  tally,     \* countingReader.n of each stream
  accepted,  \* history: requests answered with 200
  credit     \* history: their units since the window opened, all before it does

UploadTypeOK ==
  /\ TypeOK
  /\ tally \in [Stream -> 0 .. Blob]
  /\ accepted \in Nat
  /\ credit \in Nat

UploadInit ==
  /\ Init
  /\ tally = [s \in Stream |-> 0]
  /\ accepted = 0
  /\ credit = 0

\* The transport takes a unit of the body.
Send(s) ==
  /\ pc[s] = "request"
  /\ tally[s] < Blob
  /\ Moves(1)
  /\ tally' = [tally EXCEPT ![s] = @ + 1]
  /\ UNCHANGED <<clock, expired, pc, wake, hand, meter, verdict, accepted, credit>>

\* An answer after n bytes as uploadOnce reads the tally.  The transport sends
\* the head of a request together with the first bytes of its body.
Took(s, n) ==
  /\ pc[s] = "request" /\ tally[s] > 0
  /\ hand' = [hand EXCEPT ![s] = [n |-> n, next |-> "loop"]]
  /\ Goto(s, "add")
  /\ UNCHANGED <<clock, expired, wake, meter, verdict, moved, inWindow, tally>>

\* Faulty variant: the tally is added whatever the status of the answer.
AcceptAnyStatus(s) ==
  \E n \in 0 .. tally[s], ok \in BOOLEAN :
    /\ Took(s, n)
    /\ accepted' = IF ok THEN accepted + 1 ELSE accepted
    /\ credit' = IF ok THEN credit + n ELSE credit

\* 200; any other answer is RequestFails.  n is the whole tally of a body that
\* was drained, and any value the tally has had when the answer came sooner.
Accept(s) ==
  /\ \E n \in 0 .. tally[s] : Took(s, n) /\ credit' = credit + n
  /\ accepted' = accepted + 1

\* The sample that opens the window is discarded with all that came before it.
Credited == credit' = IF meter'.graceEnded = meter.graceEnded THEN credit ELSE 0

\* Faulty variant: the attempts of a stream share one countingReader.
UploadLoopOneReader(s) == LoopStep(s) /\ Credited /\ UNCHANGED <<tally, accepted>>

\* Every attempt has a reader of its own.
UploadLoop(s) ==
  /\ LoopStep(s)
  /\ tally' = [tally EXCEPT ![s] = IF pc'[s] = "request" THEN 0 ELSE @]
  /\ Credited
  /\ UNCHANGED accepted

UploadNext ==
  \/ \E s \in Stream : UploadLoop(s) \/ Send(s) \/ Accept(s)
  \/ (Expire \/ Finish \/ Tick) /\ UNCHANGED <<tally, accepted, credit>>

(***************************************************************************)
(* Only accepted uploads contribute: the meter never holds more than one   *)
(* blob for each answer of 200, however many bytes were pushed into the    *)
(* sockets of requests that failed.                                        *)
(***************************************************************************)
OnlyAcceptedCounts == meter.bytes <= Blob * accepted

(***************************************************************************)
(* The bytes of a request are counted together when it is answered, so the *)
(* count can exceed what was sent in the window, but by no more than the   *)
(* blobs of the other streams that were under way when it was opened, also *)
(* when the server answers before it has read them.                        *)
(***************************************************************************)
OvercountBounded ==
  meter.graceEnded =>
    meter.bytes <= inWindow + Blob * (Cardinality(Stream) - 1)

(***************************************************************************)
(* No unit of an upload accepted in the window is lost or counted twice:   *)
(* the meter holds all of them that are not still in hand, plus at most    *)
(* what the other streams had in hand of uploads accepted just before it   *)
(* opened.  Before there is a window it holds all that was accepted.       *)
(***************************************************************************)
AcceptedConserved ==
  /\ meter.graceEnded =>
       /\ credit <= meter.bytes + InHand(Blob)
       /\ meter.bytes + InHand(Blob) <= credit + Blob * (Cardinality(Stream) - 1)
  /\ ~ meter.graceEnded => credit = meter.bytes + InHand(Blob)

=============================================================================
