--------------------------- MODULE DownloadPhase ---------------------------
(***************************************************************************)
(* downloadOnce in the stream loop of TransferPhase: a GET whose body is   *)
(* read piece by piece, every piece added to the meter as it arrives.      *)
(***************************************************************************)
EXTENDS TransferPhase

CONSTANT MaxRead   \* units one Read may return

ASSUME DownloadAssumption == MaxRead \in Nat \ {0}

\* 200; any other answer is RequestFails.
ReplyOK(s) ==
  /\ pc[s] = "request"
  /\ Goto(s, "body")
  /\ UNCHANGED <<wake, hand>> /\ UNCHANGED Rest

\* Read returns bytes, alone or together with EOF or an error.
Read(s) ==
  /\ pc[s] = "body"
  /\ \E n \in 1 .. MaxRead, next \in {"body", "loop", "failed"} :
       /\ Moves(n)
       /\ hand' = [hand EXCEPT ![s] = [n |-> n, next |-> next]]
  /\ Goto(s, "add")
  /\ UNCHANGED <<clock, expired, wake, meter, verdict>>

EndOfBody(s) ==
  /\ pc[s] = "body"
  /\ Goto(s, "loop")
  /\ UNCHANGED <<wake, hand>> /\ UNCHANGED Rest

DownloadStep(s) == ReplyOK(s) \/ Read(s) \/ EndOfBody(s)

DownloadNext == SharedStep \/ \E s \in Stream : DownloadStep(s)

(***************************************************************************)
(* No byte read in the window is lost, none is counted twice or without    *)
(* having been read: the meter holds all that was read since it opened the *)
(* window but is not yet added, plus at most what the other streams had in *)
(* hand at that moment.  Before there is a window it holds everything.     *)
(***************************************************************************)
WindowConserved ==
  /\ meter.graceEnded =>
       /\ inWindow <= meter.bytes + InHand(MaxRead)
       /\ meter.bytes + InHand(MaxRead) <= inWindow + MaxRead * (Cardinality(Stream) - 1)
  /\ ~ meter.graceEnded => moved = meter.bytes + InHand(MaxRead)

=============================================================================
