---------------------------- MODULE CliTransfer ----------------------------
(***************************************************************************)
(* A transfer phase of a CLI run: a download or an upload (run starts one  *)
(* after the other, each with a meter and a context of its own).           *)
(***************************************************************************)
EXTENDS DownloadPhase, UploadPhase

VARIABLE kind   \* which phase this is

cvars == <<clock, expired, pc, wake, hand, meter, verdict, moved, inWindow,
           tally, accepted, credit, kind>>

CliInit == UploadInit /\ kind \in {"download", "upload"}

CliNext ==
  /\ \/ kind = "download" /\ DownloadNext /\ UNCHANGED <<tally, accepted, credit>>
     \/ kind = "upload" /\ UploadNext
  /\ UNCHANGED kind

CliSpec == CliInit /\ [][CliNext]_cvars

FairCliSpec == CliSpec /\ Fairness

(***************************************************************************)
(* No byte read in the window of a download, and none of an upload that    *)
(* was accepted in it, is lost or counted twice; an upload exceeds what    *)
(* was sent in the window by no more than what the other streams had under *)
(* way when it opened.  The verdict follows from what was counted.  The    *)
(* comments at main.go:458-459 and :580 let a phase fail only if no stream *)
(* ever transferred, or delivered, any bytes; in the code it also fails    *)
(* when the only bytes came before the window or opened it.  What does     *)
(* hold: a download that fails read nothing in its window, an upload that  *)
(* fails had nothing accepted in it, and neither had moved, or had         *)
(* accepted, anything at all if the window never opened; a phase that      *)
(* does not fail reports bytes.                                            *)
(***************************************************************************)
WindowIsCounted ==
  /\ kind = "download" =>
       /\ WindowConserved
       /\ verdict = "failed" =>
            inWindow = 0 /\ (~ meter.graceEnded => moved = 0)
  /\ kind = "upload" =>
       /\ OvercountBounded /\ AcceptedConserved
       /\ verdict = "failed" => credit = 0
  /\ verdict = "ok" => meter.bytes > 0

(***************************************************************************)
(* An upload counts nothing the server has not accepted.                   *)
(***************************************************************************)
UploadCounts == kind = "upload" => OnlyAcceptedCounts

=============================================================================
