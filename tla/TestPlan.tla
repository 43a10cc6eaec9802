------------------------------ MODULE TestPlan ------------------------------
(***************************************************************************)
(* The parameters of a test on their way from the server's configuration   *)
(* to its two clients: GET /api/v1/info, which the CLI asks, config.json,  *)
(* which the page loads, and resolveOptions, in which the CLI merges what  *)
(* it was told with its flags and the built-in defaults.                   *)
(*                                                                         *)
(* Durations of a configuration are in ticks of half a millisecond, those  *)
(* of the documents and of a plan in milliseconds; the overhead factor is  *)
(* in percent, the upload blob in MiB.  In a document zero also stands for *)
(* a field that is missing.                                                *)
(***************************************************************************)
EXTENDS Integers

CONSTANT DefaultPingSamples   \* 10 in the code

Streams == {"downloadStreams", "uploadStreams"}

Parameter ==
  {"duration", "graceDownload", "graceUpload", "overhead", "samples", "chunks",
   "blob"} \cup Streams

MinConfigurableStreams == 3
MaxConfigurableStreams == 12

Default ==
  [duration |-> 15000, graceDownload |-> 1500, graceUpload |-> 3000,
   overhead |-> 106, downloadStreams |-> 6, uploadStreams |-> 3,
   samples |-> DefaultPingSamples, chunks |-> 4, blob |-> 20]

Milliseconds(ticks) == ticks \div 2

\* Faulty variant: two fields of the document are mixed up.
InfoMixingGraces(c) ==
  [duration |-> Milliseconds(c.duration),
   graceDownload |-> Milliseconds(c.graceUpload),
   graceUpload |-> Milliseconds(c.graceDownload),
   overhead |-> c.overhead, downloadStreams |-> c.downloadStreams,
   uploadStreams |-> c.uploadStreams, samples |-> c.samples,
   chunks |-> 4, blob |-> 20]

\* handleInfo
Info(c) ==
  [duration |-> Milliseconds(c.duration),
   graceDownload |-> Milliseconds(c.graceDownload),
   graceUpload |-> Milliseconds(c.graceUpload),
   overhead |-> c.overhead, downloadStreams |-> c.downloadStreams,
   uploadStreams |-> c.uploadStreams, samples |-> c.samples,
   chunks |-> 4, blob |-> 20]

\* BuildUIConfig, a second list of the same fields
UIConfig(c) ==
  [duration |-> Milliseconds(c.duration),
   graceDownload |-> Milliseconds(c.graceDownload),
   graceUpload |-> Milliseconds(c.graceUpload),
   overhead |-> c.overhead, downloadStreams |-> c.downloadStreams,
   uploadStreams |-> c.uploadStreams, chunks |-> 4, blob |-> 20,
   samples |-> c.samples]

\* serverInfo{}
NoInfo == [p \in Parameter |-> 0]

Clamped(p, n) ==
  CASE p \in Streams /\ n < MinConfigurableStreams -> MinConfigurableStreams
    [] p \in Streams /\ n > MaxConfigurableStreams -> MaxConfigurableStreams
    [] OTHER -> n

\* resolveOptions: flags are the positive numbers the user gave.
Resolved(info, flags) ==
  [p \in Parameter |->
     CASE p \in DOMAIN flags                    -> flags[p]
       [] p \notin DOMAIN flags /\ info[p] > 0  -> Clamped(p, info[p])
       [] OTHER                                 -> Default[p]]

=============================================================================
