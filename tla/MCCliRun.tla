------------------------------ MODULE MCCliRun ------------------------------
\* A small instance of CliRun.
EXTENDS CliRun

MCConfigOf(duration, down, up, streams, samples) ==
  [duration |-> duration, graceDownload |-> down, graceUpload |-> up,
   overhead |-> 106, downloadStreams |-> streams, uploadStreams |-> 4,
   samples |-> samples]

\* The last one lasts less than a millisecond and has no grace for downloads.
MCConfig == {MCConfigOf(20, 4, 8, 12, 3), MCConfigOf(1, 0, 3, 3, 1)}

\* A server that names other numbers of streams and little else.
MCForeign ==
  {[NoInfo EXCEPT !.downloadStreams = 50, !.uploadStreams = 1, !.samples = 1]}

None == [p \in {} |-> 0]

MCFlags == {None, [p \in {"duration", "uploadStreams"} |-> 5]}

=============================================================================
