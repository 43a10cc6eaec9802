SPECIFICATION FairCliSpec
CONSTANTS
  s1 = s1
  s2 = s2
  Stream <- MCStream
  Grace = 1
  Duration = 1
  Backoff = 1
  MaxTime = 3
  MaxMoved = 4
  MaxRead = 1
  Blob = 2
INVARIANTS
  UploadTypeOK
  WholeWindowReported
  WindowIsCounted
  UploadCounts
PROPERTY PhaseEnds
CHECK_DEADLOCK FALSE
