SPECIFICATION FairPage
CONSTANTS
  s1 = s1
  s2 = s2
  Stream <- MCStream
  Run <- MCRun
  Samples = 2
  Duration = 2
  Grace <- MCGrace
  Size = 2
  MaxLoaded = 3
INVARIANTS
  PageTypeOK
  PhasesDoNotOverlap
  OnePingLoop
  WindowIsReported
  OneRunAtATime
  ResultPostedOnce
PROPERTY RunEndsUnlessMute
CHECK_DEADLOCK FALSE
