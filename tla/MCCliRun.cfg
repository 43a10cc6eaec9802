SPECIFICATION FairRunSpec
CONSTANTS
  DefaultPingSamples = 2
  Unit = 10000
  Rtt = {1, 2, 4}
  Config <- MCConfig
  Foreign <- MCForeign
  FlagOffer <- MCFlags
INVARIANTS
  RunTypeOK
  PingWhole
  PlanIsThePages
  ProgressStops
  ExitMeansComplete
  PushedOnce
PROPERTIES
  ClientsAgree
  RunEndsUnlessDialling
CHECK_DEADLOCK FALSE
