SPECIFICATION LSpec
CONSTANTS
  a1 = a1
  a2 = a2
  c1 = c1
  c2 = c2
  c3 = c3
  k1 = k1
  k2 = k2
  k3 = k3
  NoCell = NoCell
  Addr <- MCAddr
  Call <- MCCall
  Cell <- MCCell
  IpOf <- MCIpOf
  Watched <- MCWatched
  PerIP = 1
  Burst = 1
  TokenUnit = 1
  Rate = 1
  IdleTTL = 2
  CleanupEvery = 1
  Lag = 1
  MaxTime = 4
SYMMETRY MCSymmetry
INVARIANTS
  TypeOK
  HeldEntryIsLive
  ActiveCountsInFlight
  GateHolds
  WindowLaw
PROPERTY IdleEntriesAreSwept
