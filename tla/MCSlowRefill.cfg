SPECIFICATION LSpec
CONSTANTS
  a1 = a1
  a2 = a2
  c1 = c1
  c2 = c2
  c3 = c3
  k1 = k1
  k2 = k2
  k3 = k3
  NoCell = NoCell
  Addr <- MCAddr
  Call <- MCCall
  Cell <- MCCell
  IpOf <- MCIpOf
  Watched <- MCWatched
  PerIP = 0
  Burst = 1
  TokenUnit = 2
  Rate = 0
  IdleTTL = 2
  CleanupEvery = 0
  Lag = 0
  MaxTime = 7
SYMMETRY MCSymmetry
INVARIANT WindowLaw
