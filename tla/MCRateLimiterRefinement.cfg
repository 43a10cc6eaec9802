SPECIFICATION Spec
CONSTANTS
  a1 = a1
  a2 = a2
  c1 = c1
  c2 = c2
  c3 = c3
  k1 = k1
  k2 = k2
  k3 = k3
  NoCell = NoCell
  Addr <- MCAddr
  Call <- MCCall
  Cell <- MCCell
  IpOf <- MCIpOf
  PerIP = 1
  Burst = 2
  TokenUnit = 2
  Rate = 2
  IdleTTL = 2
  CleanupEvery = 1
  Lag = 0
  MaxTime = 6
SYMMETRY MCSymmetry
PROPERTY ImplementsTokenBucket
