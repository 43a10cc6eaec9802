SPECIFICATION ApiSpec
CONSTANTS
  a = a
  a6 = a6
  b = b
  p = p
  p6 = p6
  i1 = i1
  i2 = i2
  i3 = i3
  h1 = h1
  h2 = h2
  NoNetwork = NoNetwork
  Absent = Absent
  Unreadable = Unreadable
  NoAddr = NoAddr
  NoStamp = NoStamp
  Addr <- MCAddr
  Unmap <- MCUnmap
  Id <- MCId
  Handler <- MCHandler
  ArgsOffer <- MCArgs
  EnvOffer <- MCEnv
  Body <- MCBody
  Via <- MCVia
  Asked <- MCAsked
  Bearer = {"", "secret"}
  Limits = {0, 1, 2}
  MaxNow = 1
SYMMETRY MCSymmetry
INVARIANTS
  ApiTypeOK
  LoadMatchesPrecedence
  AnsweredIsReadable
  ListIsNewest
  ClientIsChainEnd
CHECK_DEADLOCK FALSE
