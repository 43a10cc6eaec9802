SPECIFICATION FairLifecycle
CONSTANTS
  r1 = r1
  r2 = r2
  i1 = i1
  i2 = i2
  Request <- MCRequest
  Ip <- MCIp
  IpsOf <- MCIpsOf
  PerIP = 1
  ChunkUnits = 2
  ChunkCap = 1
  MaxUpload = 1
  ReadDeadline = TRUE
  Sizes <- MCSizes
  HTTP2 = TRUE
  SQLite = TRUE
INVARIANTS
  LifecycleTypeOK
  StreamsHoldSlots
  BytesAccounted
  UploadAnswers
  DrainIsComplete
PROPERTIES
  ServerStops
  SilenceEndsTests
CHECK_DEADLOCK FALSE
