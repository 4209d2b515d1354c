SPECIFICATION Spec
CONSTANTS
  PsnMod = 32
  MaxOutgoing = 2
  Mtu = 2
  Requests <- ReorderedMessages
  RangeAssert = FALSE
  StartPsns <- NearWrap
  MaxPosts = 2
  MaxNet = 0
  Preposted <- Buffers
  Capacities = {}
  MemSize = 6
  MapOutcomes = {TRUE}
  MaxRecvs = 3
  Reorder = TRUE
  MaxLost = 1
  MaxDup = 1
INVARIANTS
  ConnTypeOK
  RespWithinWindow
  MessageBoundary
  RecvWrsConserved
  WriteConfined
PROPERTY
  IsReliableChannel
CHECK_DEADLOCK FALSE
VIEW UnorderedNet
