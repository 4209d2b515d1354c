SPECIFICATION FairSpec
CONSTANTS
  PsnMod = 32
  MaxOutgoing = 2
  Mtu = 2
  Requests <- Messages
  RangeAssert = FALSE
  StartPsns <- NearWrap
  MaxPosts = 3
  MaxNet = 0
  Preposted <- Buffers
  Capacities = {}
  MemSize = 6
  MapOutcomes = {TRUE}
  MaxRecvs = 3
  Reorder = FALSE
  MaxLost = 1
  MaxDup = 0
PROPERTY
  EventuallyCompleted
  NakRecovers
CHECK_DEADLOCK FALSE
