\* RDMA WRITEs without immediate data over a perfect network.
SPECIFICATION Spec
CONSTANTS
  PsnMod = 32
  MaxOutgoing = 2
  Mtu = 2
  Requests <- PlainWrites
  RangeAssert = FALSE
  StartPsns <- NearWrap
  MaxPosts = 2
  MaxNet = 0
  Preposted <- Buffers
  Capacities = {}
  MemSize = 6
  MapOutcomes = {TRUE}
  MaxRecvs = 3
  Reorder = FALSE
  MaxLost = 0
  MaxDup = 0
INVARIANT
  MessageBoundary
CHECK_DEADLOCK FALSE
