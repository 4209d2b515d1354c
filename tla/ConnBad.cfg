SPECIFICATION Spec
CONSTANTS
  PsnMod = 32
  MaxOutgoing = 2
  Mtu = 2
  Requests <- BadMessages
  RangeAssert = FALSE
  StartPsns <- NearWrap
  MaxPosts = 3
  MaxNet = 0
  Preposted <- NoBuffers
  Capacities = {2, 3, 4, 6}
  MemSize = 6
  MapOutcomes = {TRUE, FALSE}
  MaxRecvs = 3
  Reorder = FALSE
  MaxLost = 0
  MaxDup = 0
INVARIANTS
  RespWithinWindow
  UnionSound
  RecvWrsConserved
PROPERTY
  KeepsOrder
CHECK_DEADLOCK FALSE
CONSTRAINT NetBounded
