\* The range assertion left out: PSNs wrap, any acknowledgement arrives at any time.
SPECIFICATION ReqSpec
CONSTANTS
  PsnMod = 8
  MaxOutgoing = 2
  Mtu = 2
  Requests <- MixedRequests
  RangeAssert = FALSE
  StartPsns <- NearWrap
  MaxPosts = 4
  MaxNet = 1
INVARIANTS
  ReqTypeOK
  PsnContiguous
  WindowKept
  AckSolicited
  OpaqueMatch
  WRsConserved
  AssertionsHold
PROPERTY
  SqPsnFollowsPackets
CHECK_DEADLOCK FALSE
