\* The assertions as compiled, and PSNs about to wrap.
SPECIFICATION ReqSpec
CONSTANTS
  PsnMod = 8
  MaxOutgoing = 2
  Mtu = 2
  Requests <- MixedRequests
  RangeAssert = TRUE
  StartPsns <- NearWrap
  MaxPosts = 3
  MaxNet = 4
INVARIANT
  OutgoingInRange
CHECK_DEADLOCK FALSE
