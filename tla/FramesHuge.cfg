\* An MR whose pages are twice those of the context.
SPECIFICATION FrameSpec
CONSTANTS
  PageSize = 2
  AddrCut = 64
  Types = {"RC"}
  Mr <- HugePages
  SendLists <- SomeSends
  RecvLists <- SomeRecvs
  ActiveMtu = 2
  MaxMtu = 4
  PadUnit = 2
  VnetHdr = 1
  MaxSge = 2
  GidLen = 2
  Mods <- SomeMods
  Strays <- SomeStrays
  Sources = {3}
  Ahs <- SomeAhs
  Bound <- SomeBound
  Cuts <- SomeCuts
INVARIANTS
  PagesAgree
CHECK_DEADLOCK FALSE
