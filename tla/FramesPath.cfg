\* RC and UD messages through frames, with datagrams lost, repeated, overtaken.
SPECIFICATION FrameSpec
CONSTANTS
  PageSize = 2
  AddrCut = 64
  Types = {"RC", "UD"}
  Mr <- ThreePages
  SendLists <- SomeSends
  RecvLists <- SomeRecvs
  ActiveMtu = 2
  MaxMtu = 4
  PadUnit = 2
  VnetHdr = 1
  MaxSge = 2
  GidLen = 2
  Mods <- SomeMods
  Strays <- SomeStrays
  Sources = {3}
  Ahs <- SomeAhs
  Bound <- SomeBound
  Cuts <- SomeCuts
INVARIANTS
  FramesTypeOK
  PagesAgree
  UdHeldIffRefused
PROPERTIES
  IsDatagramService
  RefusalIsFinal
CHECK_DEADLOCK FALSE
