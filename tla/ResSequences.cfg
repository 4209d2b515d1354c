\* API calls, completions and received packets in any order, but for those of Calls.
SPECIFICATION ResSpec
CONSTANTS
  PdSlots = 2
  CqSlots = 2
  AhSlots = 1
  MrSlots = 2
  QpSlots = 3
  MrTypes = {"MEM", "DMA"}
  QpTypes = {"RC", "GSI"}
  SgeLists <- TwoMrs
  RefMod = 64
  Calls = {}
  MaxWrs = 2
INVARIANTS
  ResTypeOK
  RefsExact
  NothingDangles
  DestroyedMrInUse
CONSTRAINT FewObjects
CHECK_DEADLOCK FALSE
