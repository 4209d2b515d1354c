\* Two posting threads, or one and a receiving one, or creation and destruction.
SPECIFICATION ConcFairSpec
CONSTANTS
  Threads = {t1, t2, t3}
  Wrs = {w1, w2}
  Mrs = {m1, m2}
  Size = 1
  Blocking = TRUE
  Apart <- NeededApart
  None = None
INVARIANTS
  ConcTypeOK
  LocksExclude
  RecvWrsInOrder
  HandlesUnique
  ConcRefsExact
  NoUseAfterFree
  PendingIsSeen
PROPERTY
  LocksReleased
