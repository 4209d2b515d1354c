\* Locks that wait and are fair, one MR, and packets that keep arriving.
SPECIFICATION ConcFairLocksSpec
CONSTANTS
  Threads = {t1, t2}
  Wrs = {w1, w2}
  Mrs = {m1}
  Size = 1
  Blocking = TRUE
  Apart <- NeededApart
  None = None
PROPERTY
  DestroyedIsFreed
