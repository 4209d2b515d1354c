\* The functions spin.lock and spin.unlock that a context has by default.
SPECIFICATION ConcSpec
CONSTANTS
  Threads = {t1, t2}
  Wrs = {w1, w2}
  Mrs = {m1}
  Size = 1
  Blocking = FALSE
  Apart <- NeededApart
  None = None
INVARIANT
  LocksExclude
CHECK_DEADLOCK FALSE
