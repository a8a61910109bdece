SPECIFICATION FairSpec
CONSTANTS
  Threads = {t1, t2}
  Monitor = Monitor
  Locks = {heap}
  None = None
  MaxPresses = 2
INVARIANTS TypeOK NothingLeftSuspended OneDumpPerPress LogRight
PROPERTY DumpEndsOrLockKept
CHECK_DEADLOCK FALSE
