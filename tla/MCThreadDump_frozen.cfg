SPECIFICATION FairSpec
CONSTANTS
  Threads = {t1}
  Monitor = Monitor
  Locks = {heap}
  None = None
  MaxPresses = 1
PROPERTY DumpEnds
CHECK_DEADLOCK FALSE
