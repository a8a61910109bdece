SPECIFICATION Spec
CONSTANTS
  Threads = {t1, t2}
  Workers = {w1}
  NoThread = NoThread
  NumSections = 2
  Parallel = {2}
  AutoOpen = TRUE
  MaxClock = 1
INVARIANT ShownReportComplete
CHECK_DEADLOCK FALSE
