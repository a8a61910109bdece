SPECIFICATION Spec
CONSTANTS
  Threads = {t1, t2}
  Workers = {w1}
  NoThread = NoThread
  NumSections = 2
  Parallel = {2}
  AutoOpen = FALSE
  MaxClock = 1
INVARIANTS TypeOK ReportsExclusive ReportsKept HandlersGoOn
PROPERTY RefinesCrashLog
CHECK_DEADLOCK FALSE
