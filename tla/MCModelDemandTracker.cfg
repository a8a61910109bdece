SPECIFICATION Spec
CONSTANTS
  Busy = t1
  Rivals = {t2, t3}
  BusyDepth = 2
  BusyCalls = 5
  Short = {t1}
  Threads <- MCThreads
  MaxDepth <- MCMaxDepth
  MaxCalls <- MCMaxCalls
  NoThread = NoThread
  NumSlots = 2
  Capacity = 2
  HeadMod = 4
  Paths = {p1}
  NoPath = NoPath
  Torn = Torn
  Window = 0
  MaxTime = 1
INVARIANTS TypeOK SlotsRight NoFalseInFlight RecentInFlight
PROPERTIES OwnershipStable RefinesRecentRequests
SYMMETRY Symmetry
CHECK_DEADLOCK FALSE
