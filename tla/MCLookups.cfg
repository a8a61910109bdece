CONSTANTS
  Recorders = {w1, w2}
  Ids = {i, j}
  Capacity = 2
  MaxHits = 2
  StackSize = 2
  MaxClaims = 3
  Plugins = {a, b, c}
  Absent = {x}
  MaxDepth = 1
  MaxChains = 2
  Threads = {t1, t2}
  Free = free
  Symbols <- ThreeSymbols
  NoSymbol = nosymbol
  Children <- ThreeChildren
  MaxParams = 1
  MaxChildren = 2
  MaxCalls = 2
SPECIFICATION LookupSpec
SYMMETRY Symmetry
INVARIANTS LookupTypeOK PathsRight DiagnosisRight SessionsRight
CHECK_DEADLOCK FALSE
