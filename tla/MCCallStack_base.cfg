CONSTANTS
  Images <- TwoImages
  Top = 6
  MaxChanges = 2
  Executable <- Code
  System <- DllOnly
  MaxWalk = 2
  MaxTotal = 3
  MaxInserted = 1
  MaxCaptured = 3
  StackLength = 2
  OnStack <- Words
SPECIFICATION CallStackSpec
INVARIANT ModuleOfBaseFound
CHECK_DEADLOCK FALSE
