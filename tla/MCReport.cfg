CONSTANTS
  Records = {r1, r2}
  NoRecord = null
  MaxDepth = 2
  MaxReports = 2
  Addresses = {0, 1, 2, 3}
  Analyses <- TwoAnalyses
  MaxDistance = 2
  MaxOffers = 4
  MaxObjects = 2
  Images <- TwoImages
  Top = 6
  MaxChanges = 2
  Executable <- Code
  System <- DllOnly
  MaxWalk = 2
  MaxTotal = 3
  MaxInserted = 1
  MaxCaptured = 3
  StackLength = 2
  OnStack <- Words
SPECIFICATION ReportSpec
INVARIANTS ReportTypeOK TableRight CallStackRight SectionsContained ExceptionTold NearestShown
CHECK_DEADLOCK FALSE
