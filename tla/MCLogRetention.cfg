SPECIFICATION Spec
CONSTANTS
  MaxLogs = 2
  MaxDumps = 1
  Write = TRUE
  MaxClock = 3
  MaxUser = 2
INVARIANTS TypeOK CurrentLogKept CleaningKeepsLimit LimitsHold OrphansExplained
