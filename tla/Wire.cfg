SPECIFICATION Spec
CONSTANTS
  MaxInt64 = 1073741823
  Commands <- MCCommands
  Reports <- MCReports
  Versions = {1, 2}
  MaxFrames = 3
INVARIANTS CommandsArrive ReportsArrive
CHECK_DEADLOCK FALSE
