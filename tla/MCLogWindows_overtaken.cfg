CONSTANTS
  LastTick = 8
  PollInterval = 1
  MaxRunningPolls = 2
  KeepGenerations = 5
  MaxBroken = 0
SPECIFICATION Spec
CHECK_DEADLOCK FALSE
INVARIANT HandedOverIsWritten
