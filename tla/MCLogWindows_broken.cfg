CONSTANTS
  LastTick = 5
  PollInterval = 1
  MaxRunningPolls = 2
  KeepGenerations = 5
  MaxBroken = 1
SPECIFICATION Spec
CHECK_DEADLOCK FALSE
INVARIANT NothingSkipped
