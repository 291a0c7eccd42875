CONSTANTS
  LastTick = 8
  PollInterval = 1
  MaxRunningPolls = 2
  KeepGenerations = 1
  MaxBroken = 1
SPECIFICATION Spec
CHECK_DEADLOCK FALSE
INVARIANTS TypeOK NoHole GenerationsInOrder WrittenOnce NothingMissing NeverPanics
PROPERTIES FlushAdvances
