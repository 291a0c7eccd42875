CONSTANTS
  Collectors = {dpll}
  Announcers = {devinfo}
  MaxRunningPolls = 1
  PollResultsQueueSize = 1
SPECIFICATION FairSpec
CHECK_DEADLOCK FALSE
PROPERTIES SignalEndsRun
