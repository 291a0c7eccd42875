CONSTANTS
  Collectors = {dpll}
  Announcers = {devinfo}
  DevInfo = devinfo
  MaxRunningPolls = 2
  PollResultsQueueSize = 1
SPECIFICATION DevFairSpec
CHECK_DEADLOCK FALSE
INVARIANTS TypeOK NoPollDuringCleanUp AnnouncersLast ForwardNeverBlocks MonitorGoneAfterCleanUp
PROPERTIES LifecycleSpec EndsOrBlocks
