CONSTANTS
  MinVersion <- MCMinVersion
  MinInTreeDriver <- MCMinInTreeDriver
  GNSSListings <- MCGNSSListings
  DeviceRuns <- MCDeviceRuns
  VersionRuns <- MCVersionRuns
  StatusRuns <- MCStatusRuns
  PTPConfigs <- MCPTPConfigs
  CSVLists <- MCCSVLists
  ClusterVersions <- MCClusterVersions
  Unwritten <- MCUnwritten
  AntPowerRetries = 3
  MaxLine = 6
SPECIFICATION CallsSpec
CHECK_DEADLOCK FALSE
INVARIANTS VerdictTold OneAnswerJudged EveryAttemptMade CollectorAgrees DriverNeverFails
INVARIANTS OverlapMerged SubsetAbsorbed DedupNeverPanics
INVARIANTS FetchExact FetchAllOrNothing SelectionComplete
INVARIANTS PinUsable PollFollowsStart
