CONSTANTS
  MinVersion <- MCMinVersion
  MinInTreeDriver <- MCMinInTreeDriver
  GNSSListings <- MCGNSSListings
  DeviceRuns <- MCDeviceRuns
  VersionRuns <- MCVersionRuns
  StatusRuns <- MCStatusRuns
  PTPConfigs <- MCPTPConfigs
  CSVLists <- MCCSVLists
  ClusterVersions <- MCClusterVersions
  Unwritten <- MCUnwritten
  AntPowerRetries = 3
  MaxLine = 5
SPECIFICATION CallsSpec
CHECK_DEADLOCK FALSE
INVARIANT NoLineLost
