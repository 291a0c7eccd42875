CONSTANTS
  Slices = 7
  SliceChanLength = 2
  LineChanLength = 2
  DumpChanSize = 2
  KeepGenerations = 1
SPECIFICATION FairSpec
CHECK_DEADLOCK FALSE
INVARIANTS TypeOK Conserved
PROPERTIES DeliverySpec CleanUpReturnsEventually
