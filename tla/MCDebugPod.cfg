CONSTANTS
  Collects = {c1,c2}
  Unmanaged = {u}
  Starts = {}
  Stops = {}
  None = None
SPECIFICATION FairSpec
CHECK_DEADLOCK FALSE
INVARIANTS ReadyPodRan DeletedIsGone CollectsLeaveNoPod UnmanagedHandsOff
PROPERTY CreateAndDeleteEnd
