CONSTANTS
  Polls = {p1, p2}
  Pods = {a, b, c}
  DebugPods = {dbg}
  NoName = none
SPECIFICATION FairSpec
CHECK_DEADLOCK FALSE
INVARIANTS FailuresBounded
PROPERTIES Recovers
