SPECIFICATION Spec
CONSTANTS
  m = m
  h = h
  Tasks = {m, h}
  Notifying = {m, h}
  Kinds = {"timer", "activity", "local", "child"}
  MaxSeq = 1
  MaxTime = 0
  Env = {"error", "backoff", "nostart", "share", "scope", "workflow", "change"}
SYMMETRY TaskSymmetry
INVARIANT TypeOK
INVARIANT WaitersServed
INVARIANT CancelsLiveActivities
CHECK_DEADLOCK FALSE
