SPECIFICATION FairSpec
CONSTANTS
  m = m
  h = h
  Tasks = {m, h}
  Notifying = {m}
  Kinds = {"child", "signal", "cancel"}
  MaxSeq = 1
  MaxTime = 1
  Env = {"condition", "timeout", "notify"}
INVARIANT NoInternalError
INVARIANT ConditionsSeen
PROPERTY WaitsEnd
CHECK_DEADLOCK FALSE
