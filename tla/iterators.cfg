\* Two runs of the id, up to four events or executions, a limit below and above
\* the page size.
CONSTANTS
  MaxRuns = 2
  MaxItems = 4
  PageSize = 2
  Limits = {0, 1, 3, 6}
  NoLimit = 6
SPECIFICATION Spec
INVARIANTS
  YieldedInOrder
  YieldedAll
CHECK_DEADLOCK FALSE
