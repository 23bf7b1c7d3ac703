\* Three histories, a worker that may fail or forget an activation, and a caller
\* that gives up or is cancelled.
CONSTANTS
  Histories = 3
  Env = {"crash", "convert", "refuse", "catch", "cancel"}
SPECIFICATION FairSpec
INVARIANTS
  VerdictOfHistory
PROPERTIES
  ContextEnds
\* The caller may stop calling, and the context may be left.
CHECK_DEADLOCK FALSE
