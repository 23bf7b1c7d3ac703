\* An activity, with a codec that suspends or with one that does not, and all that
\* can happen to it; what another one can do to it is to end the worker.
CONSTANTS
  Activities = {a1, a2}
  Suspending = {a2}
  MaxStarts = 1
  MaxBeats = 4
  Env = {"cancel", "shutdown", "unknown", "close", "decode", "encode", "beat",
         "async", "refuse"}
SPECIFICATION FairSpec
INVARIANTS
  CompletionIsLast
  LatestDetails
  CauseReported
  CancelReaches
  NoEntryLeft
PROPERTIES
  Answered
CHECK_DEADLOCK FALSE
