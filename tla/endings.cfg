\* Cancellation of a workflow with a signal handler, replays of a completed one
\* from the cache, and shutdown, under fairness.
CONSTANTS
  Runs = {r1}
  Insts = {i1}
  Main = main
  Updates = {}
  Signals = {s1}
  Env = {"signal", "resolve", "query", "evict", "replay", "cancel",
         "shutdown"}
  Faults = {}
  NoInst = NoInst
SPECIFICATION FairSpec
INVARIANTS
  OneTerminal
PROPERTIES
  PolledIsAnswered
  CancelEndsWorkflow
  ShutdownEnds
\* The surroundings may fall silent, and the worker may stop.
CHECK_DEADLOCK FALSE
