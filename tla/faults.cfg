\* Every fault, cancellation, replays from the cache, late activations.
CONSTANTS
  Runs = {r1}
  Insts = {i1}
  Main = main
  Updates = {u1}
  Signals = {}
  Env = {"signal", "update", "resolve", "query", "evict", "cancel", "replay", "late"}
  Faults = {"type", "parse", "apply", "encode", "cleanup"}
  NoInst = NoInst
SPECIFICATION Spec
INVARIANTS
  AnsweredOnce
PROPERTIES
  ImplementsHost
\* The surroundings may fall silent, and the worker may stop.
CHECK_DEADLOCK FALSE
