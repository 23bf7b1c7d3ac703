\* Two runs with an update handler in two workflows, evicted and started again;
\* every job but cancel.
CONSTANTS
  Runs = {r1, r2}
  Insts = {i1, i2}
  Main = main
  Updates = {u1}
  Signals = {}
  Env = {"signal", "update", "resolve", "query", "evict"}
  Faults = {}
  NoInst = NoInst
SPECIFICATION Spec
SYMMETRY InstSymmetry
INVARIANTS
  TypeOK
  Handshake
  CollectedAtRest
  UpdateAnsweredAtOnce
  CompletionReported
  NothingStranded
  EvictedAtRest
\* The surroundings may fall silent, and the worker may stop.
CHECK_DEADLOCK FALSE
