\* A run that ended in any of the four ways is replayed from the cache.
CONSTANTS
  Runs = {r1}
  Insts = {i1}
  Main = main
  Updates = {}
  Signals = {}
  Env = {"resolve", "query", "replay", "cancel"}
  Faults = {}
  NoInst = NoInst
SPECIFICATION Spec
INVARIANTS
  ReplayMatchesHistory
