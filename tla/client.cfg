\* Two chains, or one that is renewed; one lost answer.
CONSTANTS
  MaxRuns = 2
  MaxLost = 1
SPECIFICATION FairSpec
INVARIANTS
  ResultOfChain
  CancelInChain
PROPERTIES
  ResultEnds
CHECK_DEADLOCK FALSE
