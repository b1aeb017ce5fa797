CONSTANTS
  Watcher = {w1, w2}
  None = None
  MaxRestarts = 1
  LongInterval = TRUE
SPECIFICATION FairSpec
INVARIANTS TypeOK OneTrader StoppedLeavesNothing
PROPERTIES CyclesLookAtRisk SupervisedCycleEnds
