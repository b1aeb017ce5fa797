\* Two sessions around a holiday; one restart by the supervisor.
CONSTANTS
  Modes = {"PAPER", "REAL"}
  LastDay = 3
  Trading = {1, 3}
  MaxRestarts = 1
  Span = 2
  None = None
SPECIFICATION FairSpec
INVARIANTS TypeOK FreshBatches
PROPERTIES EverySessionReported
