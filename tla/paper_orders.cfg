CONSTANTS
  Ticker = {A}
  A = A
  Hedge = H
  RiskReason = {STOP}
  LiquidationReason = {LIQUIDATE}
  BrokerId = {b1, b2}
  None = None
  MaxAttempts = 2
  MaxOrderAttempts = 1
  MaxQty = 1
  MaxEra = 0
  LastActiveEra = 0
  InitHeld <- MCInitHeld
  IsMock = TRUE
  ForceRebalance = FALSE
SPECIFICATION Spec
SYMMETRY Symmetry
INVARIANTS TypeOK RetryBounded FilledMeansBooked
PROPERTIES LedgerGrowsWithinOrder TerminalIsFinal
