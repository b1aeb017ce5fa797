CONSTANTS
  Ticker = {A}
  A = A
  Hedge = H
  RiskReason = {}
  LiquidationReason = {}
  BrokerId = {b1, b2}
  None = None
  MaxAttempts = 2
  MaxOrderAttempts = 2
  MaxQty = 2
  MaxEra = 0
  LastActiveEra = 0
  InitHeld <- MCInitHeld
  IsMock = TRUE
  ForceRebalance = FALSE
SPECIFICATION Spec
SYMMETRY Symmetry
INVARIANT FilledAtBroker
