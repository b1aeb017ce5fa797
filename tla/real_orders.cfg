CONSTANTS
  Ticker = {A}
  A = A
  Hedge = H
  RiskReason = {}
  LiquidationReason = {}
  BrokerId = {b1, b2}
  None = None
  MaxAttempts = 3
  MaxOrderAttempts = 2
  MaxQty = 2
  MaxEra = 1
  LastActiveEra = 1
  InitHeld <- MCInitHeld
  IsMock = FALSE
  ForceRebalance = FALSE
SPECIFICATION Spec
SYMMETRY Symmetry
INVARIANTS SingleLiveOrder LiveOrderTracked LinkedToOwner
