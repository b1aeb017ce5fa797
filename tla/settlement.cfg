CONSTANTS
  Ticker = {A}
  A = A
  Hedge = H
  RiskReason = {}
  LiquidationReason = {}
  BrokerId = {b1, b2}
  None = None
  MaxAttempts = 1
  MaxOrderAttempts = 2
  MaxQty = 1
  MaxEra = 1
  LastActiveEra = 0
  InitHeld <- MCInitHeld
  IsMock = FALSE
  ForceRebalance = FALSE
SPECIFICATION FairSpec
PROPERTIES SubmittedIsSettled
