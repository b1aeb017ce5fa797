CONSTANTS
  Ticker = {A, H}
  A = A
  H = H
  Hedge = H
  Reason = {STOP}
  MaxDay = 2
  MaxQty = 2
  Price = {1, 2}
  Fee = 2
  InitCash = 6
  None = None
SPECIFICATION Spec
INVARIANTS TypeOK AccountMatchesFills FilledIsDurable HedgeAfterExitFills
PROPERTIES ExactlyOnce
