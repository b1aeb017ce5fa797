CONSTANTS
  Ticker = {A, B, C}
  Hedge = H
  Cases <- MCCases
  HedgeCases <- MCHedgeCases
  Blocks <- MCBlocks
  HedgeStage = {1000, 3000}
  MaxWeight = 3000
  Gross = 9000
  TransitionCap = 3000
  EntrySize = 1000
  Keep = 40
  Band = 20
  StopLoss = 8
  Trailing = 8
  MinScore = 50
  ExitScore = 40
  HedgeEnabled = TRUE
  ForceRebalance = TRUE
SPECIFICATION Spec
SYMMETRY Symmetry
INVARIANTS TypeOK StopsAreSold NoBuyUnderBreaker TransitionWithinCap AllocationWithinLimits StrongIsKept HedgeReplacesLongs
