\* A preparation and an operator's command, over two sessions of two months.
CONSTANTS
  Process = {prepare, analyze}
  Preparer = prepare
  c1 = c1
  c2 = c2
  Company = {c1, c2}
  Selections <- MCSelections
  MaxRuns = 2
  MonthOf <- MCMonthOf
  MaxSource = 1
  None = None
SPECIFICATION FairSpec
INVARIANTS TypeOK UniverseIsPublished
PROPERTIES AbandonedRunFails
