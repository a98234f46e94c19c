CONSTANTS
  NumTickers = 2
  LastDay = 4
  Open <- MCOpen
  Close <- MCClose
  Cap <- MCCap
  Div <- MCDiv
  InitialCash = 8
  Fee = 1
  Targets <- MCTargets
SPECIFICATION LedgerSpec
INVARIANTS
  LedgerTypeOK
  NoOverfill
  NeverRejected
  LedgerSolvent
  DividendsExact
  OneRebalanceAtATime
PROPERTIES
  LedgerGrowsForward
  CommitIsConsistent
