CONSTANTS
  f1 = f1
  f2 = f2
  s1 = s1
  c1 = c1
  c2 = c2
  w1 = w1
  w2 = w2
  None = None
  Fills <- MCFills
  Dailies <- MCDailies
  Contents <- MCContents
  Workers <- MCWorkers
  MaxAttempts = 2
  BatchLimit = 2
SPECIFICATION OutboxSpec
SYMMETRY Symmetry
INVARIANTS
  OutboxTypeOK
  AtMostOnce
  InFlightIsOwned
PROPERTIES
  PromiseSpec
