SPECIFICATION Spec
CONSTANTS
  Sec = {a, b}
  Benchmarks = {b}
  FirstListed = {a}
  FirstDay = 2
  MaxDay = 4
  Overlap = 1
  MaxIsolated = 1
  MaxRevisions = 1
  MaxTrouble = 1
  OperatorJobs = 1
INVARIANTS
  BroadTypeOK ChainIsLinear WindowDecides IsolationIsSticky FactorsExact OneChainOfInputs
PROPERTIES
  FactorsArePublications CatchesUp
