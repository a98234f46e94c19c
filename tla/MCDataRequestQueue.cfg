CONSTANTS
  r1 = r1
  r2 = r2
  r3 = r3
  w1 = w1
  NoRequest = NoRequest
  Requests <- MCRequests
  Workers <- OneWorker
  MaxAttempts = 2
  ClaimLimit = 2
  MaxKills = 3
SPECIFICATION QueueSpec
INVARIANTS
  QueueTypeOK
  VerdictsAreEarned
PROPERTIES
  QueuePromise
  EveryRequestSettles
