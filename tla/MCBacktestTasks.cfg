CONSTANTS
  named = named
  watchlist = watchlist
  u1 = u1
  r1 = r1
  Unseen = Unseen
  NoRequest = NoRequest
  Tasks <- MCTasks
  Named <- MCNamed
  Requests <- MCRequests
  Source <- MCSource
  MaxVersion = 2
  PoolSize = 1
  MaxRestarts = 1
SPECIFICATION MCSpec
INVARIANTS
  TasksTypeOK
  ActiveIsBacked
PROPERTIES
  ContractIsFrozen
  WatchlistSettles
