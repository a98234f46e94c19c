CONSTANTS
  f1 = f1
  f2 = f2
  s1 = s1
  d1 = d1
  v1 = v1
  v2 = v2
  w1 = w1
  None = None
  Fills <- MCFills
  Dailies <- MCDailies
  Contents <- MCContents
  Workers <- MCWorkers
  Sessions <- MCSessions
  SessionOf <- MCSessionOf
  FirstNewest = v1
  MaxAttempts = 1
  BatchLimit = 1
  MaxKills = 1
  Versions <- NewVersion
SPECIFICATION PaperSpec
PROPERTIES
  DailyIsTried
  UnchangedFillsReachOutbox
