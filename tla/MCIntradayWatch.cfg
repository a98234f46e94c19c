SPECIFICATION Spec
CONSTANTS
  Tickers = {1}
  Minutes = 2
  LastSession = 3
  BroadMinutes = 2
  MinCycles = 1
  MinCups = 1
  Required = 1
  Cooldown = 1
  MaxAttempts = 2
  MaxMessages = 1
  MaxTrouble = 1
  HeartbeatTimeout = 1
INVARIANTS
  IntradayTypeOK CooldownKept ShownIsPromoted OutageShows
PROPERTIES
  SignalsAtMostOnce
