SPECIFICATION MCSpec
CONSTANTS
  Documents = {1}
  Versions = 2
  Originals = {o1, o2}
  MaxCalls = 1
  SendLimit = 2
  Budget = 2
  MaxRetries = 1
  MaxTrouble = 2
INVARIANTS
  EventTypeOK NothingFallsThrough CommentaryCooldown
PROPERTIES
  OnceOutside PaidIsUsed
