SPECIFICATION FairSpec
CONSTANTS
  Clients = {c1, c2}
  MAX_RETRIES = 3
  LIFETIME = 2
  EXPIRES_IN = 2
  MaxDelay = 1
  MaxNow = 2
INVARIANTS
  TypeOK
PROPERTIES
  NoLoginOverAGoodToken
  GivesUpAfterAllRetries
  ImplementsTokens
  CallsGetOn
  EveryCallEnds
