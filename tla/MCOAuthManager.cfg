SPECIFICATION FairSpec
CONSTANTS
  Requests = {r1, r2}
  Flows = {f}
  Configs = {k, own}
  OwnClient = {own}
  MaxTokens = 2
  NoConfig = NoConfig
  NoRequest = NoRequest
INVARIANTS
  MemoryIsPersisted
  ExchangesAreExclusive
PROPERTIES
  RetryHasNewToken
  RequestEnds
CHECK_DEADLOCK FALSE
