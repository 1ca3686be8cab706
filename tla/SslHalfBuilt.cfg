\* After init() has thrown late, connect goes on without a deadline actor.
SPECIFICATION FairSpec
CONSTANTS
  Timeouts <- OneTimeout
  MaxTimeout = 1
  MaxEndpoints = 1
  MaxLen = 1
  MaxPlain = 1
  MayThrow <- EveryStep
PROPERTIES
  CompletedOperationReturns
