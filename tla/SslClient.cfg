\* Any step of init() may throw, and connect may be called again after that;
\* everything else may go wrong too.
SPECIFICATION FairSpec
CONSTANTS
  Timeouts <- MCTimeouts
  MaxTimeout = 2
  MaxEndpoints = 2
  MaxLen = 2
  MaxPlain = 2
  MayThrow <- EveryStep
INVARIANTS
  TypeOK
  DeadlineActorKeepsServiceAlive
  TruthfulReturn
PROPERTIES
  NeverCutEarly
  ShortReadIsTheLast
  TimedCallReturns
