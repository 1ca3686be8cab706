\* The owner alone: every call, with and without timeouts, against a network
\* that may do anything.
SPECIFICATION FairSpec
CONSTANTS
  t1 = t1
  Timeouts <- MCTimeouts
  MaxTimeout = 2
  BodyTimeout = 2
  MaxEndpoints = 2
  MaxLen = 2
  HeaderLength = 2
  Aborters <- NoAborters
INVARIANTS
  TypeOK
  NoOrphanedOperation
  TruthfulReturn
  NoResumeAfterTear
  ActorSleepsOnDeadline
PROPERTIES
  ContractSpec
  TimedCallReturns
