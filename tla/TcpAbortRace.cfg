\* With abort() in another thread a timeout can be lost for good.
SPECIFICATION FairSpec
CONSTANTS
  t1 = t1
  Timeouts <- OneTimeout
  MaxTimeout = 1
  BodyTimeout = 1
  MaxEndpoints = 1
  MaxLen = 1
  HeaderLength = 1
  Aborters <- OneAborter
PROPERTIES
  TimedCallReturns
