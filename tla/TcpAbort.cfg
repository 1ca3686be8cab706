\* Another thread calls abort() at any moment, its steps interleaved with
\* those of the owner.
SPECIFICATION Spec
CONSTANTS
  t1 = t1
  Timeouts <- OneTimeout
  MaxTimeout = 1
  BodyTimeout = 1
  MaxEndpoints = 1
  MaxLen = 2
  HeaderLength = 1
  Aborters <- OneAborter
INVARIANTS
  OneDeadlineActor
PROPERTIES
  NeverCutEarly
