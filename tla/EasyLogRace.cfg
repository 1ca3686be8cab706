\* Two threads log for the first time.
SPECIFICATION Spec
CONSTANTS
  t1 = t1
  t2 = t2
  Threads <- TwoThreads
  Main = t1
  StaticsLog = TRUE
  MaxCalls = 1
  MaxClock = 1
  Day = 2
INVARIANTS
  LivesWhileUsed
CHECK_DEADLOCK FALSE
