\* One thread, which logs also before main() and after it.
SPECIFICATION Spec
CONSTANTS
  t1 = t1
  t2 = t2
  Threads <- OneThread
  Main = t1
  StaticsLog = TRUE
  MaxCalls = 2
  MaxClock = 1
  Day = 2
INVARIANTS
  CollectedSingleton
CHECK_DEADLOCK FALSE
