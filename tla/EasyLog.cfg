\* Two threads log at any time, one of them also before main() and after it; a
\* day ends meanwhile.
SPECIFICATION Spec
CONSTANTS
  t1 = t1
  t2 = t2
  Threads <- TwoThreads
  Main = t1
  StaticsLog = TRUE
  MaxCalls = 2
  MaxClock = 2
  Day = 2
INVARIANTS
  StampIsOwn
PROPERTIES
  StaysSettled
  JournalSpec
CHECK_DEADLOCK FALSE
