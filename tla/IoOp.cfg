CONSTANTS
  Threads = {t1, t2, t3}
  Ops = {read, write, close}
  MaxStarts = 4
  MaxPuts = 4
SPECIFICATION FairSpec
INVARIANTS
  TypeOK NoLostWakeup TakenOnce HandlersNest
PROPERTIES
  OperationsComplete
CHECK_DEADLOCK FALSE
