CONSTANTS
  MaxPending = 2
  MaxUnread = 2
  MaxReady = 2
SPECIFICATION FairSpec
INVARIANTS
  TypeOK SendQueueAlive ReadBeforeFinished FinishedStaysFinished
PROPERTIES
  GracefulLosesNothing CloseCompletes
CHECK_DEADLOCK FALSE
