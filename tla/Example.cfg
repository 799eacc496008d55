CONSTANTS
  MaxPending = 2
  MaxUnread = 1
  MaxReady = 1
  MaxOnTheWay = 1
  ReadLimit = 1
SPECIFICATION FairSpec
INVARIANTS
  GracefulMeansDelivered ClientEndsFirst
PROPERTIES
  ServerFinishes
CHECK_DEADLOCK FALSE
