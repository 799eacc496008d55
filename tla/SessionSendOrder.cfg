CONSTANTS
  PendingMaximum = 3
  MaximumSendBytes = 2
  SendmarkqMaximum = 3
  StreamLength = 6
  WriteSizes = {1, 2}
SPECIFICATION Spec
INVARIANT SortedByClock
CHECK_DEADLOCK FALSE
