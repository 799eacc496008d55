CONSTANTS
  PendingMaximum = 2
  MaximumSendBytes = 1
  SendmarkqMaximum = 2
  WriteSizes = {1, 2}
  RecvmarkqMaximum = 2
  ReadSizes = {1, 2}
  StreamLength = 2
SPECIFICATION Spec
INVARIANT NoByteLost
PROPERTY StreamSpec
CHECK_DEADLOCK FALSE
