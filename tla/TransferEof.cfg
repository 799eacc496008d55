CONSTANTS
  PendingMaximum = 2
  MaximumSendBytes = 1
  SendmarkqMaximum = 2
  WriteSizes = {1}
  RecvmarkqMaximum = 2
  ReadSizes = {1}
  StreamLength = 1
SPECIFICATION Spec
INVARIANT EofIsKept
CHECK_DEADLOCK FALSE
