CONSTANTS
  PendingMaximum = 1
  MaximumSendBytes = 1
  SendmarkqMaximum = 3
  WriteSizes = {1}
  RecvmarkqMaximum = 1
  ReadSizes = {1}
  StreamLength = 2
SPECIFICATION FairSpec
PROPERTY BytesArrive
CHECK_DEADLOCK FALSE
