CONSTANTS
  PendingMaximum = 3
  MaximumSendBytes = 2
  SendmarkqMaximum = 3
  StreamLength = 7
  WriteSizes = {1, 2, 3, 4}
SPECIFICATION FairSpec
INVARIANTS
  TypeOK RingInOrder BlocksInOrder EofIsLast NoLostWriterWakeup
PROPERTIES
  WritesComplete EofIsSent
CHECK_DEADLOCK FALSE
