CONSTANTS
  StreamLength = 3
  Blocks <- MCBlocks
  RecvmarkqMaximum = 3
  ReadSizes = {1, 2, 3}
SPECIFICATION LoopSpec
INVARIANTS
  TypeOK AckedIsKept ContiguousIsReceived EofAfterData NoLostReaderWakeup
PROPERTIES
  ReadIsAtomic
CHECK_DEADLOCK FALSE
