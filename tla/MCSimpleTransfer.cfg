CONSTANTS
  BufferSize = 3
  LowWaterMark = 0
  HighWaterMark = 3
  UnsignedSize = 1
  SpuriousWakeups = TRUE
  StreamLength = 5
  MaxRequest = 4
SPECIFICATION FairSpec
INVARIANTS SimpleTypeOK ResultsAddUp
PROPERTIES CutShortOnlyAtEnd CallsReturn
