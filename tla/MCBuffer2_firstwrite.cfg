CONSTANTS
  BufferSize = 4
  LowWaterMark = 4
  HighWaterMark = 4
  UnsignedSize = 2
  SpuriousWakeups = FALSE
  RequestOption = 3
  StreamLength = 6
SPECIFICATION Spec
PROPERTIES NothingWrittenBelowMark
