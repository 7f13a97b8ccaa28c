CONSTANTS
  BufferSize = 4
  LowWaterMark = 1
  HighWaterMark = 3
  UnsignedSize = 2
  SpuriousWakeups = TRUE
  StreamLength = 6
  MaxRequest = 5
SPECIFICATION Spec
INVARIANTS TypeOK NoOverlap InOrder LegalCallsSucceed NoLostWakeup
PROPERTIES StreamSpec ResumeAtMark
