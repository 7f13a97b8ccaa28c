CONSTANTS
  BufferSize = 3
  LowWaterMark = 3
  HighWaterMark = 0
  UnsignedSize = 2
  SpuriousWakeups = FALSE
  RequestOption <- NotGiven
  StreamLength = 6
SPECIFICATION Spec
PROPERTIES StopsForOutputOnly
