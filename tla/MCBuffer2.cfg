CONSTANTS
  BufferSize = 8
  LowWaterMark = 2
  HighWaterMark = 7
  UnsignedSize = 2
  SpuriousWakeups = TRUE
  RequestOption <- NotGiven
  StreamLength = 12
SPECIFICATION FairSpec
INVARIANTS TypeOK CopiesPrefix CompleteOnSuccess FailureReported
PROPERTIES StopsForOutputOnly NoFutileWakeup Terminates FailureReachesInput StalledSourceDrains
  StalledDestinationFills ClientSpec
