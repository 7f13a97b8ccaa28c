CONSTANTS
  Kilo <- MCKilo
  IntSize <- MCIntSize
  Precision = 1000
  LargeBuffer = 16
  DefaultBuffer = 7
  DefaultPipe = 5
  CommandLines <- MCCommandLines
SPECIFICATION Spec
INVARIANTS TypeOK ConstructedLegal LastOptionDecides RequestSizeRule
