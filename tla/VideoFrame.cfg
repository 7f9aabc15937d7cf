SPECIFICATION FairSpec
CONSTANTS
  Length = 3
  Sizes <- MCSizes
  ReadAhead = 2
  MaxFetch = 2
  RangeCount = 2
  BufferSize = 3
  MaxBytes = 3
  MaxPackets = 2
  MaxFrames = 1
  MaxDimension = 3
  Stamps = {0, 1}
  Durations = {3}
  NoPts <- NoPtsValue
  Shapes <- MCShapes
  Angles <- MCAngles
  PlatformFrame = PlatformFrame
  None = None
INVARIANTS
  TypeOK
  BytesAreTheFiles
  KnownSizeIsComplete
  StallIsNotTheEnd
  BestFrame
  HandlesReleased
  BitmapIsWhole
PROPERTIES
  ExtractionEnds
CHECK_DEADLOCK FALSE
