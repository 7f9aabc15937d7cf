SPECIFICATION Spec
CONSTANTS
  Length = 3
  Sizes <- MCSizes
  ReadAhead = 2
  MaxFetch = 2
  RangeCount = 1
  BufferSize = 1
  MaxBytes = 1
  MaxPackets = 1
  MaxFrames = 1
  MaxDimension = 3
  Stamps = {0, 1}
  Durations = {3}
  NoPts <- NoPtsValue
  Shapes <- MCShapes
  Angles <- MCAngles
  PlatformFrame = PlatformFrame
  None = None
INVARIANTS
  NothingLeaks
CHECK_DEADLOCK FALSE
