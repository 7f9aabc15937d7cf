SPECIFICATION FairSpec
CONSTANTS
  f1 = f1
  f2 = f2
  f3 = f3
  Thumbs = {f1, f2, f3}
  Size <- MCSize
  Limits <- MCLimits
  Callbacks = {c1}
  None = None
  MaxChanges = 2
  MaxFailures = 1
  MaxCrashes = 1
INVARIANTS
  TypeOK
  PublishedIsTrue
  NoTrimLost
PROPERTIES
  TrimKeepsNewest
  OverLimitIsTrimmed
CHECK_DEADLOCK FALSE
