SPECIFICATION FairSpec
CONSTANTS
  f1 = f1
  f2 = f2
  f3 = f3
  Thumbs = {f1, f2, f3}
  Size <- MCSize
  Limits <- MCLimits
  Callbacks = {c1}
  None = None
  MaxChanges = 2
  MaxFailures = 0
  MaxCrashes = 1
PROPERTY OverLimitIsTrimmedAfterRestart
CHECK_DEADLOCK FALSE
