SPECIFICATION Spec
CONSTANTS
  Remotes = {r1, r2}
  AtBoot = {r1}
  MaxEdits = 1
  MaxLogins = 2
  MaxRefresh = 0
  MaxKernels = 2
  MaxCrashes = 0
  MaxEvents = 1
  MaxQueue = 1
  None = None
PROPERTIES
  EnteredCookieWins
CHECK_DEADLOCK FALSE
