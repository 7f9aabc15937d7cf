SPECIFICATION FairSpec
CONSTANTS
  Remotes = {r1}
  AtBoot = {r1}
  MaxEdits = 2
  MaxLogins = 2
  MaxRefresh = 1
  MaxKernels = 2
  MaxCrashes = 1
  MaxEvents = 2
  MaxQueue = 1
  None = None
INVARIANTS
  TypeOK
  OneKernel
  Converged
CHECK_DEADLOCK FALSE
PROPERTIES
  StatusMachine
  StartsAreAnswered
