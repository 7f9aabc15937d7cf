SPECIFICATION FairSpec
CONSTANTS
  Jobs = {j1, j2}
  Moves = {j2}
  MaxInstances = 2
  MaxErrors = 2
  MaxPosted = 2
  None = None
INVARIANTS
  TypeOK
  HandledAtMostOnce
  JobsAreTracked
PROPERTIES
  TrimSparesRunning
  FinishedIsHandled
  QueueDrains
CHECK_DEADLOCK FALSE
