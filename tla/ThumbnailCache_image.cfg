SPECIFICATION Spec
CONSTANTS
  i1 = i1
  i2 = i2
  v1 = v1
  Keys = {i1}
  Types = {"image"}
  VideoTypes = {}
  TypeOf <- MCTypeOf
  Stripe <- OwnStripe
  LoadRequests = {r1, r2}
  RegenRequests = {}
  Workers = {w1, w2}
  PreGenThread = p
  None = None
  MaxBumps = 2
  MaxTrims = 1
  MaxPasses = 1
SYMMETRY Symmetry
INVARIANTS
  OneJobPerKey
  AnsweredOnceOrAwaited
  ClearedStaysCleared
  MarkersOfLiveJobs
CHECK_DEADLOCK FALSE
