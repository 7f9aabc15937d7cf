SPECIFICATION Spec
CONSTANTS
  i1 = i1
  i2 = i2
  v1 = v1
  Keys = {i1, v1}
  Types = {"image", "video"}
  VideoTypes = {"video"}
  TypeOf <- MCTypeOf
  Stripe <- SharedStripe
  LoadRequests = {r1}
  RegenRequests = {g1}
  Workers = {w1}
  PreGenThread = p
  None = None
  MaxBumps = 1
  MaxTrims = 1
  MaxPasses = 1
INVARIANTS
  TypeOK
  AnsweredOnceOrAwaited
  MemoryShowsImport
PROPERTY
  ImportedIsKept
CHECK_DEADLOCK FALSE
