SPECIFICATION FairSpec
CONSTANTS
  i1 = i1
  i2 = i2
  v1 = v1
  Keys = {i1}
  Types = {"image"}
  VideoTypes = {}
  TypeOf <- MCTypeOf
  Stripe <- OwnStripe
  LoadRequests = {r1, r2}
  RegenRequests = {}
  Workers = {w1}
  PreGenThread = p
  None = None
  MaxBumps = 1
  MaxTrims = 0
  MaxPasses = 1
PROPERTIES
  EveryRequestAnswered
  EveryClearFinishes
CHECK_DEADLOCK FALSE
