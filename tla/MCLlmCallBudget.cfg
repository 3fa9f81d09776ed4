SPECIFICATION Spec
CONSTANTS
  c1 = c1
  c2 = c2
  c3 = c3
  Call = {c1, c2, c3}
  NoCall = NoCall
  Service <- MCServiceInterpret
  KeyOf <- MCKeyOf
  LockOf <- MCLockOf
  Session = {s1}
  NoSession = NoSession
  NPolicies = 1
  PolicyRoute <- MCRouteInterpret
  MaxRequests <- MCMaxRequests
  MaxCost <- MCMaxCost
  Projected = 1
  Cost <- MCCost
  MaxAttempts = 2
  NProviders = 2
  Threshold = 2
  Permits = 2
  MaxWindow = 1
  Faults = TRUE
SYMMETRY CallSymmetry
INVARIANTS OverrunIsBounded
