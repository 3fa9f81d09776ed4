SPECIFICATION FairSpec
CONSTANTS
  c1 = c1
  c2 = c2
  c3 = c3
  Call = {c1, c2, c3}
  NoCall = NoCall
  Service <- MCServiceMixed
  KeyOf <- MCKeyOf
  LockOf <- MCLockOf
  Session = {s1, s2}
  NoSession = NoSession
  NPolicies = 1
  PolicyRoute <- MCRouteAll
  MaxRequests <- MCMaxRequests
  MaxCost <- MCMaxCost
  Projected = 1
  Cost <- MCCost
  MaxAttempts = 2
  NProviders = 1
  Threshold = 1
  Permits = 2
  MaxWindow = 0
  Faults = FALSE
INVARIANTS SharedAnswersAreGood LedgerIsTrue
PROPERTIES OpenCircuitStays CallsEnd
