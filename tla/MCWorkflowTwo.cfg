SPECIFICATION Spec
CONSTANTS
  Job = {j1, j2}
  FirstJob = j1
  NoJob = NoJob
  Handler = {h1}
  MaxTries = 1
  Permits = 2
  MaxDeliveries = 2
  Faults = FALSE
  HistoryLimit = 50
INVARIANTS AuditMatchesStatus
PROPERTIES StatusFollowsMatrix DoneIsHandedOver
