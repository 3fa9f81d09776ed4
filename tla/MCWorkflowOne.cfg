SPECIFICATION FairSpec
CONSTANTS
  Job = {j1}
  FirstJob = j1
  NoJob = NoJob
  Handler = {h1, h2}
  MaxTries = 3
  Permits = 1
  MaxDeliveries = 3
  Faults = TRUE
  HistoryLimit = 50
INVARIANTS  GenStatusIsGrounded  DraftedSpecOnly
PROPERTIES JobsEnd
