SPECIFICATION FairSpec
CONSTANTS
  Job = {j1, j2}
  Worker = {w1, w2}
  MaxTries = 2
  BatchSize = 2
  Permits = 1
  Threshold = 2
  MaxRevives = 0
  Faults = {}
PROPERTIES JobsEnd
