SPECIFICATION Spec
CONSTANTS
  Job = {j1}
  Worker = {w1}
  MaxTries = 2
  BatchSize = 2
  Permits = 1
  Threshold = 2
  MaxRevives = 1
  Faults = {"crash", "redis", "db"}
SYMMETRY Symmetry
INVARIANTS OneLiveEntry NothingVanishes
PROPERTIES ImplementsJobQueue
