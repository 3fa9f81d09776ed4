SPECIFICATION BreakerFairSpec
CONSTANTS
  Task = {t1, t2}
  Threshold = 2
  Cooldown = 2
  MaxTime = 6
  MaxSpawn = 4
  MaxFailures = 3
INVARIANTS PauseIsBounded
PROPERTIES CircuitCloses
