SPECIFICATION Spec
CONSTANTS
  Requests = {r1}
  MaxExec = 1
  MaxLoss = 1
  Faulty = {}
  Batches = 2
  Slots = 2
  TimeLimits = TRUE
  HardLimit = 1
  StuckQueued = 1
  StuckRunning = 2
INVARIANT DeterministicTotal
CHECK_DEADLOCK FALSE
