SPECIFICATION Spec
CONSTANTS
  Requests = {r1, r2}
  MaxExec = 2
  MaxLoss = 1
  Faulty = {"pd", "ecl"}
  Batches = 1
  Slots = 2
  TimeLimits = TRUE
  HardLimit = 1
  StuckQueued = 1
  StuckRunning = 2
INVARIANT StageCompleteHasResults
INVARIANT OneComputation
PROPERTY QueuedOnlyWhenIdle
CHECK_DEADLOCK FALSE
CONSTRAINT NoOverlap
SYMMETRY RequestSymmetry
