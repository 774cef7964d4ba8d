SPECIFICATION FairSpec
CONSTANTS
  Requests = {r1}
  MaxExec = 1
  MaxLoss = 2
  Faulty = {"pd", "lgd", "ead", "ecl"}
  Batches = 2
  Slots = 2
  TimeLimits = TRUE
  HardLimit = 1
  StuckQueued = 1
  StuckRunning = 2
INVARIANT TypeOK
INVARIANT CompleteRunIsWhole
INVARIANT EadJoinsBothStages
INVARIANT RecoveryAfterStagesStopped
CHECK_DEADLOCK FALSE
PROPERTY ActiveRunSettles
