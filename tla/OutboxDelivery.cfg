SPECIFICATION FairSpec
CONSTANTS
  Rows = {e1, e2}
  Unknown = {e2}
  Pollers = {p1, p2}
  Limit = 1
  MaxAttempts = 3
  MaxRetries = 2
  MaxFaults = 2
INVARIANT TypeOK
INVARIANT DuplicatesOnlyByFaults
INVARIANT DeadLetterHasReason
INVARIANT DispatchedIsAccountedFor
PROPERTY KeepsPromise
PROPERTY CommittedMailEnds
CHECK_DEADLOCK FALSE
