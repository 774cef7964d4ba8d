SPECIFICATION Spec
CONSTANTS
  Users = {u1}
  Tokens = {t1, t2, t3}
  Challenges = {c1}
  Links = {l1}
  Codes = {k1}
  Requests = {q1, q2}
  LockAt = 1
  MaxRequests = 4
  MaxChanges = 1
  None = None
INVARIANT LiveTokenIsListed
INVARIANT SignOutIsFinal
INVARIANT OneSessionPerChallenge
INVARIANT LoggedOutIsRefused
SYMMETRY PoolSymmetry
CHECK_DEADLOCK FALSE
