SPECIFICATION Spec
CONSTANTS
  Admins = {a1}
  Tenants = {t1, t2, t3}
  Bases = {acme}
  SlugTries = 2
  Rows = {i1, i2, i3}
  Versions = {v1, v2, v3}
  Initial = v1
  Requests = {q1, q2}
  MaxRequests = 4
  MaxOutages = 1
  None = None
INVARIANT OneImpersonation
INVARIANT OneCurrentVersion
INVARIANT OutageIsReported
SYMMETRY PlatformSymmetry
CHECK_DEADLOCK FALSE
