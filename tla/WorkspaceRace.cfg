SPECIFICATION Spec
CONSTANTS
  Users = {u1, u2}
  Invites = {i1}
  Requests = {q1, q2}
  MaxRequests = 3
  MaxLapses = 1
  None = None
  retail = retail
  Retail = Retail
  Kinds = {"segment"}
  Names = {retail, Retail}
  Fold <- CaseFold
  MaxItems = 2
  Wizards <- TwoWizards
INVARIANT KeepsAnAdmin
INVARIANT InviteGrantsOnce
INVARIANT AcceptedNamesAreListed
INVARIANT OnboardsOnce
SYMMETRY WorkspaceSymmetry
CHECK_DEADLOCK FALSE
