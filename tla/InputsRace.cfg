SPECIFICATION Spec
CONSTANTS
  Runs = {x1}
  Requests = {q1, q2}
  Kinds = {"PD", "LGD"}
  Names = {n1}
  Clean = {good}
  Warned = {}
  Blocked = {bad}
  Macros = {}
  Oversize = {}
  Blamed = {}
  MaxUploads = 3
INVARIANT ComputedInputsWereValidated
INVARIANT SingleFileKinds
PROPERTY CompletedInputsKept
CONSTRAINT Undisturbed
SYMMETRY RequestSymmetry
CHECK_DEADLOCK FALSE
