SPECIFICATION Spec
CONSTANTS
  Runs = {x1, x2}
  Requests = {q1}
  Kinds = {"LGD"}
  Names = {n1}
  Clean = {good}
  Warned = {odd}
  Blocked = {bad}
  Macros = {macro}
  Oversize = {big}
  Blamed = {"LGD"}
  MaxUploads = 4
INVARIANT TypeOK
INVARIANT ComputedInputsWereValidated
CONSTRAINT Undisturbed
SYMMETRY RunSymmetry
CHECK_DEADLOCK FALSE
