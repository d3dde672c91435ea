SPECIFICATION Spec
CONSTANTS
  MaxTokens = 3
  Request = {r1, r2}
  Failures = FALSE
SYMMETRY Symmetry
INVARIANTS
  CallHasLiveToken
CHECK_DEADLOCK FALSE
