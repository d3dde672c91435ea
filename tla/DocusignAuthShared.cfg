SPECIFICATION MonitoredSpec
CONSTANTS
  MaxTokens = 3
  Request = {r1, r2}
  Failures = TRUE
SYMMETRY Symmetry
INVARIANTS
  TypeOK
  StoredTokenWasAccepted
  UndisturbedCallIsAuthorised
CHECK_DEADLOCK FALSE
