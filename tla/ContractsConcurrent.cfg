SPECIFICATION Spec
CONSTANTS
  MaxContracts = 2
  Envelope = {e1}
  NoEnvelope = NoEnvelope
  Request = {r1, r2}
  Crashes = TRUE
SYMMETRY Symmetry
INVARIANTS
  TypeOK
  ReferenceIsOwn
  CompletedWasSigned
PROPERTIES
  VoidedStays
CHECK_DEADLOCK FALSE
