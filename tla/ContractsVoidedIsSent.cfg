SPECIFICATION Spec
CONSTANTS
  MaxContracts = 1
  Envelope = {e1}
  NoEnvelope = NoEnvelope
  Request = {r1}
  Crashes = FALSE
SYMMETRY Symmetry
PROPERTIES
  VoidedIsNotSent
CHECK_DEADLOCK FALSE
