SPECIFICATION FairSpec
CONSTANTS
  MaxContracts = 3
  Envelope = {e1}
  NoEnvelope = NoEnvelope
  Request = {r1}
  Crashes = FALSE
INVARIANTS
  OpenContractIsUsable
  VoidedOpportunityHasNoAmount
PROPERTIES
  VoidClosesChangeOrders
  VoidIsDelivered
CHECK_DEADLOCK FALSE
