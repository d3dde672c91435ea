SPECIFICATION MonitoredSpec
CONSTANTS
  Design = {d1}
  Quote = {q1, q2}
  Proposal = {p1}
  Contract = {c1}
  Request = {r1, r2}
  MaxChanges = 1
SYMMETRY Symmetry
INVARIANTS
  TypeOK
  StaleIsFlagged
  NoDangling
  ProposalShowsItsQuote
PROPERTIES
  UsedQuoteIsFrozen
  UsedDesignIsFrozen
CHECK_DEADLOCK FALSE
