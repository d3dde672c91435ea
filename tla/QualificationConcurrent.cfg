SPECIFICATION Spec
CONSTANTS
  Qualifications = {q1}
  NoQualification = NoQualification
  Request = {r1, r2}
  Refnum = {n1, n2}
  NoRefnum = NoRefnum
  Consents <- SingleConsents
  Decisions <- OnlyApproved
  MaxApplications = 2
  Failures = FALSE
SYMMETRY Symmetry
INVARIANTS
  TypeOK
  OneActiveApplication
  ApprovalHasSource
CHECK_DEADLOCK FALSE
