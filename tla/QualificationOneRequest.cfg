SPECIFICATION FairSpec
CONSTANTS
  Qualifications = {q1}
  NoQualification = NoQualification
  Request = {r1}
  Refnum = {n1}
  NoRefnum = NoRefnum
  Consents <- JointConsents
  Decisions <- OneOfEachKind
  MaxApplications = 2
  Failures = TRUE
INVARIANTS
  EmailedCanProceed
  ActiveApplicationAuthorized
PROPERTIES
  SubmittedIsResolved
CHECK_DEADLOCK FALSE
