SPECIFICATION Spec
CONSTANTS
  Qualifications = {q1}
  NoQualification = NoQualification
  Request = {r1}
  Refnum = {n1}
  NoRefnum = NoRefnum
  Consents <- SingleConsents
  Decisions <- ApprovedOrPending
  MaxApplications = 1
  Failures = FALSE
PROPERTIES
  OnlyOpenIsStarted
CHECK_DEADLOCK FALSE
