SPECIFICATION FairSpec
CONSTANTS
  Request = {r1, r2}
  Array = {a1}
  Place = {p1, p2}
  Losses = {l1}
  Id = {i1, i2}
  NoId = NoId
INVARIANTS
  TypeOK
  ValuesAreSomewhere
  MissingIsLost
  OrphansAreOfTasks
PROPERTIES
  UploadSettles
CHECK_DEADLOCK FALSE
