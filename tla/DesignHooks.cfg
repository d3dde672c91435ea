SPECIFICATION FairSpec
CONSTANTS
  Array = {a1, a2, a3}
INVARIANTS
  TypeOK
  OneRegeneration
  HeatmapsFollowDesign
PROPERTIES
  AnswerShowsProduction
  FlushedIsAnswered
  PlanOnlyGrows
CHECK_DEADLOCK FALSE
