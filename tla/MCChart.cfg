SPECIFICATION Spec
CONSTANTS
  NSamples = 3
  NSeries = 3
  Percents = TRUE
  Hundred = 2000
  Slack = 3
  Samples <- MCPercentSamples
INVARIANTS
  TypeOK
  ScaleIsRight
  DrawnOldestFirst
  BarsFit
PROPERTIES
  ImplementsHistory
CHECK_DEADLOCK FALSE
