SPECIFICATION NSpec
CONSTANTS
  M = 4
  Bursts = {1, 2}
  NSamples = 3
  NSeries = 1
  Percents = FALSE
  Hundred = 100
  Slack = 0
  Samples <- MCSamples
INVARIANT HandlesRollover
CHECK_DEADLOCK FALSE
