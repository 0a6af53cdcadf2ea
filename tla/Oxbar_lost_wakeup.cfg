SPECIFICATION FairSpec
CONSTANT Faults = {}
PROPERTIES
  WakesUp
