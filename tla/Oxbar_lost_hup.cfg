SPECIFICATION FairSpec
CONSTANT Faults = {}
PROPERTIES
  EveryHupRead
