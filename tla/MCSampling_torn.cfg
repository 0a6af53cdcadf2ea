SPECIFICATION Spec
CONSTANTS
  Values <- MCValues
  Collectors <- MCCollectors
  Widgets <- MCWidgets
  NSamples = 2
  MaxUpdates = 3
INVARIANTS
  SamplesAreWhole
