SPECIFICATION Spec
CONSTANTS
  Values <- MCValues
  Collectors <- MCCollectors
  Widgets <- MCWidgets
  NSamples = 3
  MaxUpdates = 4
INVARIANTS
  TypeOK
  SamplesInOrder
  DrawingSpansTwoUpdates
  TimerDrawsItsUpdate
  QuietIsCurrent
