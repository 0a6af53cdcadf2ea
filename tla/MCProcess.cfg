SPECIFICATION Spec
CONSTANTS
  Mixers <- MCMixers
  MaxColormaps = 3
  Colours <- MCColours
  Sizes <- MCSizes
INVARIANTS
  UsesOnlyHeld
  RunsSteady
  GivesBack
  VolumeFindsOutputs
  ColourIsExact
  SizeIsRight
CHECK_DEADLOCK FALSE
