SPECIFICATION Spec
CONSTANTS
  WidgetColors <- MCWidgetColors
  Strings <- MCStrings
  DefaultFont = "font 1"
  DefaultColor = "red"
  Files <- MCFontFiles
  Args <- MCFontArgs
  Height <- MCHeight
  DisplayWidth = 100
  DisplayHeight = 80
  MaxReloads = 1
INVARIANTS
  HeightFollowsFont
CHECK_DEADLOCK FALSE
