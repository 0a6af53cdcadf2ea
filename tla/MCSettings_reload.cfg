SPECIFICATION Spec
CONSTANTS
  WidgetColors <- MCWidgetColors
  Strings <- MCStrings
  DefaultFont = "font 1"
  DefaultColor = "red"
  Files <- MCFiles
  Args <- MCArgs
  Height <- MCHeight
  DisplayWidth = 100
  DisplayHeight = 80
  MaxReloads = 1
INVARIANTS
  TypeOK
  NoDangling
  FileIsApplied
  CommandLineWins
  BottomIsBottom
CHECK_DEADLOCK FALSE
