SPECIFICATION LSpec
CONSTANTS
  Lists <- MCLists
  Margin <- MCMargin
  Padding <- MCPadding
  Setups <- MCSetups
  Ncpu = 2
  MAX_ALL_WIDGETS = 2
  Width = 40
  Spacing = 4
  ChartWidth = 7
  NSAMPLES = 6
  TextWidths = {3}
  Tokens = {"<", "|", ">", "cpu", "memory", "net", "volume", "bogus"}
  MaxTokens = 3
INVARIANTS
  LeavesOnlyUnfreed
  OnlyLive
  SideBySide
  AllShown
  KeepsMargins
  OneSampleEach
PROPERTY
  ImplementsWidgets
CHECK_DEADLOCK FALSE
