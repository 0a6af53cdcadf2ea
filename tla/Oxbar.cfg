SPECIFICATION FairSpec
CONSTANT Faults = {"startup", "config", "xlost", "slowstart"}
INVARIANTS
  TypeOK
  UsesOnlyLive
  OneThreadInGui
PROPERTIES
  DrawsToTheEnd
  ImplementsLifecycle
  QuitEnds
  QuitCleansUp
  ReloadHonoured
  StatsKeepDrawing
