SPECIFICATION FairSpec
CONSTANTS
  MaxWindows = 2
  MaxEvents = 3
  MaxChanges = 2
  MaxWork = 4
  Panel = 2
  Sizes = {1, 3}
INVARIANTS
  TypeOK
  PointersLive
  RowsFit
  RequestsKept
  RequestsQueued
PROPERTIES
  InputReachesScreen
  OrientationAnswered
  ToolbarShown
