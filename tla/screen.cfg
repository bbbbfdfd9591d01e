SPECIFICATION ScreenSpec
CONSTANTS
  Sessions = {"boxes", "graph", "processes", "tree", "text"}
  Terminals <- ScreenTerminals
  Presets <- ScreenPresets
  Filters <- ScreenFilters
  Pids = {p1, p2, p3}
  Nobody = Nobody
  Rows = 2
  DetailRows = 1
  MaxKeys = 3
  MaxEvents = 1
  Toggles = 1
  TreePids = {t1, t2, t3}
  TreeFilters <- ScreenTreeFilters
  Orders <- ScreenOrders
  Samples = 2
  Widths = {2}
  MaxText = 5
  Room = 3
INVARIANTS
  ScreenTypeOK
  BoxesTile
  BoxesAgree
  PausedByChoice
  
  TreeShown
  FieldShowsCursor
PROPERTIES
  SelectionNamed
  KillsPointedAt
CHECK_DEADLOCK FALSE
