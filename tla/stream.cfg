SPECIFICATION Spec
CONSTANTS
  c1 = c1
  c2 = c2
  c3 = c3
  Client = {c1, c2, c3}
  Stuck = {c2}
  MAX_SUBSCRIBERS = 2
  QUEUE_MAXLEN = 2
  PersistMayFail = TRUE
  MaxSnapshots = 4
INVARIANT InOrder
INVARIANT NewestKept
PROPERTY ImplementsFeed
PROPERTY CatchesUp
PROPERTY CyclesEnd
CHECK_DEADLOCK FALSE
