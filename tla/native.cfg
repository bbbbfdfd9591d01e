SPECIFICATION Spec
CONSTANTS
  StallLimit = 2
  MaxEvents = 2
INVARIANTS
  TypeOK
  QuitsOnce
  StoppedInOrder
PROPERTIES
  ChangesApply
  QuitEnds
  StallEnds
  ResizeAnswered
CHECK_DEADLOCK FALSE
