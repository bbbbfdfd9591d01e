SPECIFICATION Spec
CONSTANTS
  Faults = {"hang"}
  STALE_THRESHOLD_CYCLES = 3
  MaxFaults = 1
PROPERTY AlwaysHeals
