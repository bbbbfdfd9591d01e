SPECIFICATION Spec
CONSTANTS
  Faults = {"cancel", "raise", "hang", "freeze", "die"}
  STALE_THRESHOLD_CYCLES = 3
  MaxFaults = 3
INVARIANT TypeOK
INVARIANT NoUseAfterClose
PROPERTY StopWins
PROPERTY StaleSurfaces
PROPERTY SelfHeals
