SPECIFICATION Spec
CONSTANTS
  NumGates = 1
  Operator <- MCOne
  Threshold <- MCOneThreshold
  Duration <- MCOneDuration
  Values <- MCValues
  NoValue = NoValue
  MaxTime = 4
  MaxFaults = 0
  Reboots = FALSE
PROPERTY SustainedTrigger
