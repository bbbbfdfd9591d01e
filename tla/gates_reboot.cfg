SPECIFICATION Spec
CONSTANTS
  NumGates = 1
  Operator <- MCOne
  Threshold <- MCOneThreshold
  Duration <- MCOneDuration
  Values <- MCValues
  NoValue = NoValue
  MaxTime = 6
  MaxFaults = 1
  Reboots = TRUE
PROPERTY PromptAcrossReboots
