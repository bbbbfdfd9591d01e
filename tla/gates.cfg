SPECIFICATION Spec
CONSTANTS
  NumGates = 2
  Operator <- MCOperator
  Threshold <- MCThreshold
  Duration <- MCDuration
  Values <- MCValues
  NoValue = NoValue
  MaxTime = 3
  MaxFaults = 2
  Reboots = TRUE
INVARIANT TypeOK
INVARIANT HistoryCoversState
INVARIANT DriftBounded
PROPERTY NeverEarly
PROPERTY NoFlap
PROPERTY ReportMatchesTable
PROPERTY Prompt
