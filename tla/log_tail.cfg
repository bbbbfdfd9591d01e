SPECIFICATION FikaSpec
CONSTANTS
  MaxLines = 3
  MaxRotations = 1
  MaxErrors = 1
  Threshold = 2
  Backoff = 2
INVARIANT ShownFromStart
INVARIANT NoRepeat
PROPERTY Tails
PROPERTY CrashNoticed
