SPECIFICATION Spec
CONSTANTS
  Statements = 2
  Threshold = 2
  Backoff = 2
  MaxFaults = 2
INVARIANT SchemaWhole
INVARIANT RowsOnTime
 
