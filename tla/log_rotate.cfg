SPECIFICATION Spec
CONSTANTS
  MaxLines = 3
  MaxRotations = 1
  MaxErrors = 0
PROPERTY TailsRotated
