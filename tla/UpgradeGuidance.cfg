SPECIFICATION Spec
CONSTANTS
  MaxReplays = 0
  MaxTrouble = 0
PROPERTIES
  RefusalsNameTheirCause
CHECK_DEADLOCK FALSE
