SPECIFICATION Spec
CONSTANTS
  ReportDelay = 1
  MaxLost = 1
PROPERTIES
  GivingUpEnds
CHECK_DEADLOCK FALSE
