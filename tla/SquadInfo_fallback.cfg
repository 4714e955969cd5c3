CONSTANTS
  Fields = 2
  MaxConn = 2
SPECIFICATION Spec
INVARIANT CompleteInfoStays
CHECK_DEADLOCK FALSE
