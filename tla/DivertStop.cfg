CONSTANTS
  SockCap = 1
  MaxSignals = 0
  MaxFailures = 0
SPECIFICATION DivertFairSpec
PROPERTY StopNeverHangs
CHECK_DEADLOCK FALSE
