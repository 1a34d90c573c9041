CONSTANTS
  MaxFails = 0
  MaxCrashes = 0
  MaxRuns = 1
SPECIFICATION Spec
INVARIANT FallsBackToData
CHECK_DEADLOCK FALSE
