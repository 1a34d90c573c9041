CONSTANTS
  MaxFails = 0
  MaxCrashes = 0
  MaxRuns = 1
SPECIFICATION Spec
INVARIANTS
  UninstalledOnExit
CHECK_DEADLOCK FALSE
