CONSTANTS
  MaxFails = 2
  MaxCrashes = 2
  MaxRuns = 3
SPECIFICATION Spec
INVARIANTS
  FilesWhole
  DriverUndone
  DriverStaysUp
  ComesUpAgain
CHECK_DEADLOCK FALSE
