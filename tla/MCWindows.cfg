CONSTANTS
  p1 = p1
  p2 = p2
  p3 = p3
  \* the WinDivert adapter
  Packets = {p1, p2, p3}
  RecvCap = 1
  \* the service and its tray
  Params <- MCParams
  Configs <- MCConfigs
  FirstFile <- First
  MaxEdits = 2
  MaxControls = 2
  MaxFails = 1
  Helpers = {h1}
  MaxClicks = 3
  MaxPollErrors = 1
SPECIFICATION WindowsSpec
INVARIANTS
  FlushLeavesNothing
  ReloadExact
PROPERTIES
  FlushEnds
  ReloadHeard
  StopEnds
  TrayFollows
CHECK_DEADLOCK FALSE
