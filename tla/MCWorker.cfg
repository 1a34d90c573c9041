CONSTANTS
  Keys <- MCKeys
  Scenarios <- MCScenarios
  Hello <- MCHello
  Configs <- MCConfigs
  SeqSpace = 32
  HeaderLen = 1
  IPMax = 20
  MaxCalls = 8
SPECIFICATION FairSpec
INVARIANTS
  BudgetsExact
  WithinLimits
  InOrder
  OneVerdictEach
  OnlyGapBytesLost
  BurstTiles
CHECK_DEADLOCK FALSE
PROPERTY HeldLeaves
