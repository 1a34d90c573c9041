CONSTANTS
  p1 = p1
  p2 = p2
  p3 = p3
  bare = bare
  \* the reassembly buffer
  SeqSpace = 7
  MaxBytes = 5
  BaseSeq = 5
  Byte = {1, 2}
  MaxFragment = 3
  \* the splitters
  MaxSize = 7
  \* the NFQUEUE adapter
  Packets = {p1, p2, p3, bare}
  Bare = {bare}
  RecvCap = 1
  \* the Linux host
  MaxFails = 3
  MaxCrashes = 2
  MaxRuns = 4
  \* the divert adapter
  SockCap = 3
  MaxSignals = 2
  MaxFailures = 2
SPECIFICATION PartsSpec
INVARIANTS
  SegmentsSeparated
  BytesAccounted
  SegmentsTile
  SegmentsFit
  CutsWholePayload
  MatchesClosedForm
  FlushedStaysEmpty
  StuckIsExcused
  BypassBeforeQueue
  RulesRemoved
  OffloadRestored
  FlushDrains
PROPERTIES
  ImplementsWindow
  ErrorEndsRecv
  FlushEnds
  ShutdownUnlessBusy
CHECK_DEADLOCK FALSE
