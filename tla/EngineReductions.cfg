SPECIFICATION EngineSpec
CONSTANTS
  Recordings <- ReductionRecording
  Operations <- Recordable
  Settings <- ReductionSettings
  Adjoints <- NoAdjoints
  AdjointChunks = 2
  Rates <- SomeRates
  Meaning <- TermOf
  MaxRounds = 16
  ScanMinSteps = 3
  ScanMaxDepth = 4
  ScanMaxTree = 12
  MinBlockRows = 1
  Tile = 2
  EmitMinRows = 4
  MaxTail = 2
INVARIANTS GroupsNeverWrong
CHECK_DEADLOCK FALSE
