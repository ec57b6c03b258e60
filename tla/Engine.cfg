SPECIFICATION EngineSpec
CONSTANTS
  Recordings <- EveryRecording
  Operations <- Recordable
  Settings <- SettingsOf
  Adjoints <- AdjointsOf
  AdjointChunks = 2
  Rates <- SomeRates
  Meaning <- TermOf
  MaxRounds = 16
  ScanMinSteps = 3
  ScanMaxDepth = 4
  ScanMaxTree = 12
  MinBlockRows = 1
  Tile = 2
  EmitMinRows = 4
  MaxTail = 2
INVARIANTS InferDenotes RoundTrips Runs PricedAsRun GradientIsDerivative DerivedProgramIsAdjoint
PROPERTIES ProposalsStand
CHECK_DEADLOCK FALSE
