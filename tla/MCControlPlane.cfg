CONSTANTS
  c1 = c1
  c2 = c2
  c3 = c3
  Client = {c1, c2, c3}
  U64_MAX = 6
  EthDecimals = 1
  RATE_LIMIT_WINDOW_MS = 2
  InitialUnits = 7
  MaxClock = 4
  MaxCrashes = 1
  MaxIdleBlocks = 1
  BASE_MAINNET_MAX_CAP = 25
  sourcesOf <- sampleSources
  rank <- noRank
  builtIndexer <- sampleIndexer
  builtArtifacts <- sampleArtifacts
  builtReports <- sampleReports
  builtLaunchCore <- sampleLaunchCore
  builtTaskScoutReplay <- sampleReplay
  mockObservation <- sampleMockObservation
  scoreOf <- sampleScore
SPECIFICATION ControlPlaneSpec
INVARIANTS FilesConsistent   LimitsHold
PROPERTIES FilesServedAndGuarded EveryRequestAnswered
CHECK_DEADLOCK FALSE
