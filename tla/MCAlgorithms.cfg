\* Roots up to 46339: every value below 2^31 at the ends of its interval, all values
\* up to 200^2; vaults of up to four accounts; the sample files of SampleState.
CONSTANTS
  MaxRoot = 46339
  ExhaustiveRoot = 200
  MaxAccounts = 4
  BASE_MAINNET_MAX_CAP = 25
  rank <- sampleRank
  builtIndexer <- sampleIndexer
  builtArtifacts <- sampleArtifacts
  builtReports <- sampleReports
  builtLaunchCore <- sampleLaunchCore
  builtTaskScoutReplay <- sampleReplay
  mockObservation <- sampleMockObservation
  scoreOf <- sampleScore
SPECIFICATION AlgorithmsSpec
  
PROPERTIES EnvelopeBindsDocument  CommitmentsBind ReadModelAnswers
CHECK_DEADLOCK FALSE
