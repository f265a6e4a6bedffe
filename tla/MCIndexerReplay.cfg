CONSTANTS
  Pulses <- MCPulses
  Payload <- MCPayload
  TxOf <- MCTxOf
  ArtifactsByUri <- MCArtifacts
  MaxArtifactBytes = 2
  Bodies <- MCBodies
  MaxHeight = 1
  MaxForks = 1
  MaxExtras = 2
  MaxSpan = 1
  Thresholds = {1}
SPECIFICATION Spec
ACTION_CONSTRAINT CanaryRunsFirst
INVARIANT ExactDuplicatesRecognised
