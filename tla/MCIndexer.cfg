CONSTANTS
  Pulses <- MCPulses
  Payload <- MCPayload
  TxOf <- MCTxOf
  ArtifactsByUri <- MCArtifacts
  MaxArtifactBytes = 2
  Bodies <- MCBodies
  MaxHeight = 2
  MaxForks = 1
  MaxExtras = 1
  MaxSpan = 1
  Thresholds = {1}
SPECIFICATION Spec
ACTION_CONSTRAINT CanaryRunsFirst
INVARIANTS NoGapBelowCheckpoint EveryLogAccounted RelocatedPulseNotCurrent ReplayIdempotent
  
