SPECIFICATION FairSpec
CONSTANTS
  Steps <- LaunchSteps
  EarlyKillMisses = FALSE
INVARIANTS TypeOK StoppedMeansDown FinalizedOnce AbortEscalates
PROPERTIES NoStepAfterStop AbortEnds
