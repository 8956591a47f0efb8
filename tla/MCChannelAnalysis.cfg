SPECIFICATION Spec
CONSTANTS
  Scale = 5
  Snapshots = 5
  SeriesInputs <- MCSeriesInputs
  OptionInputs <- MCOptionInputs
INVARIANTS
  TypeOK
  IInv
  StreaksAreLongestRuns
  CorroborationImpliesBoth
  EvidenceReachesThreshold
PROPERTY ImplementsVerdict
CHECK_DEADLOCK FALSE
