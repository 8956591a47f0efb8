SPECIFICATION Spec
CONSTANTS
  Recorder = {1, 2, 3}
  Earlier <- MCEarlier
  Width <- MCWidth
  Fitting <- MCFitting
  Missing = Missing
  Garbage = Garbage
  Spliced = 99
  Overlapping = TRUE
  Failing = TRUE
CHECK_DEADLOCK FALSE
INVARIANTS
  TypeOK
  LostOnlyToOverlap
  ReadableIsWriteOrder
PROPERTIES
  CorruptionIsKept
  EveryRunEnds
