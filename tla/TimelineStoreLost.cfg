SPECIFICATION Spec
CONSTANTS
  Recorder = {1, 2}
  Earlier <- MCEarlier
  Width <- MCWidth
  Fitting <- MCFitting
  Missing = Missing
  Garbage = Garbage
  Spliced = 99
  Overlapping = TRUE
  Failing = FALSE
CHECK_DEADLOCK FALSE
INVARIANT EveryRecordingIsKept
