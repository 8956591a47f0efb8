SPECIFICATION Spec
CONSTANTS
  Recorder = {1, 2, 3, 4}
  Earlier <- MCEarlier
  Width <- MCWidth
  Fitting <- MCFitting
  Missing = Missing
  Garbage = Garbage
  Spliced = 99
  Overlapping = FALSE
  Failing = FALSE
CHECK_DEADLOCK FALSE
PROPERTY ImplementsLog
