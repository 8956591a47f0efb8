SPECIFICATION Spec
CONSTANTS
  FlagInputs <- MCFlagInputs
  Noisy <- MCNoisy
  Flaky <- MCFlaky
  NoisySeverities = {"Info", "Medium"}
CHECK_DEADLOCK FALSE
INVARIANTS TypeOK NothingIsSilent ExitIsOfTheWholeScan DisplayIsTheFilteredReport
PROPERTIES CtrlCEnds SessionEnds
