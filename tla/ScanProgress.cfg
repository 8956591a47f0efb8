SPECIFICATION Spec
CONSTANTS
  FlagInputs <- MCInteractive
  Noisy <- MCNoisy
  Flaky <- MCFlaky
  NoisySeverities = {"Info", "Medium"}
CHECK_DEADLOCK FALSE
INVARIANT ProgressIsShown
