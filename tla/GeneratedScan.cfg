SPECIFICATION Spec
CONSTANTS
  Edits <- MCEdits
  MaxEdits = 1
  MaxRuns = 2
INVARIANTS
  GeneratedSettingsAreRead
CHECK_DEADLOCK FALSE
