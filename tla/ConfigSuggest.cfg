SPECIFICATION Spec
CONSTANTS
  Edits <- MCEdits
  MaxEdits = 2
  MaxRuns = 2
INVARIANTS
  PatchFixesItsFindings
  PatchCausesNothingNew
  ReachableListenersAreReported
  GeneratedIsHardened
CHECK_DEADLOCK FALSE
