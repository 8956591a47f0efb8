SPECIFICATION Spec
CONSTANTS
  Channels = {1, 2, 3}
  terms <- MCTerms
  MaxInt = 16777215
  Amounts = {0, 500000, 600000, 4000000, 9000000}
  HtlcCounts = {0, 19, 20}
  InfoChanges <- MCInfoChanges
  LimitInputs <- MCLimitInputs
  NodeInputs <- MCNodeInputs
  MaxEvents = 2
  TowerInputs <- MCTowerInputs
  TextInputs <- MCTextInputs
  maxStringLen = 2
CHECK_DEADLOCK FALSE
INVARIANTS
  LiveTypeOK
  FindingsWereTrueOnce
  LastingConditionsAreReported
  LimitsAgree
  AlertsAreDistinct
  TowersAreJudgedOneByOne
  TextIsWhatATerminalShows
PROPERTIES
  ExposureOffByWhatMoved
  PressureIsReported
