SPECIFICATION Spec
CONSTANTS
  Dirs <- MCDirs
  candidateDirs <- MCCandidateDirs
  data <- MCData
  graph <- MCGraph
  chain <- MCChain
  parent <- MCParent
  depth <- MCDepth
  skipDirs = {9}
  Unreadable = {11, 12}
  LinkedDirs = {13}
  Files <- MCFiles
  integrationScanMaxFiles = 1
  ScanInputs <- MCScanInputs
  Destinations <- MCDestinations
  macaroonScanDepth = 4
  MaxMoves = 2
CHECK_DEADLOCK FALSE
INVARIANTS
  TypeOK
  LastingLeaksAreReported
  LeaksAreWhereTheyWereSeen
  
  RunbooksAreJudgedByTheLongest
