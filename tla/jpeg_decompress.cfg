SPECIFICATION Spec
CONSTANTS
  Words <- MCWords
  VSamp <- MCVSamp
  Height = 3
  Cols = 2
  Depth = 2
  Files <- MCFiles
  NextFiles = {"next"}
  Window = 8
  MaxImages = 2
  ScanRequests = {1, 2, 5}
  SaveSettings <- MCSaveSettings
  Want <- MCWant
INVARIANTS
  TypeOK
  DecodedAsWritten
  ShownRowIsReady
  RestartResync
  NoDanglingImageMemory
PROPERTY
  CallReturns
CHECK_DEADLOCK FALSE
