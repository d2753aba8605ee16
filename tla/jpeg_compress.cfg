SPECIFICATION Spec
CONSTANTS
  Slots = {0, 1}
  HSamp <- MCHSamp
  VSamp <- MCVSamp
  Width = 3
  Height = 3
  Band = 4
  MaxZeros = 2
  MaxRun = 3
  MaxCorr = 6
  Pictures <- MCPictures
  Settings <- MCSettings
  Sizes = {12, 13}
  MaxStreams = 2
INVARIANTS
  TypeOK
  StreamDecodes
  NoUnexpectedError
PROPERTY
  ImageEnds
CHECK_DEADLOCK FALSE
