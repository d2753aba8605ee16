SPECIFICATION FileSpec
CONSTANTS
  w1 = w1
  w2 = w2
  w3 = w3
  Writers = {w1, w2}
  Native = {w1, w2}
  UniqueNames = TRUE
  Chunks = 2
  Original = Original
  Hole = Hole
  None = None
CHECK_DEADLOCK FALSE
SYMMETRY Symmetry
INVARIANTS
  FileTypeOK
  TargetsComplete
  AcknowledgedSurvives
  NoDebris
PROPERTY ReplacedIsBackedUp
