SPECIFICATION TransformSpec
CONSTANTS
  DctSize = 2
  Basis <- MCBasis
  Images <- MCImages
  MaxSteps = 2
INVARIANTS
  Reversible
  PixelExact
CHECK_DEADLOCK FALSE
