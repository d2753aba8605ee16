SPECIFICATION Spec
CONSTANTS
  DctSize = 4
  Inputs <- MCInputs
  Outputs <- MCOutputs
  MaxRows = 5
  MaxPasses = 3
INVARIANTS
  PreparedRows
  ShownRows
CHECK_DEADLOCK FALSE
