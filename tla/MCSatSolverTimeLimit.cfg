SPECIFICATION Spec
CONSTANTS
  Atoms = {2, 3, 4, 5}
  VarTrue = 1
  Theory <- MCTheory
  Setups <- MCSquare
  Resumable = TRUE
  MaxLevel = 2
INVARIANT
  SatIsConsistent
CHECK_DEADLOCK FALSE
