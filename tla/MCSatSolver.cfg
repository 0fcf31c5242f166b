SPECIFICATION Spec
CONSTANTS
  Atoms = {2, 3, 4, 5}
  VarTrue = 1
  Theory <- MCTheory
  Resumable = FALSE
  MaxLevel = 2
  Setups <- MCSetups
INVARIANTS
  TypeOK
  EntailedAtItsLevel
  VariablesOutliveTheirUses
  NoConflictIsMissed
  ReasonsAreAcyclic
PROPERTIES
  ImplementsOracle
  SolveEnds
CHECK_DEADLOCK FALSE
