SPECIFICATION MCSpec
CONSTANTS
  Kids <- MCKids
  Equation <- MCEquation
  Constant <- MCConstant
  True = "true"
  False = "false"
  MaxLevel = 2
  Setups <- MCSetups
  Handle = {h1, h2}
  MaxRC = 4
  ZombieLimit = 1
  MaxId = 4
  MaxCalls = 5
INVARIANTS
  EqualIsCongruence
  TriggersAreTold
  ExplanationsSuffice
  ReferencesAreAlive
  CountsAreReferences
SYMMETRY Symmetry
CHECK_DEADLOCK FALSE
