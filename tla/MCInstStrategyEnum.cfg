CONSTANTS
  Blank = Blank
  Everything = Everything
  NoBlank = NoBlank
  Envs <- MCEnvs
SPECIFICATION Spec
INVARIANTS TypeOK TreeFindsTheDisabled
PROPERTIES InStageOrder BestFirst ImplementsSearch Terminates
CHECK_DEADLOCK FALSE
