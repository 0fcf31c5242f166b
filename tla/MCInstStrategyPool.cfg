CONSTANTS
  Blank = Blank
  Everything = Everything
  NoBlank = NoBlank
  Envs <- PoolEnvs
SPECIFICATION Spec
INVARIANTS ReportingIsOptional
CHECK_DEADLOCK FALSE
