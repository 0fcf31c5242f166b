CONSTANTS
  p = p
  q = q
  d = d
  Formulas <- MCFormulas
  RecDefs <- MCRecDefs
  Conflicts <- MCConflicts
  Options <- Unlimited
  MaxFrames = 2
  MaxLevels = 4
SPECIFICATION Spec
INVARIANTS UnsatIsOfTheStack
