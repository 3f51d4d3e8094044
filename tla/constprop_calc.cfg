CONSTANTS
  Vars <- OneReal
  RealVars <- OneReal
  Literals <- WithReal
  Ops <- Add
  MaxHalf = 12
  MaxSteps = 6
SPECIFICATION Spec
CHECK_DEADLOCK FALSE
INVARIANT FoldingIsRight
