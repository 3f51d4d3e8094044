CONSTANTS
  Vars <- TwoVars
  RealVars <- OneReal
  Literals <- Integers123
  Ops <- Add
  MaxHalf = 12
  MaxSteps = 6
SPECIFICATION Spec
CHECK_DEADLOCK FALSE
INVARIANT FoldingIsRight
