CONSTANTS
  Vars <- TwoVars
  RealVars <- OneReal
  Literals <- WithReals
  Ops <- AddAndSubtract
  MaxHalf = 12
  MaxSteps = 7
SPECIFICATION Spec
CHECK_DEADLOCK FALSE
INVARIANTS
  TypeOK
  KnownIsPending
  KnownIsStored
  FoldingKeepsMeaning
PROPERTY NothingKnownInNewBlock
