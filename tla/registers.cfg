CONSTANTS
  NREGS = 7
  Reserved = {0, 1, 2}
  LR = 0
  MaxSymbols = 6
SPECIFICATION Spec
INVARIANTS
  TypeOK
  DistinctRegisters
  ReservedKept
  PrologueSavesTouched
