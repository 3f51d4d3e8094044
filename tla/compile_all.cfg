CONSTANTS
  MaxSize = 6
  Tokens <- AllTokens
SPECIFICATION Spec
INVARIANTS
  TypeOK
  NoInternalBug
  JumpsResolved
  LabelsUnique
  OpenListsDisjoint
  NoJumpLost
  NoFallThrough
PROPERTY PatchIsWriteOnce
