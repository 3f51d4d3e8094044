CONSTANTS
  NREGS = 16
  AsmSize = 100
  RegFileSize = 15
  MemSize = 80
  Programs <- FourPrograms
  Inputs = {0, 1, 2, 3}
SPECIFICATION Spec
INVARIANTS
  TypeOK
  FileMeansCode
  BalancedStack
PROPERTIES
  ImplementsActivations
  Terminates
