CONSTANTS
  NREGS = 8
  AsmSize = 50
  RegFileSize = 7
  MemSize = 20
  Programs = {}
  Inputs = {0}
  NameLimit = 2
  Identifiers = {"a", "b", "ab", "abc", "abd", "ac", "acd", "xy", "Start", "Compilation"}
  Sources <- AllSources
  MaxCommands = 2
  ReadOnly = {"disk"}
SPECIFICATION TSpec
INVARIANTS
  TypeOK
  ParsedIsAccepted
  CompilesTheLegal
  CompleteOrNothing
  TokensAreUncommented
  SameNameSameRegister
  RunsWhatIsWritten
