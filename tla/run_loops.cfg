CONSTANTS
  MaxSize = 8
  MaxDepth = 2
  Tokens <- Loops
SPECIFICATION RunSpec
INVARIANT EndsByHalt
PROPERTIES
  ImplementsSource
  AlwaysProgress
