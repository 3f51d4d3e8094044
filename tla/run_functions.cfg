CONSTANTS
  MaxSize = 7
  MaxDepth = 2
  Tokens <- Functions
SPECIFICATION RunSpec
INVARIANTS
  RunTypeOK
  FramesMatchCalls
PROPERTY ImplementsSource
