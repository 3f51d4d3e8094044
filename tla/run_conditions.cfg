CONSTANTS
  MaxSize = 8
  MaxDepth = 2
  Tokens <- Conditions
SPECIFICATION RunSpec
PROPERTY ImplementsSource
