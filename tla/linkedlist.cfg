CONSTANTS
  a = a
  b = b
  c = c
  d = d
  Nodes <- FourNodes
  NULL = NULL
SYMMETRY Symmetric
SPECIFICATION Spec
INVARIANTS
  DoublyLinked
  VisitsAll
PROPERTIES
  ImplementsLists
