SPECIFICATION Spec
CONSTANTS
  Nodes <- EightNodes
  Key <- ThreeAlike
  None = None
  InnerErases = FALSE
  LowErases = FALSE
INVARIANTS
  Balanced
  QueriesAgree
PROPERTIES
  ImplementsSortedNodes
