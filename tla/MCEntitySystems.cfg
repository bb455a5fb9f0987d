SPECIFICATION Spec
CONSTANTS
  Classes = {k1, k2}
  Systems = {s1, s2, s3, s4}
  Nodes = {n1, n2, n3, n4}
  None = None
  MaxDepth = 4
SYMMETRY Symmetry
INVARIANTS
  NodesSafe
  TableAgrees
  WalkCompletes
