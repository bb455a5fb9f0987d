SPECIFICATION Spec
CONSTANTS
  Entities = {e1, e2}
  Nodes = {n1, n2, n3}
  Components = {c1, c2}
  ClassCount = 2
  None = None
  MaxDepth = 4
SYMMETRY Symmetry
INVARIANTS
  TypeOK
  RefCountExact
  NoDanglingNode
  RegistryAgrees
  NoEntityLost
  NoComponentLost
  RemovalIsFinal
  NobodySkipped
