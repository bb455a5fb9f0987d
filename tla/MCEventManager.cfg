SPECIFICATION Spec
CONSTANTS
  Types = {t1, t2}
  Events = {e1, e2, e3, e4}
  Nodes = {n1, n2, n3}
  Infos = {i1, i2, i3}
  Identifiers = {owner}
  None = None
  MaxDepth = 3
SYMMETRY Symmetry
INVARIANTS
  TypeOK
  RefCountExact
  IndexMatchesLists
  NoDanglingNode
  NobodySkipped
PROPERTIES
  CallsOnlyOnce
