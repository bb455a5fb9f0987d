SPECIFICATION Spec
CONSTANTS
  Types = {t1}
  Events = {e1, e2}
  Nodes = {n1, n2}
  Infos = {i1, i2}
  Identifiers = {}
  None = None
  MaxDepth = 1
INVARIANTS
  ClosureOutlivesCall
