SPECIFICATION FairSpec
CONSTANTS
  MaxSize = 3
  Values = {a, b}
  Raw = Raw
INVARIANTS
  NoRacyAccess
  SlotsMatchIndices
  NoLeak
  IInv
PROPERTIES
  PromisesKept
  ImplementsFifo
  EveryValueLeaves
CHECK_DEADLOCK FALSE
