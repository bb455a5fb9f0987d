SPECIFICATION FairSpec
CONSTANTS
  ThreadIds = {t1, t2}
  None = None
  Words = {help}
  MaxLines = 3
  MaxDepth = 2
INVARIANTS
  JoinableIsExact
  EveryLineOnce
PROPERTIES
  StopEnds
