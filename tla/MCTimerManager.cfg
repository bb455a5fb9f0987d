SPECIFICATION FairSpec
CONSTANTS
  Size <- ThreeWheels
  Span <- ThreeSpans
  IdMod = 2
  StartTimes = {2}
  Delays = {1, 9, 17}
  Intervals = {0, 4}
  CallbackDelays = {0, 6}
  CallbackIntervals = {0}
  Jumps = {0, 5}
  MaxTime = 19
  MaxNodes = 2
  MaxDepth = 2
  StrayTime = 7
INVARIANTS
  EachNodeOnce
  NothingOverdue
PROPERTIES
  FiresWhenDue
  ArmedUntilDone
  UpdateReturns
