SPECIFICATION FairSpec
CONSTANTS
  Size <- TwoWheels
  Span <- TwoSpans
  IdMod = 2
  StartTimes = {2}
  Delays = {1}
  Intervals = {3}
  CallbackDelays = {}
  CallbackIntervals = {}
  Jumps = {0}
  MaxTime = 8
  MaxNodes = 1
  MaxDepth = 1
  StrayTime = 8
PROPERTIES
  FiresWhenDue
