SPECIFICATION FairSpec
CONSTANTS
  WorkerCount = 2
  ConnectorCount = 1
  Buffers = {b1}
  InputEvents = 1
  OutputEvents = 1
  MaxAcceptors = 1
  MaxPeers = 1
  MaxConnections = 2
  Indexes = 2
  Increments = 4
  None = None
INVARIANTS
  BuffersConserved
  NoCrossTalk
PROPERTIES
  UninitEnds
