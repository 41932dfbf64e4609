SPECIFICATION SpecWithWriteErrors
CONSTANTS
  c1 = c1
  c2 = c2
  c3 = c3
  Client <- MCClient
  MaxClusters = 2
  MaxTime = 2
  LagLimit = 1
  DeleteTimeout = 1
  MaxSources = 1
INVARIANT NoDanglingBuffers
