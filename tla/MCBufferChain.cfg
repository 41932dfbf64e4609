SPECIFICATION ChainFairSpec
CONSTANTS
  c1 = c1
  c2 = c2
  c3 = c3
  Client <- MCClient
  MaxClusters = 3
  MaxTime = 2
  LagLimit = 0
  DeleteTimeout = 0
  MaxSources = 1
INVARIANTS TypeOK RefcountExact NoDanglingBuffers NoGapNoDuplicate NoLostWakeup ChainIsQueue
PROPERTIES BroadcastSpec DeletedOnlyWithoutData StreamLifeSpec EveryClusterDelivered
