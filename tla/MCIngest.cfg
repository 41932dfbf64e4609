SPECIFICATION FairSpec
CONSTANTS
  Upload <- MCUpload
  Videos <- MCVideos
  MaxSources = 3
  BufferSize = 17
  SizeOctets = 1
INVARIANTS TypeOK TimeNeverGoesBack IntroContinues HeaderOfSource
PROPERTIES SpliceSpec RelaySpec EveryClusterRelayed
CHECK_DEADLOCK FALSE
