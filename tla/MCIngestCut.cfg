SPECIFICATION Spec
CONSTANTS
  Upload <- MCUpload
  Videos <- MCVideos
  MaxSources = 1
  BufferSize = 17
  SizeOctets = 8
INVARIANT OnlyWholeClusters
CHECK_DEADLOCK FALSE
