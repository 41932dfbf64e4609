SPECIFICATION Spec
CONSTANTS
  Upload <- MCUpload
  Videos <- MCVideos
  MaxSources = 1
  BufferSize = 17
  SizeOctets = 1
INVARIANT CompleteClustersTaken
CHECK_DEADLOCK FALSE
