SPECIFICATION FairSpec
CONSTANTS
  f1 = f1
  f2 = f2
  f3 = f3
  s1 = s1
  s2 = s2
  Fd <- MCFdPair
  Path <- MCPath
  Decode <- MCDecodePlain
  Status <- MCStatus
  Stream <- MCStream
  Timeout = 0
  FcntlFails = TRUE
  NULL = NULL
PROPERTY IdleStreamsEnd
CHECK_DEADLOCK FALSE
