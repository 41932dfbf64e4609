SPECIFICATION Spec
CONSTANTS
  f1 = f1
  f2 = f2
  f3 = f3
  s1 = s1
  s2 = s2
  Fd <- MCFdPair
  Path <- MCPathEscaped
  Decode <- MCDecode
  Status <- MCStatus
  Stream <- MCStream
  Timeout = 1
  FcntlFails = FALSE
  NULL = NULL
INVARIANT AllStreamsListed
CHECK_DEADLOCK FALSE
