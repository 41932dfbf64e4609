SPECIFICATION Spec
CONSTANTS
  f1 = f1
  f2 = f2
  f3 = f3
  s1 = s1
  s2 = s2
  Fd <- MCFd
  Path <- MCPath
  Decode <- MCDecodePlain
  Status <- MCStatus
  Stream <- MCStream
  Timeout = 0
  FcntlFails = FALSE
  NULL = NULL
SYMMETRY Symmetry
INVARIANTS TypeOK SnapshotAligned NoCallAfterDisconnect SilentClientsWait NoDanglingStream AllStreamsListed SourcelessStreamsIdle
PROPERTY StreamLifeSpec
CHECK_DEADLOCK FALSE
