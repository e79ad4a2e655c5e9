SPECIFICATION FairSpec
CONSTANTS
  a1 = a1
  a2 = a2
  Addrs = {a1}
  Conns = {c1, c2}
  ListenFd <- OneListener
  MaxFd = 5
  CONN_LIMIT = 2
  BUFFER_SIZE = 2
  ResponseSize = 2
  SendSpace = 1
  TmpFiles = {1}
  MaxRequests = 1
  Pipelining = FALSE
  OutOfMemory = FALSE
  LogBlocks = FALSE
  Absent = Absent
  Null = Null
  Free = Free
  Tmp = Tmp
PROPERTIES
  RequestAnswered
  StopsUnlessIdle
