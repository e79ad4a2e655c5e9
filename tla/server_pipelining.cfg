SPECIFICATION FairSpec
CONSTANTS
  a1 = a1
  a2 = a2
  Addrs = {a1}
  Conns = {c1}
  ListenFd <- OneListener
  MaxFd = 3
  CONN_LIMIT = 2
  BUFFER_SIZE = 2
  ResponseSize = 2
  SendSpace = 1
  TmpFiles = {1}
  MaxRequests = 2
  Pipelining = TRUE
  OutOfMemory = FALSE
  LogBlocks = FALSE
  Absent = Absent
  Null = Null
  Free = Free
  Tmp = Tmp
PROPERTIES
  RequestAnswered
