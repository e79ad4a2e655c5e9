SPECIFICATION Spec
CONSTANTS
  a1 = a1
  a2 = a2
  Addrs = {a1}
  Conns = {c1, c2}
  ListenFd <- OneListener
  MaxFd = 3
  CONN_LIMIT = 2
  BUFFER_SIZE = 2
  ResponseSize = 2
  SendSpace = 1
  TmpFiles = {0, 1}
  MaxRequests = 1
  Pipelining = FALSE
  OutOfMemory = FALSE
  LogBlocks = TRUE
  Absent = Absent
  Null = Null
  Free = Free
  Tmp = Tmp
SYMMETRY ConnSymmetry
INVARIANTS
  NeverStuck
