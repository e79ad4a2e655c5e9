SPECIFICATION Spec
CONSTANTS
  a1 = a1
  a2 = a2
  Addrs = {a1, a2}
  Conns = {c1, c2}
  ListenFd <- TwoListeners
  MaxFd = 4
  CONN_LIMIT = 2
  BUFFER_SIZE = 2
  ResponseSize = 2
  SendSpace = 1
  TmpFiles = {0, 1}
  MaxRequests = 2
  Pipelining = FALSE
  OutOfMemory = FALSE
  LogBlocks = FALSE
  Absent = Absent
  Null = Null
  Free = Free
  Tmp = Tmp
SYMMETRY ConnSymmetry
INVARIANTS
  TypeOK
  NoDanglingFd
  NoLeakedFd
  PollEntriesCurrent
  NoStrandedSocket
  HandlerMatchesState
  PollStillTrue
  NeverStuck
  NoRequestLost
PROPERTIES
  HealthyStaysOpen
  ImplementsRequestResponse
