SPECIFICATION Spec
CONSTANTS
  Sessions = {s1, s2}
  Pids = {p1, p2}
  Requests <- SomeRequests
  Outputs <- SomeOutputs
  MaxBuffer = 1
  None = None
PROPERTIES
  EofEndsBody
