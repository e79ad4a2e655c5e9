SPECIFICATION FairSpec
CONSTANTS
  Sessions = {s1, s2}
  Pids = {p1, p2}
  Requests <- SomeRequests
  Outputs <- SomeOutputs
  MaxBuffer = 1
  None = None
INVARIANTS
  TypeOK
  OneScript
  ScriptGetsBody
PROPERTIES
  ScriptsUndisturbed
  OutputKept
  AnsweredInTheEnd
