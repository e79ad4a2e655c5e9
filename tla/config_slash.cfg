SPECIFICATION Spec
CONSTANTS
  Fields = {"root", "methods", "error404", "cgi_py"}
  Kind <- AllKinds
  Words = {1, 2}
  Default <- SomeDefaults
  Root <- Slash
  Paths <- SomePaths
  Uris <- SomeUris
  Addrs = {"a1", "a2"}
  Names = {"n1"}
  DefaultAddr = "a1"
  MaxServers = 2
  MaxDirectives = 6
INVARIANT
  DeclaredWins
