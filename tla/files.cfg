SPECIFICATION Spec
CONSTANTS
  Sessions = {s1, s2}
  Paths <- SomePaths
  Bla <- SomeBla
  Requests <- SomeRequests
  Stores <- SomeStores
  CgiResults <- SomeResults
  Denials <- SomeDenials
  BuiltInPage = 7
  Listing = 8
  DiskMayFill = TRUE
  BufferSize = 1
INVARIANTS
  TypeOK
  HeadGetsNoBody
  Framed
  SomeTimeTrue
PROPERTIES
  ImplementsFileStore
SYMMETRY Symmetry
