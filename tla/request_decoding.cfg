SPECIFICATION UFairSpec
CONSTANTS
  Messages <- SomeMessages
  Base = 10
  MaxSize = 99
  BUFFER_SIZE = 3
  Chars <- SomeChars
  HexDigits = {"2", "5"}
  Byte <- SomeByte
  Types <- SomeTypes
INVARIANTS
  TextTypeOK
  DecodesAsWhole
  PacketsDoNotMatter
  UriMeaning
  UploadExtracted
PROPERTIES
  EscapesRunOut
  PlainConstructed
