SPECIFICATION UFairSpec
CONSTANTS
  Messages <- UriMessages
  Base = 10
  MaxSize = 99
  BUFFER_SIZE = 3
  Chars <- SomeChars
  HexDigits = {"2", "5"}
  Byte <- SomeByte
  Types <- SomeTypes
PROPERTIES
  HandlerConstructed
