CONSTANTS
  MemMaps <- MCMemMaps
  Frame4G = 1048576
  PageBytes = 4096
  StructBytes = 40
  MaxOrder = 10
  Rows = 4
  Cols = 2
  LargestObject = 8
  Chars = {"a", "b"}
  MaxChars = 9
  PrintCalls <- MCPrintCalls
  NtoaBuffer = 8
  CharMod = 64
  ShortMod = 256
  IntMod = 4096
  LongMod = 65536
  PointerDigits = 6
  Vectors <- MCVectors
  FaultCodes = {0, 6, 21}
  Numbers <- MCNumbers
  MaxNested = 2
  BlockSize = 8
  Members <- MCMembers
  MaxMembers = 3
CHECK_DEADLOCK FALSE
SPECIFICATION StartupSpec
INVARIANTS MapsApart PagesRight TextShown FormatRight ArchiveUnpacked
PROPERTIES InterruptsTransparent
