CONSTANTS
  Files = {1, 2}
  PageSize = 4
  Chunk = 2
  Slots = 4
  Pages = 3
  Counts = {1, 6}
  UserBytes = {3, 6}
  Seeks <- MCSeeks
  MaxCalls = 4
  MaxPos = 20
CHECK_DEADLOCK FALSE
SPECIFICATION FairSpec
PROPERTIES FilesKept ReadEnds
