CONSTANTS
  Word = 256
  PageSize = 2
  ZoneStart = 100
  ZoneSize = 11
  Sizes = {0, 2, 5, 6, 14, 254}
  MaxZones = 4
  Idle = Idle
  Radix = 3
  Identity = 2
  KernelPage = 18
  KernelPages = 2
  Phys = {200, 400}
  MaxTasks = 1
  MaxMaps = 4
CHECK_DEADLOCK FALSE
SPECIFICATION TablesSpec
INVARIANTS ZonesDisjoint ZonesMapped SeenByTasks
PROPERTIES FirstFit ScanEnds
