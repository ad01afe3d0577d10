CONSTANTS
  DirPaths <- MCDirPaths
  FilePaths <- MCFilePaths
  UserPaths <- MCUserPaths
  ConsolePath <- MCConsolePath
  InitPath <- MCInitPath
  FdStart = 2
  FdStep = 2
  FdExtra = 1
  ObjectSlots = {1, 2, 4, 8}
  MaxInodes = 6
  MaxFiles = 6
  MaxOpens = 7
CHECK_DEADLOCK FALSE
SPECIFICATION Spec
INVARIANTS TypeOK RefsExact LookupRight TableFits
PROPERTIES TreeOfNames DescriptorsKept
