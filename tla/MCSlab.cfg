CONSTANTS
  root = root
  k64 = k64
  kbig = kbig
  s1 = s1
  s2 = s2
  s3 = s3
  s4 = s4
  Slabs = {s1, s2, s3, s4}
  Caches <- MCCaches
  Root = root
  Desc = k64
  OffSlab = {kbig}
  ObjsPerSlab <- MCObjs
  Rank <- MCRank
  NoCache = NoCache
SYMMETRY SlabSymmetry
SPECIFICATION Spec
INVARIANTS FreeListExact OnOneList ListedSlabsHaveObjects
  FreeSlabsFound
PROPERTY FullSlabsDrain
CHECK_DEADLOCK FALSE
