\* A caller may run out of calls, and a file system may be full: the system
\* may really stop.
CHECK_DEADLOCK FALSE
SPECIFICATION StorageSpec
CONSTANTS
  AqSpace = 10
  AqPaths <- Paths
  AqDirs <- MCDirs
  AqLname <- MCLname
  AqMatch <- MCMatch
  AqHome = "H"
  AqMax = 3
  AqMark <- MCMark
  AqPlace <- MCPlace
  AqUnits = 2
  AqSizes = {1, 2, 3}
  AqLength = 5
  AqHandles = {h1}
  AqCalls = 6
  AqCrashes = 1
  XBlocks = 12
  XInodes = 5
  XDir = 2
  XInd = 2
  XNames = 6
  XSizes = {0, 1, 3, 5, 7}
  XCalls = 6
  AhControllers = 2
  AhPorts = 2
  AhSlots = 2
  AhPrd = 2
  AhBatch = 4
  AhChunk = 6
  AhSectors = 12
  AhCounts = {1, 5}
  AhMost = 5
  AhLowers = {0, 1}
  AhCalls = 2
INVARIANTS
  AqDisjoint
  AqDurable
  AqCountsMarks
  AqCrashCost
  XOwned
  XBlockMap
  XReadsBack
  XIndex
  AhMoved
  AhElsewhere
