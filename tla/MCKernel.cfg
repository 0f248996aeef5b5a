\* All cores may have been started, all packets carried out and all frames
\* handed out: the system may really stop.
CHECK_DEADLOCK FALSE
SPECIFICATION KernelSpec
CONSTANTS
  BootCores = 4
  IpcSenders <- MCSenders
  IpcEach <- MCEach
  PrProcs = {p1, p2}
  PrMax = 5
  PgFrames = 8
  PgTables = 4
  PgKernel = 2
  PgPages = 2
  PgProcs = {p1, p2}
INVARIANTS
  BootOwnTables
  IpcInOrder
  PrWalk
  PgAscending
  PgOnce
  PgShared
PROPERTY
  KernelBootJoined
