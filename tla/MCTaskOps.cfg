SPECIFICATION OpsSpec
CONSTANTS
  TOTAL_QUEUES = 20
  BOOST = 4
  PAGE = 7
  ipc = ipc
  sasTask = sasTask
  t1 = t1
  t2 = t2
  t3 = t3
  Tasks <- MCTasks
  Priority <- MCPriority
  Sas = sasTask
  Ipc = ipc
  BootOrder <- MCBootOrder
  Late = {}
  Boot = Boot
  Empty = Empty
  Garbage = Garbage
  None = None
  VoidReads = {Empty}
  Killers = {t1, t2, t3}
INVARIANTS OpsTypeOK RunningTaskOwnsSlot SasKept
