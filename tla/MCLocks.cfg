SPECIFICATION Spec
CONSTANTS
  a = a
  b = b
  ipc = ipc
  d = d
  k = k
  Core0 = Core0
  Core1 = Core1
  Core2 = Core2
  e1 = e1
  e2 = e2
  e3 = e3
  e4 = e4
  e5 = e5
  None = None
  Cores = {Core0, Core1, Core2}
  Tasks <- MCTasks
  Home <- MCHome
  Activators = {a, b}
  Killers = {k}
  IpcTasks = {ipc}
  Entries = {e1, e2, e3, e4, e5}
  Started <- MCStarted
  FirstEntry <- MCFirstEntry
INVARIANTS TypeOK MutualExclusion EntriesNameTasks KillNotPreempted
PROPERTIES LocksAreMutexes
