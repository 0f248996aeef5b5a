SPECIFICATION Spec
CONSTANTS
  a = a
  b = b
  ipc = ipc
  d = d
  k = k
  Core0 = Core0
  Core1 = Core1
  Core2 = Core2
  e1 = e1
  e2 = e2
  e3 = e3
  e4 = e4
  e5 = e5
  None = None
  Cores = {Core0, Core1}
  Tasks <- TwoCoreTasks
  Home <- TwoCoreHome
  Activators = {a}
  Killers = {}
  IpcTasks = {ipc}
  Entries = {e1, e2, e3, e4}
  Started <- TwoCoreStarted
  FirstEntry <- TwoCoreFirstEntry
PROPERTY CommandsCarriedOut
