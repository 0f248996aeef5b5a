------------------------------ MODULE MCLocks -------------------------------
(* Three cores: tasks that activate others, an IPC task that activates what *)
(* they ask of its core, and a task that kills itself on a core where no    *)
(* other thread calls Get_Scheduler.                                        *)
EXTENDS Locks, TLC

CONSTANTS a, b, ipc, d, k, Core0, Core1, Core2, e1, e2, e3, e4, e5

MCTasks == {a, b, ipc, d, k}
MCHome == (a :> Core0) @@ (b :> Core0) @@ (ipc :> Core1) @@ (d :> Core1) @@ (k :> Core2)
MCStarted == {a, ipc, k}
MCFirstEntry == (a :> e1) @@ (ipc :> e2) @@ (k :> e3)

(* Two cores: a task that asks the other core to activate two tasks.        *)
TwoCoreTasks == {a, b, ipc, d}
TwoCoreHome == (a :> Core0) @@ (b :> Core1) @@ (ipc :> Core1) @@ (d :> Core1)
TwoCoreStarted == {a, ipc}
TwoCoreFirstEntry == (a :> e1) @@ (ipc :> e2)

(* One core: a task that activates another one, and one that kills itself.  *)
OneCoreTasks == {a, b, k}
OneCoreHome == [t \in OneCoreTasks |-> Core0]
OneCoreStarted == {a, k}
OneCoreFirstEntry == (a :> e1) @@ (k :> e2)
=============================================================================
