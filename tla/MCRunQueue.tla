----------------------------- MODULE MCRunQueue -----------------------------
(* The queues of one core with the boot workload of init_multitasking:      *)
(* the IPC task at priority 18, the maintenance task and ordinary tasks at  *)
(* priority 1, on the 21 queues of the code.                                *)
EXTENDS RunQueue

CONSTANTS ipc, sasTask, t1, t2, t3

MCTasks == {ipc, sasTask, t1, t2, t3}
MCPriority == [t \in MCTasks |-> IF t = ipc THEN 18 ELSE 1]
MCBootOrder == <<ipc, sasTask, t1, t2, t3>>
MCVoidReads == {Empty, Garbage}

(* The same core with one task fewer, whose last task is activated by the   *)
(* IPC task while the timer runs, and whose void reads as an empty slot.    *)
LateTasks == {ipc, sasTask, t1, t2}
LatePriority == [t \in LateTasks |-> IF t = ipc THEN 18 ELSE 1]
LateBootOrder == <<ipc, sasTask, t1>>
LateActivated == {t2}
LateVoidReads == {Empty}

(* Without the late activation the instance is a workload of the code.      *)
ASSUME BootsAsTheCode == Late = {} => BootWorkload
=============================================================================
