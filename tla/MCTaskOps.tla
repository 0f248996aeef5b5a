----------------------------- MODULE MCTaskOps ------------------------------
(* The boot workload of MCRunQueue; the ordinary tasks may kill themselves. *)
(* The word read through the missing Spurious_task is an empty slot here.   *)
EXTENDS TaskOps

CONSTANTS ipc, sasTask, t1, t2, t3

MCTasks == {ipc, sasTask, t1, t2, t3}
MCPriority == [t \in MCTasks |-> IF t = ipc THEN 18 ELSE 1]
MCBootOrder == <<ipc, sasTask, t1, t2, t3>>
=============================================================================
