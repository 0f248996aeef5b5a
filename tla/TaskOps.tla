------------------------------- MODULE TaskOps ------------------------------
(* kill() on the queues of one core (RunQueue): a task removes itself from  *)
(* the queues, its entry is freed and its task_t wiped, with interrupts off *)
(* from cli to int 51, so that on its own core all of it is one step.       *)
EXTENDS RunQueue

CONSTANT Killers \* the tasks that may call kill()

ASSUME KillersAssumption == Killers \subseteq Tasks \ {Sas, Ipc}

VARIABLES
  dead,   \* the tasks that have been killed
  caught  \* a kill() has come while the maintenance task was Erasing

opsVars == <<vars, dead, caught>>

OpsInit == Init /\ dead = {} /\ caught = FALSE

-----------------------------------------------------------------------------
(* Task_Remover(place_holder, kit)                                          *)

(* In a queue above the bottom: the slot is cleared, the queue shortened,   *)
(* and the first queue with tasks from there on down becomes the top queue. *)
RemoveFromUpper(l, i) ==
  /\ l # Bottom /\ count[l] >= 1
  /\ count' = [count EXCEPT ![l] = @ - 1]
  /\ slot' = [slot EXCEPT ![l][i] = Empty]
  /\ \E top \in l..Bottom :
       /\ count'[top] # 0 /\ \A k \in l..(top - 1) : count'[k] = 0
       /\ top_queue' = top

(* Slip: both branches shorten the queue, and so does their caller.         *)
RemoveFromBottom_Twice(l, i) ==
  /\ l = Bottom /\ count[l] \in Slots
  /\ slot' = [slot EXCEPT ![l][i] = IF i = count[l] THEN Empty ELSE slot[l][count[l]]]
  /\ count' = [count EXCEPT ![l] = @ - 2]
  /\ UNCHANGED top_queue

(* In the bottom queue: the last task fills the slot.  Its old slot and its *)
(* active word stay as they are.                                            *)
RemoveFromBottom(l, i) ==
  /\ l = Bottom /\ count[l] \in Slots
  /\ slot' = [slot EXCEPT ![l][i] = IF i = count[l] THEN Empty ELSE slot[l][count[l]]]
  /\ count' = [count EXCEPT ![l] = @ - 1]
  /\ UNCHANGED top_queue

Removed(l, i) == RemoveFromUpper(l, i) \/ RemoveFromBottom(l, i)

(* The maintenance task has come to the last slot, which a kill() would     *)
(* empty or cut off under its eyes, or it has loaded the count that names   *)
(* the slot to fill a hole from and not stored it less one.                 *)
Erasing ==
  \/ sas.pc \in {"look", "hole"} /\ sas.at = count[Bottom]
  \/ sas.pc \in {"fill", "clear", "follow", "load", "store"}

(* kill(): the current task goes, and Idle_task, like the boot thread, has  *)
(* the core until int 51 dispatches another.                                *)
Kill ==
  /\ timer_on /\ ~halted /\ current_task \in Killers \ dead
  /\ Removed(active[current_task][1], active[current_task][2])
  /\ active' = [active EXCEPT ![current_task] = None]
  /\ tokens' = [tokens EXCEPT ![current_task] = 0]
  /\ dead' = dead \cup {current_task}
  /\ caught' = (caught \/ Erasing)
  /\ current_task' = Boot
  /\ UNCHANGED <<bottom_task, timer_on, booted, act, sas, void, halted>>

(* The maintenance task still has a killed task to lift: it reads the       *)
(* active word through the null pointer in the freed entry.  RunQueue's     *)
(* SasEndScan is the case that it reads as zero, this one that it does not. *)
SasLiftsKilled ==
  /\ SasRuns /\ sas.pc = "end" /\ sas.highest \in dead
  /\ halted' = TRUE
  /\ UNCHANGED <<queueVars, current_task, tokens, timer_on, booted, act, sas, void, dead, caught>>

(* The maintenance task fills a hole from a count that kill() has emptied,  *)
(* or takes one from it.                                                    *)
CountWraps == SasRuns /\ sas.pc \in {"fill", "store"} /\ sas.last = 0

(* The core goes on through a null task pointer, for a task whose entry was *)
(* freed is dispatched, or the maintenance task ages one or a slot that has *)
(* been emptied since it looked, or with the word before the first slot for *)
(* an entry, or with a count of 2^32 - 1.                                   *)
Astray ==
  /\ ~halted
  /\ \/ current_task \in dead
     \/ SasRuns /\ sas.pc = "age" /\ At \notin Tasks \ dead
     \/ CountWraps

OpsNext ==
  \/ ~Astray /\ Next /\ UNCHANGED <<dead, caught>>
  \/ ~Astray /\ Kill
  \/ ~Astray /\ SasLiftsKilled
  \/ Astray /\ UNCHANGED opsVars

OpsSpec == OpsInit /\ [][OpsNext]_opsVars

-----------------------------------------------------------------------------
(* Properties                                                               *)

OpsTypeOK == TypeOK /\ dead \in SUBSET Killers /\ caught \in BOOLEAN

(* kill() writes through the running task's active word with no check: the  *)
(* word must name a slot that holds that task and no other.  The moves that *)
(* leave words behind (the general case of Scheduler_t, Task_Remover in the *)
(* bottom queue) are put right by the dispatch that makes the task run.     *)
RunningTaskOwnsSlot ==
  ~halted /\ current_task \in Killers \ dead =>
    active[current_task] # None /\
      LET p == active[current_task] IN slot[p[1]][p[2]] = current_task

(* Whatever tasks kill themselves, the maintenance task stays queued, once: *)
(* nothing else erases holes.  A kill() that comes while it erases one, or  *)
(* looks at the last slot, is another matter: a live task is then moved     *)
(* behind the count, or cut off by the count that is stored.                *)
SasKept == timer_on /\ ~caught => Cardinality(PlacesOf(Sas)) = 1

(* "Remove the task from scheduler queues" (task.c:405): a task that has    *)
(* been killed is in no live slot and is never dispatched again.            *)
KilledIsRemoved == \A t \in dead : PlacesOf(t) = {} /\ current_task # t
=============================================================================
