------------------------------ MODULE RunQueue ------------------------------
(***************************************************************************)
(* The run queues of one core: the page-sized queues of a SchedulerKits_t, *)
(* the dispatcher's Scheduler_t (Arch/x86/scheduler.asm), activation of a  *)
(* task (Processing/task.c) and the core's maintenance task                *)
(* SAS_void_eraser_t (Processing/Scheduler/Scheduler.c).                   *)
(*                                                                         *)
(* Scheduler_t runs with interrupts off and is one step.  Everything else  *)
(* runs with interrupts on, and the timer may dispatch another task        *)
(* between any two of its accesses to the queues: activation and the       *)
(* maintenance task are cut where they read or write shared words, and     *)
(* ++x, --x (compiled at -O0) are a load and a store.                      *)
(***************************************************************************)
EXTENDS Integers, Sequences, FiniteSets

CONSTANTS
  TOTAL_QUEUES, \* level of the bottom queue; level 0 is the topmost
  BOOST,        \* levels above the bottom that the maintenance task lifts to
  PAGE,         \* bound: slots of a queue page (1023 in the code)
  Tasks,        \* every task of this core
  Priority,     \* [Tasks -> 1..TOTAL_QUEUES], task_t.priority
  Sas,          \* the maintenance task, the only one with task_t.special set
  Ipc,          \* the core's IPC task, which activates tasks at run time
  BootOrder,    \* the tasks init_multitasking activates, in order
  Late,         \* tasks that are activated once the timer runs
  Boot,         \* the thread that executes init_multitasking
  Empty,        \* a zero slot
  Garbage,      \* a slot word that is neither zero nor a thread-table entry
  None,         \* a null pointer
  VoidReads     \* what kit->Spurious_task->ThreadTable_entry may read as

Levels == 0..TOTAL_QUEUES
Bottom == TOTAL_QUEUES
Slots == 1..PAGE
Entries == Tasks \cup {Empty, Garbage}
Places == Levels \X Slots

ASSUME ShapeAssumption ==
  /\ TOTAL_QUEUES \in Nat \ {0} /\ BOOST \in 1..TOTAL_QUEUES
  /\ PAGE \in Nat \ {0}
  /\ Priority \in [Tasks -> 1..TOTAL_QUEUES]
  /\ BootOrder \in Seq(Tasks)
  /\ Late \subseteq Tasks

ASSUME NamesAssumption ==
  /\ Sas \in Tasks /\ Ipc \in Tasks /\ Sas # Ipc
  /\ Boot \notin Tasks /\ None \notin Tasks /\ None \notin Places
  /\ Empty \notin Tasks /\ Garbage \notin Tasks /\ Empty # Garbage
  /\ VoidReads \subseteq {Empty, Garbage} /\ VoidReads # {}

(* What init_multitasking activates: every task once and before the timer   *)
(* starts; the maintenance task has priority 1 and comes before the other   *)
(* tasks of that priority.                                                  *)
BootWorkload ==
  /\ Late = {}
  /\ \A j, k \in 1..Len(BootOrder) : BootOrder[j] = BootOrder[k] => j = k
  /\ Priority[Sas] = 1
  /\ \E k \in 1..Len(BootOrder) :
       /\ BootOrder[k] = Sas
       /\ \A j \in 1..(k - 1) : Priority[BootOrder[j]] # 1

VARIABLES
  count,         \* [Levels -> Nat], word 0 of each queue page
  slot,          \* [Levels -> [Slots -> Entries]], the other words
  top_queue,     \* level of kit->top_queue
  bottom_task,   \* kit->bottom_task, the next slot of the bottom queue to run
  current_task,  \* kit->current_task, or Boot before the first dispatch
  active,        \* task_t.active: the place of each task's slot
  tokens,        \* task_t.tokens
  timer_on,      \* the local timer and interrupts are enabled
  booted,        \* number of tasks of BootOrder activated so far
  act,           \* activation in progress: its next step, its task, its load
  sas,           \* locals of SAS_void_eraser_t and the words it keeps
  void,          \* what the never assigned kit->Spurious_task leads to
  halted         \* the core dispatched something that is no task, or spins

vars == <<count, slot, top_queue, bottom_task, current_task, active, tokens,
          timer_on, booted, act, sas, void, halted>>

queueVars == <<count, slot, top_queue, bottom_task, active>>

Init ==
  /\ count = [l \in Levels |-> 0]
  /\ slot = [l \in Levels |-> [i \in Slots |-> Empty]]
  /\ top_queue = Bottom
  /\ bottom_task = 1
  /\ current_task = Boot
  /\ active = [t \in Tasks |-> None]
  /\ tokens = [t \in Tasks |-> Priority[t]]
  /\ timer_on = FALSE
  /\ booted = 0
  /\ act = [pc |-> "idle", task |-> None, n |-> 0]
  /\ sas = [pc |-> "scan", at |-> 1, last |-> 0, place |-> None,
            highest |-> None, highestTokens |-> 0]
  /\ void \in VoidReads
  /\ halted = FALSE

-----------------------------------------------------------------------------
(* Activate_task_direct, _direct_SP, _strict_SP and Activate_task, local    *)
(* case: the same statements on the queue of level 20 - priority.          *)

QueueOf(t) == TOTAL_QUEUES - Priority[t]

(* The thread that may call an activation, and for which task: the boot     *)
(* thread follows init_multitasking, then only the IPC task activates.      *)
MayActivate(t) ==
  IF timer_on THEN current_task = Ipc /\ t \in Late /\ active[t] = None
              ELSE booted < Len(BootOrder) /\ t = BootOrder[booted + 1]

(* The activating thread has the core. *)
ActivatorRuns == ~halted /\ current_task = (IF timer_on THEN Ipc ELSE Boot)

(* Take TASK_LOCK_ATD and load the queue's count. *)
ActivateBegin(t) ==
  /\ ActivatorRuns /\ act.pc = "idle" /\ MayActivate(t)
  /\ act' = [pc |-> "extend", task |-> t, n |-> count[QueueOf(t)]]
  /\ UNCHANGED <<queueVars, current_task, tokens, timer_on, booted, sas, void, halted>>

(* ++*_q: store the loaded count plus one. *)
ActivateExtend ==
  /\ ActivatorRuns /\ act.pc = "extend" /\ act.n < PAGE
  /\ count' = [count EXCEPT ![QueueOf(act.task)] = act.n + 1]
  /\ act' = [act EXCEPT !.pc = "place"]
  /\ UNCHANGED <<slot, top_queue, bottom_task, active, current_task, tokens,
                 timer_on, booted, sas, void, halted>>

(* Fill the slot that the count now names; the task's active word follows. *)
ActivatePlace ==
  LET l == QueueOf(act.task) IN
  /\ ActivatorRuns /\ act.pc = "place" /\ count[l] \in Slots
  /\ slot' = [slot EXCEPT ![l][count[l]] = act.task]
  /\ active' = [active EXCEPT ![act.task] = <<l, count[l]>>]
  /\ act' = [act EXCEPT !.pc = "raise"]
  /\ UNCHANGED <<count, top_queue, bottom_task, current_task, tokens, timer_on,
                 booted, sas, void, halted>>

(* Slip: the comparison the wrong way round. *)
RaiseTop_Reversed(l) == top_queue' = IF l > top_queue THEN l ELSE top_queue

RaiseTop(l) == top_queue' = IF l < top_queue THEN l ELSE top_queue

(* Raise the top queue, reset the tokens, drop the lock. *)
ActivateRaise ==
  /\ ActivatorRuns /\ act.pc = "raise"
  /\ RaiseTop(QueueOf(act.task))
  /\ tokens' = [tokens EXCEPT ![act.task] = Priority[act.task]]
  /\ booted' = IF timer_on THEN booted ELSE booted + 1
  /\ act' = [pc |-> "idle", task |-> None, n |-> 0]
  /\ UNCHANGED <<count, slot, bottom_task, active, current_task, timer_on, sas,
                 void, halted>>

(* The end of init_multitasking: timer started, interrupts enabled. *)
StartTimer ==
  /\ ~timer_on /\ act.pc = "idle" /\ booted = Len(BootOrder)
  /\ timer_on' = TRUE
  /\ UNCHANGED <<queueVars, current_task, tokens, booted, act, sas, void, halted>>

-----------------------------------------------------------------------------
(* Scheduler_t, called by the dispatcher switcher_ksp_t.                    *)

(* Slip: the reset goes to the count word. *)
Advanced_ToZero == IF bottom_task < count[Bottom] THEN bottom_task + 1 ELSE 0

(* Slip: off by one, the slot after the last is visited too. *)
Advanced_Past == IF bottom_task <= count[Bottom] THEN bottom_task + 1 ELSE 1

Advanced == IF bottom_task < count[Bottom] THEN bottom_task + 1 ELSE 1

Miss(i) == i \notin Slots \/ slot[Bottom][i] = Empty

(* The bottom loop stops at slot i.  It looks at bottom_task first.  After  *)
(* an empty slot it jumps to the stored bottom_task and then resets it to 1 *)
(* if it is below the count and moves it past the count otherwise, so a     *)
(* second miss leads to slot 1 for ever, or one slot further on each time.  *)
HitAt(i) ==
  /\ ~Miss(i)
  /\ \/ i = bottom_task
     \/ /\ Miss(bottom_task) /\ Advanced < count[Bottom]
        /\ (i = Advanced \/ (Miss(Advanced) /\ i = 1))
     \/ /\ Miss(bottom_task) /\ Advanced >= count[Bottom]
        /\ i >= Advanced /\ \A j \in Advanced..(i - 1) : Miss(j)

(* bottom_task once the loop has stopped at slot i. *)
AfterHit(i) ==
  IF i = bottom_task THEN Advanced
  ELSE IF i < count[Bottom] THEN 1 ELSE i + 1

DispatchFrame == UNCHANGED <<tokens, timer_on, booted, act, void>>

(* Slip: the dispatched task's active word is left as it was.               *)
ScheduleBottom_StaleActive ==
  /\ top_queue = Bottom
  /\ \E i \in Slots :
       /\ HitAt(i) /\ slot[Bottom][i] \in Tasks
       /\ current_task' = slot[Bottom][i]
       /\ bottom_task' = AfterHit(i)
  /\ UNCHANGED <<count, slot, active, top_queue, halted>>
  /\ DispatchFrame

(* top_queue is the bottom queue: round robin over its slots, nothing moves. *)
ScheduleBottom ==
  /\ top_queue = Bottom
  /\ \E i \in Slots :
       /\ HitAt(i) /\ slot[Bottom][i] \in Tasks
       /\ current_task' = slot[Bottom][i]
       /\ active' = [active EXCEPT ![slot[Bottom][i]] = <<Bottom, i>>]
       /\ bottom_task' = AfterHit(i)
  /\ UNCHANGED <<count, slot, top_queue, halted>>
  /\ DispatchFrame

(* The first task of the top queue is appended to the queue below and runs. *)
StepFirstDown(rest) ==
  LET below == top_queue + 1
      first == slot[top_queue][1]
      n == count[below] + 1 IN
  /\ first \in Tasks /\ n \in Slots
  /\ count' = [count EXCEPT ![top_queue] = @ - 1, ![below] = n]
  /\ slot' = [slot EXCEPT ![below][n] = first, ![top_queue] = rest]
  /\ current_task' = first
  /\ active' = [active EXCEPT ![first] = <<below, n>>]
  /\ UNCHANGED <<bottom_task, halted>>
  /\ DispatchFrame

(* Slip: the last task is dropped from the queue without filling the slot. *)
ScheduleGeneral_NoRefill ==
  /\ top_queue # Bottom /\ count[top_queue] \in Slots \ {1}
  /\ StepFirstDown([slot[top_queue] EXCEPT ![count[top_queue]] = Empty])
  /\ UNCHANGED top_queue

(* More than one task in the top queue: its last fills the first's slot. *)
ScheduleGeneral ==
  /\ top_queue # Bottom /\ count[top_queue] \in Slots \ {1}
  /\ StepFirstDown([slot[top_queue] EXCEPT
                      ![1] = slot[top_queue][count[top_queue]],
                      ![count[top_queue]] = Empty])
  /\ UNCHANGED top_queue

(* A single task: the queue below becomes the top queue. *)
ScheduleStepDown ==
  /\ top_queue # Bottom /\ count[top_queue] = 1
  /\ StepFirstDown([slot[top_queue] EXCEPT ![1] = Empty])
  /\ top_queue' = top_queue + 1

(* Scheduler_t finds no task to run: it follows a slot word that names no   *)
(* task, or loops with interrupts off over empty slots.                     *)
FindsTask ==
  IF top_queue = Bottom
  THEN \E i \in Slots : HitAt(i) /\ slot[Bottom][i] \in Tasks
  ELSE slot[top_queue][1] \in Tasks /\ count[top_queue] # 0

ScheduleNoTask ==
  /\ ~FindsTask
  /\ halted' = TRUE
  /\ UNCHANGED <<queueVars, current_task>>
  /\ DispatchFrame

Schedule == ScheduleBottom \/ ScheduleGeneral \/ ScheduleStepDown \/ ScheduleNoTask

(* The timer dispatches whatever the current task is doing. *)
TimerTick ==
  /\ timer_on /\ ~halted
  /\ Schedule
  /\ UNCHANGED sas

-----------------------------------------------------------------------------
(* SAS_void_eraser_t: one pass over its loop looks at one slot of the       *)
(* bottom queue, or at the end of a scan lifts the task with most tokens.   *)

SasRuns == timer_on /\ ~halted /\ current_task = Sas
At == slot[Bottom][sas.at]
IsVoid(entry) == entry \in {Empty, void}
Scanning == sas.at <= count[Bottom]

(* The end of the pass: int $50. *)
SasYield ==
  /\ SasRuns /\ sas.pc = "yield"
  /\ sas' = [sas EXCEPT !.pc = "scan"]
  /\ Schedule

(* The comparison of the count with the slot the scan has come to. *)
SasLook ==
  /\ SasRuns /\ sas.pc = "scan"
  /\ sas' = [sas EXCEPT !.pc = IF Scanning THEN "look" ELSE "end"]
  /\ UNCHANGED <<queueVars, current_task, tokens, timer_on, booted, act, void, halted>>

(* Slip: holes are passed over. *)
SasFindHole_PassOver ==
  /\ SasRuns /\ sas.pc = "look" /\ IsVoid(At)
  /\ sas' = [sas EXCEPT !.pc = "yield", !.at = @ + 1]
  /\ UNCHANGED <<queueVars, current_task, tokens, timer_on, booted, act, void, halted>>

(* The slot is a hole ... *)
SasFindHole ==
  /\ SasRuns /\ sas.pc = "look" /\ IsVoid(At)
  /\ sas' = [sas EXCEPT !.pc = "hole"]
  /\ UNCHANGED <<queueVars, current_task, tokens, timer_on, booted, act, void, halted>>

(* ... or it is none. *)
SasFindTask ==
  /\ SasRuns /\ sas.pc = "look" /\ ~IsVoid(At)
  /\ sas' = [sas EXCEPT !.pc = "age"]
  /\ UNCHANGED <<queueVars, current_task, tokens, timer_on, booted, act, void, halted>>

(* A hole is filled from the slot that the count, read again, names. *)
SasTakeLast ==
  /\ SasRuns /\ sas.pc = "hole"
  /\ sas' = [sas EXCEPT !.pc = "fill", !.last = count[Bottom]]
  /\ UNCHANGED <<queueVars, current_task, tokens, timer_on, booted, act, void, halted>>

(* Slip: the scan reads the tokens but adds none. *)
SasAge_NoAging ==
  /\ SasRuns /\ sas.pc = "age" /\ At \in Tasks \ {Sas}
  /\ sas' = [sas EXCEPT !.pc = "yield", !.at = @ + 1,
               !.highest = IF tokens[At] > sas.highestTokens THEN At ELSE @,
               !.highestTokens = IF tokens[At] > @ THEN tokens[At] ELSE @]
  /\ UNCHANGED <<queueVars, current_task, tokens, timer_on, booted, act, void, halted>>

(* Slip: special tasks are lifted like the others.                          *)
SasAge_Special ==
  /\ SasRuns /\ sas.pc = "age" /\ At \in Tasks
  /\ sas' = [sas EXCEPT !.pc = "yield", !.at = @ + 1,
               !.highest = IF tokens[At] > sas.highestTokens THEN At ELSE @,
               !.highestTokens = IF tokens[At] > @ THEN tokens[At] ELSE @]
  /\ tokens' = [tokens EXCEPT ![At] = @ + 1]
  /\ UNCHANGED <<queueVars, current_task, timer_on, booted, act, void, halted>>

(* A task: it ages by one token, and the scan remembers the richest. *)
SasAge ==
  /\ SasRuns /\ sas.pc = "age" /\ At \in Tasks \ {Sas}
  /\ sas' = [sas EXCEPT !.pc = "yield", !.at = @ + 1,
               !.highest = IF tokens[At] > sas.highestTokens THEN At ELSE @,
               !.highestTokens = IF tokens[At] > @ THEN tokens[At] ELSE @]
  /\ tokens' = [tokens EXCEPT ![At] = @ + 1]
  /\ UNCHANGED <<queueVars, current_task, timer_on, booted, act, void, halted>>

(* A special task is passed over. *)
SasSkip ==
  /\ SasRuns /\ sas.pc = "age" /\ At = Sas
  /\ sas' = [sas EXCEPT !.pc = "yield", !.at = @ + 1]
  /\ UNCHANGED <<queueVars, current_task, tokens, timer_on, booted, act, void, halted>>

(* *tmp = *last_task *)
SasFill ==
  /\ SasRuns /\ sas.pc = "fill"
  /\ slot' = [slot EXCEPT ![Bottom][sas.at] = slot[Bottom][sas.last]]
  /\ sas' = [sas EXCEPT !.pc = "clear"]
  /\ UNCHANGED <<count, top_queue, bottom_task, active, current_task, tokens,
                 timer_on, booted, act, void, halted>>

(* *last_task = 0 *)
SasClear ==
  /\ SasRuns /\ sas.pc = "clear"
  /\ slot' = [slot EXCEPT ![Bottom][sas.last] = Empty]
  /\ sas' = [sas EXCEPT !.pc = "follow"]
  /\ UNCHANGED <<count, top_queue, bottom_task, active, current_task, tokens,
                 timer_on, booted, act, void, halted>>

(* Slip: the moved task keeps its old active word. *)
SasFollow_StaleActive ==
  /\ SasRuns /\ sas.pc = "follow"
  /\ sas' = [sas EXCEPT !.pc = "load"]
  /\ UNCHANGED <<queueVars, current_task, tokens, timer_on, booted, act, void, halted>>

(* The moved task's active word follows it.  If the hole was the last slot  *)
(* there is no such task and the store goes astray.                         *)
SasFollow ==
  /\ SasRuns /\ sas.pc = "follow"
  /\ \/ /\ At \in Tasks
        /\ active' = [active EXCEPT ![At] = <<Bottom, sas.at>>]
        /\ UNCHANGED halted
     \/ At \notin Tasks /\ halted' = TRUE /\ UNCHANGED active
  /\ sas' = [sas EXCEPT !.pc = "load"]
  /\ UNCHANGED <<count, slot, top_queue, bottom_task, current_task, tokens,
                 timer_on, booted, act, void>>

(* --*bottom_queue: the load ... *)
SasLoad ==
  /\ SasRuns /\ sas.pc = "load"
  /\ sas' = [sas EXCEPT !.pc = "store", !.last = count[Bottom]]
  /\ UNCHANGED <<queueVars, current_task, tokens, timer_on, booted, act, void, halted>>

(* ... and the store. *)
SasStore ==
  /\ SasRuns /\ sas.pc = "store"
  /\ count' = [count EXCEPT ![Bottom] = sas.last - 1]
  /\ sas' = [sas EXCEPT !.pc = "wrap"]
  /\ UNCHANGED <<slot, top_queue, bottom_task, active, current_task, tokens,
                 timer_on, booted, act, void, halted>>

(* bottom_task restarts if it is past the shorter queue, and the scan goes  *)
(* on behind the filled slot.                                               *)
SasWrap ==
  /\ SasRuns /\ sas.pc = "wrap"
  /\ bottom_task' = IF bottom_task > count[Bottom] THEN 1 ELSE bottom_task
  /\ sas' = [sas EXCEPT !.pc = "yield", !.at = @ + 1]
  /\ UNCHANGED <<count, slot, top_queue, active, current_task, tokens, timer_on,
                 booted, act, void, halted>>

(* Slip: the record of the last scan is kept for the next. *)
SasEndScan_KeepRecord ==
  LET lift == sas.highest # None /\ active[sas.highest] # None IN
  /\ SasRuns /\ sas.pc = "end"
  /\ sas' = [sas EXCEPT !.pc = IF lift THEN "vacate" ELSE "yield", !.at = 1]
  /\ tokens' = IF lift THEN [tokens EXCEPT ![sas.highest] = Priority[sas.highest]]
                       ELSE tokens
  /\ UNCHANGED <<queueVars, current_task, timer_on, booted, act, void, halted>>

(* The end of a scan: start over, and lift the richest task if there is one *)
(* and it is queued.                                                        *)
SasEndScan ==
  LET lift == sas.highest # None /\ active[sas.highest] # None IN
  /\ SasRuns /\ sas.pc = "end"
  /\ sas' = [sas EXCEPT !.pc = IF lift THEN "vacate" ELSE "yield",
                        !.at = 1, !.highestTokens = 0]
  /\ tokens' = IF lift THEN [tokens EXCEPT ![sas.highest] = Priority[sas.highest]]
                       ELSE tokens
  /\ UNCHANGED <<queueVars, current_task, timer_on, booted, act, void, halted>>

(* place_holder = task->active; a word that has been zeroed since the end   *)
(* of the scan is a place outside the queues.                               *)
SasVacate ==
  /\ SasRuns /\ sas.pc = "vacate"
  /\ sas' = [sas EXCEPT !.pc = "void", !.place = active[sas.highest]]
  /\ UNCHANGED <<queueVars, current_task, tokens, timer_on, booted, act, void, halted>>

(* *place_holder = the spurious task's entry *)
SasVoid ==
  LET p == sas.place IN
  /\ SasRuns /\ sas.pc = "void"
  /\ slot' = IF p = None THEN slot ELSE [slot EXCEPT ![p[1]][p[2]] = void]
  /\ sas' = [sas EXCEPT !.pc = "begin", !.place = None]
  /\ UNCHANGED <<count, top_queue, bottom_task, active, current_task, tokens,
                 timer_on, booted, act, void, halted>>

LiftQueue == Bottom - BOOST

(* ++*_q for the queue four pages up: the load ... *)
SasLiftBegin ==
  /\ SasRuns /\ sas.pc = "begin"
  /\ sas' = [sas EXCEPT !.pc = "extend", !.last = count[LiftQueue]]
  /\ UNCHANGED <<queueVars, current_task, tokens, timer_on, booted, act, void, halted>>

(* ... and the store. *)
SasLiftExtend ==
  /\ SasRuns /\ sas.pc = "extend" /\ sas.last < PAGE
  /\ count' = [count EXCEPT ![LiftQueue] = sas.last + 1]
  /\ sas' = [sas EXCEPT !.pc = "place"]
  /\ UNCHANGED <<slot, top_queue, bottom_task, active, current_task, tokens,
                 timer_on, booted, act, void, halted>>

(* The entry is written where the count points ... *)
SasLiftPlace ==
  LET q_entry == <<LiftQueue, count[LiftQueue]>> IN
  /\ SasRuns /\ sas.pc = "place" /\ q_entry \in Places
  /\ slot' = [slot EXCEPT ![LiftQueue][count[LiftQueue]] = sas.highest]
  /\ sas' = [sas EXCEPT !.pc = "word", !.place = q_entry]
  /\ UNCHANGED <<count, top_queue, bottom_task, active, current_task, tokens,
                 timer_on, booted, act, void, halted>>

(* ... and the task's active word names that place. *)
SasLiftWord ==
  /\ SasRuns /\ sas.pc = "word"
  /\ active' = [active EXCEPT ![sas.highest] = sas.place]
  /\ sas' = [sas EXCEPT !.pc = "raise", !.place = None]
  /\ UNCHANGED <<count, slot, top_queue, bottom_task, current_task, tokens,
                 timer_on, booted, act, void, halted>>

SasLiftRaise ==
  /\ SasRuns /\ sas.pc = "raise"
  /\ RaiseTop(LiftQueue)
  /\ sas' = [sas EXCEPT !.pc = "yield", !.highest = None]
  /\ UNCHANGED <<count, slot, bottom_task, active, current_task, tokens, timer_on,
                 booted, act, void, halted>>

SasStep ==
  \/ SasYield \/ SasLook \/ SasFindHole \/ SasFindTask \/ SasTakeLast
  \/ SasAge \/ SasSkip \/ SasFill \/ SasClear \/ SasFollow \/ SasLoad
  \/ SasStore \/ SasWrap \/ SasEndScan \/ SasVacate \/ SasVoid
  \/ SasLiftBegin \/ SasLiftExtend \/ SasLiftPlace \/ SasLiftWord
  \/ SasLiftRaise

ActivateStep ==
  \/ \E t \in Tasks : ActivateBegin(t)
  \/ ActivateExtend \/ ActivatePlace \/ ActivateRaise

(* A halted core executes nothing more. *)
Halted == halted /\ UNCHANGED vars

Next == ActivateStep \/ StartTimer \/ TimerTick \/ SasStep \/ Halted

(* The timer keeps firing, and a time slice is long enough for the running  *)
(* task to execute something: no thread is dispatched for ever in vain.     *)
Fairness ==
  /\ WF_vars(TimerTick) /\ WF_vars(StartTimer)
  /\ SF_vars(ActivateStep) /\ SF_vars(SasStep)

Spec == Init /\ [][Next]_vars /\ Fairness

-----------------------------------------------------------------------------
(* Properties                                                               *)

TypeOK ==
  /\ count \in [Levels -> 0..PAGE]
  /\ slot \in [Levels -> [Slots -> Entries]]
  /\ top_queue \in Levels
  /\ bottom_task \in 1..(PAGE + 1)
  /\ current_task \in Tasks \cup {Boot}
  /\ active \in [Tasks -> Places \cup {None}]
  /\ tokens \in [Tasks -> Nat]
  /\ timer_on \in BOOLEAN /\ halted \in BOOLEAN
  /\ booted \in 0..Len(BootOrder)
  /\ act \in [pc : {"idle", "extend", "place", "raise"},
              task : Tasks \cup {None}, n : 0..PAGE]
  /\ sas \in [pc : {"scan", "look", "hole", "age", "fill", "clear", "follow",
                    "load", "store", "wrap", "yield", "end", "vacate",
                    "void", "begin", "extend", "place", "word", "raise"},
              at : 1..(PAGE + 1), last : 0..PAGE, place : Places \cup {None},
              highest : Tasks \cup {None}, highestTokens : Nat]
  /\ void \in VoidReads

(* The inductive invariant adds what the two unfinished operations know.    *)
SlotsOK == \A l \in Levels : \A i \in Slots : slot[l][i] \in Tasks \cup {Empty, void}

ActOK ==
  act.pc # "idle" =>
    act.task \in Tasks /\ (~timer_on => booted < Len(BootOrder))

Erases == {"hole", "fill", "clear", "follow", "load", "store", "wrap"}
Lifts == {"vacate", "void", "begin", "extend", "place", "word", "raise"}

SasOK ==
  /\ sas.pc \in Erases \cup {"look", "age"} => sas.at \in Slots
  /\ sas.pc \in {"fill", "clear", "store"} => sas.last >= 1
  /\ sas.pc \in {"look", "hole", "fill", "clear", "follow", "load"} => count[Bottom] >= 1
  /\ sas.pc \in Lifts => sas.highest \in Tasks /\ active[sas.highest] # None
  /\ sas.pc \in {"void", "word"} => sas.place # None

IInv == TypeOK /\ SlotsOK /\ ActOK /\ SasOK

(* The places below the counts where a task is queued. *)
PlacesOf(t) == {p \in Places : p[2] <= count[p[1]] /\ slot[p[1]][p[2]] = t}

(* A task that an unfinished operation is moving. *)
InFlight(t) ==
  \/ act.pc \in {"extend", "place"} /\ act.task = t
  \/ sas.pc \in {"begin", "extend", "place"} /\ sas.highest = t
  \/ sas.pc = "clear" /\ slot[Bottom][sas.last] = t

WasActivated(t) ==
  \/ \E k \in 1..booted : BootOrder[k] = t
  \/ t \in Late /\ active[t] # None /\ act.task # t

(* No dispatch, lift or erased hole loses a task or queues it twice:        *)
(* whatever the timer interrupted, an activated task that nobody is moving  *)
(* is in exactly one live slot.                                             *)
QueuedOnce ==
  \A t \in Tasks : WasActivated(t) /\ ~InFlight(t) => Cardinality(PlacesOf(t)) = 1

(* The maintenance task lifts a task by writing through its active word     *)
(* with no check, so the word of every task in the bottom queue must name   *)
(* the task's own slot, but for a task just moved into a hole.  (In the     *)
(* queues above it need not: the general case of Scheduler_t moves the last *)
(* task of a queue and leaves its word.)                                    *)
ActiveNamesBottomSlot ==
  \A t \in Tasks : ~InFlight(t) /\ ~(sas.pc = "follow" /\ At = t) =>
    \A p \in PlacesOf(t) : p[1] = Bottom => active[t] = p

(* Scheduler_t only looks at top_queue and below, so nothing may be queued  *)
(* above it, but for the entry whose inserter is about to raise it.         *)
TopIsTopmost ==
  \A l \in Levels : l < top_queue =>
    \/ count[l] = 0
    \/ act.pc \in {"place", "raise"} /\ l = QueueOf(act.task)
    \/ sas.pc \in {"place", "word", "raise"} /\ l = LiftQueue

(* The bottom loop survives one hole and not two, and never one in the      *)
(* first slot: the maintenance task must have erased the hole of one lift   *)
(* before the next, and must itself run from slot 1.                        *)
BottomHoles == {i \in Slots : i <= count[Bottom] /\ IsVoid(slot[Bottom][i])}
HolesHarmless ==
  timer_on => Cardinality(BottomHoles) <= 1 /\ 1 \notin BottomHoles

(* Lifting the richest task of every scan shares the lifts out: a task     *)
(* waits at most two scans for each other ordinary task, so its tokens      *)
(* never exceed its priority by more than that.                             *)
AgingBounded ==
  \A t \in Tasks : tokens[t] <= Priority[t] + 2 * (Cardinality(Tasks) - 2)

(* No starvation: once the timer runs, every task is dispatched for ever,   *)
(* unless the word read through the missing Spurious_task is a wild one.    *)
EveryTaskRuns ==
  void = Empty => \A t \in Tasks : []<>(current_task = t)

(* Every lift is shared out: each ordinary task is lifted for ever.         *)
EveryTaskLifted ==
  void = Empty => \A t \in Tasks \ {Sas} :
    []<>(sas.pc = "raise" /\ sas.highest = t)

(* "Spurious task is a task which would kill itself to remove the void"     *)
(* (Scheduler.c:346): the entry put into a vacated slot is dispatchable.    *)
VoidIsDispatchable == ~halted

(* "Put a given Task_entry into an appropriate queue for it to be executed" *)
(* (task.c:231): a task whose activation has returned is queued.            *)
ActivatedIsQueued ==
  ~halted => \A t \in Tasks :
    (WasActivated(t) /\ ~InFlight(t)) => PlacesOf(t) # {}
=============================================================================
