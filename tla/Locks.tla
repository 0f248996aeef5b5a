------------------------------- MODULE Locks --------------------------------
(* The spin locks that task.c, ThreadTable.c and Scheduler.c take with      *)
(* LOCK(name) / UNLOCK(name), and what they protect: threads on several     *)
(* cores activate tasks and kill themselves, the timer preempts any thread  *)
(* that has interrupts enabled, and a spinning thread keeps its core until  *)
(* then.  The queues themselves are RunQueue's: here a task is queued on    *)
(* its core or it is not.                                                   *)
EXTENDS Integers, FiniteSets

CONSTANTS
  Cores,
  Tasks,      \* the tasks, each a thread of control
  Home,       \* [Tasks -> Cores], task_t.Scheduler
  Activators, \* tasks that may call Activate_task_direct_SP
  Killers,    \* tasks that may call kill()
  IpcTasks,   \* the IPC tasks, one per core at most
  Entries,    \* the entries of the thread table
  Started,    \* the tasks that are queued when the timers start
  FirstEntry, \* [Started -> Entries], their thread-table entries
  None

ASSUME LocksAssumption ==
  /\ Home \in [Tasks -> Cores]
  /\ Started \subseteq Tasks
  /\ FirstEntry \in [Started -> Entries]
  /\ \A s, t \in Started : FirstEntry[s] = FirstEntry[t] => s = t
  /\ None \notin Tasks \cup Entries

(* THREADTABLE_LOCK, TASK_LOCK_ATD, TASK_LOCK_KILL and CORE_INFO. *)
LockNames == {"TABLE", "ATD", "KILL", "CORE"}

VARIABLES
  locked,   \* [LockNames -> BOOLEAN], the lock words
  pc,       \* what each thread is about to do
  job,      \* the task that a thread's activation is about
  found,    \* the thread-table entry that its ThreadTable_alloc returned
  mail,     \* tasks that an IPC packet asks their own core to activate
  record,   \* [Cores -> BOOLEAN], IPCRecord_t.lock of the core's packet list
  table,    \* ThreadTableEntry_t.task, None for a free entry
  entry,    \* task_t.ThreadTable_entry
  queued,   \* the tasks with a slot in a queue of their core
  running,  \* the thread that executes on each core, None for Idle_task
  irq       \* interrupts are enabled on the core

vars == <<locked, pc, job, found, mail, record, table, entry, queued, running, irq>>
tableVars == <<mail, record, table, entry, queued>>
coreVars == <<running, irq>>

Init ==
  /\ locked = [l \in LockNames |-> FALSE]
  /\ pc = [t \in Tasks |-> IF t \in Started THEN "run" ELSE "dead"]
  /\ job = [t \in Tasks |-> None]
  /\ found = [t \in Tasks |-> None]
  /\ mail = {}
  /\ record = [c \in Cores |-> FALSE]
  /\ table = [e \in Entries |->
                IF \E t \in Started : FirstEntry[t] = e
                THEN CHOOSE t \in Started : FirstEntry[t] = e ELSE None]
  /\ entry = [t \in Tasks |-> IF t \in Started THEN FirstEntry[t] ELSE None]
  /\ queued = Started
  /\ running = [c \in Cores |-> None]
  /\ irq = [c \in Cores |-> TRUE]

-----------------------------------------------------------------------------
Runs(p) == running[Home[p]] = p

At(p, label) == Runs(p) /\ pc[p] = label

Goto(p, label) == pc' = [pc EXCEPT ![p] = label]

(* Slip: the old value of the word is not looked at. *)
Take_Blind(l) == locked' = [locked EXCEPT ![l] = TRUE]

(* LOCK(l): spin until the compare-and-swap finds the word clear. *)
Take(l) == ~locked[l] /\ locked' = [locked EXCEPT ![l] = TRUE]

(* UNLOCK(l). *)
Drop(l) == locked' = [locked EXCEPT ![l] = FALSE]

(* A task that nobody has activated since create_task. *)
Fresh(t) ==
  /\ pc[t] = "dead" /\ t \notin mail
  /\ \A q \in Tasks : job[q] # t

-----------------------------------------------------------------------------
(* Activate_task_direct_SP(t, kit of t)                                     *)

(* The call.  Others make it for a new task, the IPC task for a packet of   *)
(* its core's list, which it locks until the packet is dealt with.          *)
ActivateCall(p, t) ==
  /\ At(p, "run")
  /\ \/ p \in Activators /\ Fresh(t) /\ UNCHANGED <<mail, record>>
     \/ /\ p \in IpcTasks /\ t \in mail /\ Home[t] = Home[p] /\ ~record[Home[p]]
        /\ mail' = mail \ {t}
        /\ record' = [record EXCEPT ![Home[p]] = TRUE]
  /\ job' = [job EXCEPT ![p] = t]
  /\ Goto(p, "lock ATD")
  /\ UNCHANGED <<locked, found, table, entry, queued, coreVars>>

LockATD(p) ==
  /\ At(p, "lock ATD") /\ Take("ATD") /\ Goto(p, "lock CORE")
  /\ UNCHANGED <<job, found, tableVars, coreVars>>

(* Get_Scheduler(): the core's APIC id is read under CORE_INFO. *)
LockCore(p) ==
  /\ At(p, "lock CORE") /\ Take("CORE") /\ Goto(p, "get kit")
  /\ UNCHANGED <<job, found, tableVars, coreVars>>

(* Slip: Get_Scheduler returns without UNLOCK(CORE_INFO). *)
KitIsMine_KeepsCore(p) ==
  /\ At(p, "get kit") /\ Home[job[p]] = Home[p]
  /\ Goto(p, "lock TABLE")
  /\ UNCHANGED <<locked, job, found, tableVars, coreVars>>

(* kit is this core's: go on with the queue. *)
KitIsMine(p) ==
  /\ At(p, "get kit") /\ Home[job[p]] = Home[p]
  /\ Drop("CORE") /\ Goto(p, "lock TABLE")
  /\ UNCHANGED <<job, found, tableVars, coreVars>>

(* kit is another core's: send that core a packet and return. *)
KitIsRemote(p) ==
  /\ At(p, "get kit") /\ Home[job[p]] # Home[p]
  /\ Drop("CORE") /\ Goto(p, "lock CORE again")
  /\ UNCHANGED <<job, found, tableVars, coreVars>>

(* The packet's source is a second call of Get_Scheduler(). *)
LockCoreAgain(p) ==
  /\ At(p, "lock CORE again") /\ Take("CORE") /\ Goto(p, "get source")
  /\ UNCHANGED <<job, found, tableVars, coreVars>>

GetSource(p) ==
  /\ At(p, "get source")
  /\ Drop("CORE") /\ Goto(p, "lock record")
  /\ UNCHANGED <<job, found, tableVars, coreVars>>

(* IPCdispatch() spins while the other core's list is locked. *)
SeeRecordFree(p) ==
  /\ At(p, "lock record") /\ ~record[Home[job[p]]] /\ Goto(p, "dispatch")
  /\ UNCHANGED <<locked, job, found, tableVars, coreVars>>

(* Slip: the packet is filled in after the caller has forgotten the task. *)
DispatchPacket_Late(p) ==
  /\ At(p, "dispatch") /\ job' = [job EXCEPT ![p] = None]
  /\ mail' = mail \cup {job'[p]}
  /\ record' = [record EXCEPT ![Home[job[p]]] = FALSE]
  /\ Goto(p, "unlock ATD")
  /\ UNCHANGED <<locked, found, table, entry, queued, coreVars>>

(* Then it sets the lock, appends the packet and clears the lock, be it its *)
(* own or one that the IPC task has set since the test.                     *)
DispatchPacket(p) ==
  /\ At(p, "dispatch") /\ mail' = mail \cup {job[p]}
  /\ record' = [record EXCEPT ![Home[job[p]]] = FALSE]
  /\ job' = [job EXCEPT ![p] = None]
  /\ Goto(p, "unlock ATD")
  /\ UNCHANGED <<locked, found, table, entry, queued, coreVars>>

(* ThreadTable_alloc() returns an entry that it found free, and that stays  *)
(* free until the caller, who has dropped THREADTABLE_LOCK, fills it in.    *)
LockTable(p) ==
  /\ At(p, "lock TABLE") /\ Take("TABLE") /\ Goto(p, "scan")
  /\ UNCHANGED <<job, found, tableVars, coreVars>>

(* Slip: the entry's task is not looked at. *)
Scan_Blind(p) ==
  /\ At(p, "scan")
  /\ \E e \in Entries : found' = [found EXCEPT ![p] = e]
  /\ Goto(p, "unlock TABLE")
  /\ UNCHANGED <<locked, job, tableVars, coreVars>>

Scan(p) ==
  /\ At(p, "scan")
  /\ \E e \in Entries : table[e] = None /\ found' = [found EXCEPT ![p] = e]
  /\ Goto(p, "unlock TABLE")
  /\ UNCHANGED <<locked, job, tableVars, coreVars>>

UnlockTable(p) ==
  /\ At(p, "unlock TABLE") /\ Drop("TABLE") /\ Goto(p, "claim")
  /\ UNCHANGED <<job, found, tableVars, coreVars>>

(* tht->task = task *)
Claim(p) ==
  /\ At(p, "claim")
  /\ table' = [table EXCEPT ![found[p]] = job[p]]
  /\ Goto(p, "queue")
  /\ UNCHANGED <<locked, job, found, mail, record, entry, queued, coreVars>>

(* The task gets its entry and then its slot. *)
Queue(p) ==
  /\ At(p, "queue")
  /\ entry' = [entry EXCEPT ![job[p]] = found[p]]
  /\ queued' = queued \cup {job[p]}
  /\ pc' = [pc EXCEPT ![p] = "unlock ATD", ![job[p]] = "run"]
  /\ job' = [job EXCEPT ![p] = None]
  /\ UNCHANGED <<locked, found, mail, record, table, coreVars>>

(* The IPC task then unlocks its list. *)
UnlockATD(p) ==
  /\ At(p, "unlock ATD") /\ Drop("ATD") /\ Goto(p, "run")
  /\ found' = [found EXCEPT ![p] = None]
  /\ record' = IF p \in IpcTasks THEN [record EXCEPT ![Home[p]] = FALSE] ELSE record
  /\ UNCHANGED <<job, mail, table, entry, queued, coreVars>>

-----------------------------------------------------------------------------
(* kill()                                                                   *)

KillCall(p) ==
  /\ At(p, "run") /\ p \in Killers
  /\ Goto(p, "lock KILL")
  /\ UNCHANGED <<locked, job, found, tableVars, coreVars>>

LockKill(p) ==
  /\ At(p, "lock KILL") /\ Take("KILL") /\ Goto(p, "cli")
  /\ UNCHANGED <<job, found, tableVars, coreVars>>

(* Slip: interrupts stay enabled. *)
Cli_Missing(p) ==
  /\ At(p, "cli") /\ Goto(p, "kill: lock CORE")
  /\ UNCHANGED <<locked, job, found, tableVars, coreVars>>

Cli(p) ==
  /\ At(p, "cli") /\ Goto(p, "kill: lock CORE")
  /\ irq' = [irq EXCEPT ![Home[p]] = FALSE]
  /\ UNCHANGED <<locked, job, found, tableVars, running>>

KillLockCore(p) ==
  /\ At(p, "kill: lock CORE") /\ Take("CORE") /\ Goto(p, "kill: get kit")
  /\ UNCHANGED <<job, found, tableVars, coreVars>>

KillGetKit(p) ==
  /\ At(p, "kill: get kit") /\ Drop("CORE") /\ Goto(p, "remove")
  /\ UNCHANGED <<job, found, tableVars, coreVars>>

(* Task_Remover *)
Remove(p) ==
  /\ At(p, "remove")
  /\ queued' = queued \ {p}
  /\ Goto(p, "free")
  /\ UNCHANGED <<locked, job, found, mail, record, table, entry, coreVars>>

(* ThreadTable_free, without THREADTABLE_LOCK *)
Free(p) ==
  /\ At(p, "free")
  /\ table' = [table EXCEPT ![entry[p]] = None]
  /\ Goto(p, "wipe")
  /\ UNCHANGED <<locked, job, found, mail, record, entry, queued, coreVars>>

(* memset of the task *)
Wipe(p) ==
  /\ At(p, "wipe")
  /\ entry' = [entry EXCEPT ![p] = None]
  /\ Goto(p, "unlock KILL")
  /\ UNCHANGED <<locked, job, found, mail, record, table, queued, coreVars>>

UnlockKill(p) ==
  /\ At(p, "unlock KILL") /\ Drop("KILL") /\ Goto(p, "int 51")
  /\ UNCHANGED <<job, found, tableVars, coreVars>>

-----------------------------------------------------------------------------
(* switcher_ksp_t: the next thread's flags word enables interrupts.         *)
SwitchTo(c, next) ==
  /\ \/ next \in queued /\ Home[next] = c
     \/ next = None /\ \A t \in queued : Home[t] # c
  /\ running' = [running EXCEPT ![c] = next]
  /\ irq' = [irq EXCEPT ![c] = TRUE]

(* int 51 at the end of kill(): the thread never returns. *)
Int51(p) ==
  /\ At(p, "int 51") /\ Goto(p, "dead")
  /\ \E next \in queued \cup {None} : SwitchTo(Home[p], next)
  /\ UNCHANGED <<locked, job, found, tableVars>>

(* The local timer of a core. *)
TimerTick(c, next) ==
  /\ irq[c]
  /\ SwitchTo(c, next)
  /\ UNCHANGED <<locked, pc, job, found, tableVars>>

(* The steps of a thread that go on by themselves ... *)
GoOn(p) ==
  \/ KitIsMine(p) \/ KitIsRemote(p) \/ GetSource(p) \/ DispatchPacket(p)
  \/ Scan(p) \/ UnlockTable(p) \/ Claim(p) \/ Queue(p) \/ UnlockATD(p)
  \/ Cli(p) \/ KillGetKit(p) \/ Remove(p) \/ Free(p) \/ Wipe(p)
  \/ UnlockKill(p) \/ Int51(p)

(* ... those that spin on a lock ... *)
Spin(p) ==
  \/ LockATD(p) \/ LockCore(p) \/ LockCoreAgain(p) \/ LockTable(p)
  \/ SeeRecordFree(p) \/ LockKill(p) \/ KillLockCore(p)

(* ... and those that start something. *)
Call(p) == KillCall(p) \/ \E t \in Tasks : ActivateCall(p, t)

Next ==
  \/ \E p \in Tasks : GoOn(p) \/ Spin(p) \/ Call(p)
  \/ \E c \in Cores : \E next \in Tasks \cup {None} : TimerTick(c, next)

(* Every queued task gets the core again and again (RunQueue), and a time   *)
(* slice is long enough for some thread to do something; of the threads     *)
(* that spin, one whose lock is free again and again gets it.  An IPC task  *)
(* looks at its list over and over.  The timer owes nothing to a task while *)
(* its core is masked.                                                      *)
Fairness ==
  /\ SF_vars(\E p \in Tasks : GoOn(p))
  /\ SF_vars(\E p \in Tasks : Spin(p))
  /\ \A p \in IpcTasks : SF_vars(\E t \in Tasks : ActivateCall(p, t))
  /\ \A p \in Tasks : WF_vars(TimerTick(Home[p], p))

Spec == Init /\ [][Next]_vars /\ Fairness

-----------------------------------------------------------------------------
(* Properties                                                               *)

(* The labels between LOCK(l) and the end of UNLOCK(l). *)
Section(l) ==
  CASE l = "CORE" -> {"get kit", "get source", "kill: get kit"}
    [] l = "TABLE" -> {"scan", "unlock TABLE"}
    [] l = "ATD" -> {"lock CORE", "get kit", "lock CORE again", "get source",
                     "lock record", "dispatch", "lock TABLE", "scan",
                     "unlock TABLE", "claim", "queue", "unlock ATD"}
    [] l = "KILL" -> {"cli", "kill: lock CORE", "kill: get kit", "remove",
                      "free", "wipe", "unlock KILL"}

Masked == {"kill: lock CORE", "kill: get kit", "remove", "free", "wipe",
           "unlock KILL", "int 51"}

Labels == {
  "run", "dead", "lock ATD", "lock CORE", "get kit", "lock CORE again",
  "get source", "lock record", "dispatch", "lock TABLE", "scan",
  "unlock TABLE", "claim", "queue", "unlock ATD", "lock KILL", "cli",
  "kill: lock CORE", "kill: get kit", "remove", "free", "wipe", "unlock KILL",
  "int 51"}

TypeOK ==
  /\ locked \in [LockNames -> BOOLEAN]
  /\ pc \in [Tasks -> Labels]
  /\ job \in [Tasks -> Tasks \cup {None}]
  /\ found \in [Tasks -> Entries \cup {None}]
  /\ mail \in SUBSET Tasks
  /\ record \in [Cores -> BOOLEAN]
  /\ table \in [Entries -> Tasks \cup {None}]
  /\ entry \in [Tasks -> Entries \cup {None}]
  /\ queued \in SUBSET Tasks
  /\ running \in [Cores -> Tasks \cup {None}]
  /\ irq \in [Cores -> BOOLEAN]

Holders(l) == {p \in Tasks : pc[p] \in Section(l)}

(* A lock word is set exactly while one thread is between LOCK and UNLOCK,  *)
(* whatever path (early return, kill) that thread takes through them.       *)
MutualExclusion ==
  \A l \in LockNames :
    /\ \A p, q \in Holders(l) : p = q
    /\ locked[l] <=> Holders(l) # {}

(* ThreadTable_alloc returns an entry that it has not claimed and kill()    *)
(* frees one without the lock; still every queued task has an entry that    *)
(* names it, and so shares it with no other task.                           *)
EntriesNameTasks == \A t \in queued : entry[t] # None /\ table[entry[t]] = t

(* A thread that has disabled interrupts in kill() is not switched out.     *)
KillNotPreempted == \A p \in Tasks : pc[p] \in Masked => Runs(p) /\ ~irq[Home[p]]

(* The inductive invariant adds to these what the threads' activations know *)
(* of the tasks and the entries they are about.                             *)
Activating == {"lock ATD"} \cup (Section("ATD") \ {"unlock ATD"})
Leaving == {"free", "wipe", "unlock KILL", "int 51"}

JobsOK ==
  /\ \A p \in Tasks : job[p] \in Tasks <=> pc[p] \in Activating
  /\ \A p \in Tasks : job[p] \in Tasks => pc[job[p]] = "dead" /\ job[p] \notin mail
  /\ \A p, q \in Tasks : job[p] \in Tasks /\ job[p] = job[q] => p = q
  /\ \A t \in mail : pc[t] = "dead"
  /\ \A t \in Tasks : t \in queued <=> pc[t] \notin {"dead"} \cup Leaving

EntriesOK ==
  /\ EntriesNameTasks
  /\ \A p \in Tasks : pc[p] = "free" => entry[p] \in Entries /\ table[entry[p]] = p
  /\ \A p \in Tasks : pc[p] \in {"unlock TABLE", "claim"} =>
       found[p] \in Entries /\ table[found[p]] = None
  /\ \A p \in Tasks : pc[p] = "queue" =>
       found[p] \in Entries /\ table[found[p]] = job[p]

IInv == TypeOK /\ JobsOK /\ MutualExclusion /\ KillNotPreempted /\ EntriesOK

HolderOf(l) == IF Holders(l) = {} THEN None ELSE CHOOSE p \in Tasks : p \in Holders(l)

Atd == INSTANCE Mutex WITH Threads <- Tasks, holder <- HolderOf("ATD")
Core == INSTANCE Mutex WITH Threads <- Tasks, holder <- HolderOf("CORE")
Table == INSTANCE Mutex WITH Threads <- Tasks, holder <- HolderOf("TABLE")
Kill == INSTANCE Mutex WITH Threads <- Tasks, holder <- HolderOf("KILL")

(* No thread that calls Get_Scheduler while it can be preempted shares a    *)
(* core with one that calls it with interrupts off.                         *)
KillersAlone ==
  \A k \in Killers : \A p \in (Activators \cup IpcTasks) \ {k} : Home[p] # Home[k]

(* Each lock is a Mutex: it passes from no thread to one and back, on every *)
(* path, the early return of an activation included.  If no killer shares   *)
(* its core with an activating thread, all of them but TASK_LOCK_ATD are    *)
(* always given up as well; where one does, kill() may wait for CORE_INFO   *)
(* for ever with TASK_LOCK_KILL in its hands (KillGetsScheduler).           *)
LocksAreMutexes ==
  /\ Atd!MutexSafety /\ Core!MutexSafety /\ Table!MutexSafety /\ Kill!MutexSafety
  /\ KillersAlone => Core!GivenUp /\ Table!GivenUp /\ Kill!GivenUp

(* "IPC is a system to allow for sharing of commands between different      *)
(* cores" (tasking.c:107): the core that a command is sent to carries it    *)
(* out.  Here the command is to activate a task, and a sender that holds    *)
(* TASK_LOCK_ATD spins on the list that the receiver has locked before it   *)
(* asks for TASK_LOCK_ATD.                                                  *)
CommandsCarriedOut == \A t \in Tasks : (t \in mail) ~> (t \in queued)

(* "Get the Scheduler of the core on which this instruction is executed"    *)
(* (task.c:437): a kill() that has got as far as that call gets past it.    *)
KillGetsScheduler ==
  \A p \in Tasks :
    (pc[p] = "kill: lock CORE") ~> (pc[p] # "kill: lock CORE")
=============================================================================
