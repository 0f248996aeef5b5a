# Avana: specifications, model checking and proofs

Avana is a kernel for x86-32 multiprocessors: a per-core multilevel scheduler
written half in assembly, spin locks, commands between cores (IPC), a physical
memory allocator, paging, and its own file system AqFS. It has no tests and a
README of one line, so the claims checked here come from comments in the code.

All paths below are relative to `src/Kernel/Source/`.

## 1. What there is (inventory)

`PROJECT.json` lists every component with its files, and every hazard with the
line where it bites. In short:

| component | state | operations | talks to | what is hard | what makes it correct |
|---|---|---|---|---|---|
| run queues and dispatcher (`Arch/x86/scheduler.asm`, `dispatcher.asm`) | 21 queue pages per core (word 0 a count, then thread-table entries), `top_queue`, `bottom_task`, `current_task`, `task_t.active` | `Scheduler_t` from the timer and from `int 50/51` | every thread of the core | runs between any two instructions of a thread that edits the same pages | each activated task in one live slot, nothing above `top_queue`, no endless loop, every task runs |
| maintenance task SAS (`Scheduler.c` 285-371) | scan position, richest task so far | erase holes of the bottom queue, age, lift one task per scan | edits the queues with interrupts on | five unprotected writes per lift, `--x` as load and store | no task lost, holes erased before the loop trips over a second, lifts shared out |
| activation (`task.c` 180-371) | `TASK_LOCK_ATD` | `Activate_task*` | queues, thread table, IPC | the lock does not stop the timer | a returned activation has queued its task |
| thread table (`ThreadTable.c`) | entry -> task | alloc, free | activation, kill | alloc does not reserve, free takes no lock | no shared entry |
| locks (`custom_defs.h` 55-61) | one word each | `LOCK`, `UNLOCK` | all of the above | early returns, interrupts off while spinning, lock order | exclusion, every holder lets go |
| termination (`task.c` 405-478) | queues, table, the process's thread list | `Task_Remover`, `kill` | SAS, dispatcher | any point of SAS's work | the task is gone, the others are not |
| other task operations (`task.c` 373-541, 600-810) | the same | sleep, wake, swap, priority, `_kill` | queues, IPC | interrupts on, stale active words | as above |
| IPC (`IPCInterface.c`) | a packet list per core, its lock word and count | `IPCdispatch`, `IPCprocessorP_t` | all task operations | test-then-set lock, unconditional unlock | every command carried out once |
| processes (`process.c`, `task.c` 32-178, 441-541) | process table, a ring of threads per process | create, delete, kill | task operations, paging | links at both ends of the ring go stale, a loop whose bound its body changes | the walk over the threads meets each living one once |
| physical memory (`phy.c`, `mem.c`) | frame stack; chunk lists with a table of bins by size | pop, push; allocate, free, split | paging, everything | bounds, index and list disagree, no locks | no frame or chunk handed out twice |
| paging (`paging.c`, `interrupts.c`) | page directories and tables, `pfault_cr2/3` | map, unmap, fault | frame stack | one set of globals for all cores, uncleared tables | a fault maps one fresh frame where it happened |
| AqFS (`FileSystem/AqFS`) | allocation table, headers of entries, extents on disk; `greatest` and the current directory in memory | burn, mount, create, delete, load, read, append | disk | several writes per operation, a crash between them, no free | sectors of two structures are disjoint, stored bytes are read back |
| ext2 (`FileSystem/ext2/ext2_fs.c`) | bitmaps, inode table, block numbers, directory blocks | burn, create, delete, expand, read, write | disk | bitmap and table searched separately, three versions of the offsets of indirect blocks | no block of two inodes, reads go where writes went |
| AHCI (`Hardware/ahci/ahci.c`, `vfs.c` 14-26) | table of disks, command slots, port status | probe, the transfer functions | file systems | errors that nobody clears, results that nobody looks at | what is reported moved has been moved, nothing else changes |
| start of the other cores (`cpu.c` 141-177, `Scheduler.c` 57-165, `ap_bootup.asm`) | two words behind the start-up code, `ap_gdts`, `ap_idts`, a counter | INIT and SIPI, handshake | scheduler set-up | one pair of words for all cores, cleared in two steps, no limit on waiting | each core takes its own tables and all join |
| other devices, consoles, libraries | registers | drivers | | hardware | not modelled |

After boot, the built code calls few of these operations by itself: the tasks of
`init_multitasking`, the maintenance task and the IPC task run, and everything
else (activation at run time, `kill`, `IPCdispatch`) is the kernel's interface
for tasks such as those of `test_tasks.c`. The models therefore start from the
boot sequence, and each run says which of the interface its tasks may use.

## 2. Modules

| module | models | extends / instantiates |
|---|---|---|
| `RunQueue` | one core: queues, `Scheduler_t`, activation, SAS | |
| `RunQueueProofs` | theorems about `RunQueue` for any activations | `RunQueue`, `TLAPS` |
| `RunQueueOrderProofs` | theorems about `RunQueue` for the boot orders of the code | `RunQueueProofs`, `FiniteSetTheorems` |
| `TaskOps` | `kill()` and `Task_Remover` on those queues | `RunQueue` |
| `TaskOpsProofs` | theorems about `TaskOps` for any tasks that kill themselves | `TaskOps`, `RunQueueOrderProofs` |
| `Mutex` | abstract: what `LOCK`/`UNLOCK` promise | |
| `Locks` | several cores: the four spin locks, thread table, a command between cores, `kill()` with interrupts off | instantiates `Mutex` four times |
| `LocksProofs` | theorems about `Locks` | `Locks`, `TLAPS` |
| `Regions` | abstract: what a memory descriptor promises | |
| `Chunks` | the chunk allocator behind `kmalloc` and `iden_alloc` | instantiates `Regions` |
| `Ipc`, `CoresProofs` | the packet list of a core; theorems | |
| `ApBoot`, `CoresProofs` | the start of the other cores; theorems | |
| `Processes`, `ProcessesProofs` | the threads of a process; theorems | |
| `Paging`, `PagingProofs` | frame stack, page directories, page faults of the kernel; theorems | |
| `AqFS` | the file system AqFS with crashes | |
| `Ext2` | the file system ext2 with one block group | |
| `Ahci`, `AhciProofs` | the search for disks and the transfers; theorems | |
| `MCRunQueue`, `MCTaskOps`, `MCLocks`, `MCChunks` | the instances that are model-checked | |
| `MCKernel` | boot, packet list, threads and paging, side by side | `ApBoot`, `Ipc`, `Processes`, `Paging` |
| `MCStorage` | the storage layers, side by side | `AqFS`, `Ext2`, `Ahci` |

The two halves meet at `queued`: `Locks` knows only whether a task has a slot on
its core, `RunQueue` knows where. `Fairness` of `Locks` ("every queued task gets
the core again and again") is the property `EveryTaskRuns` of `RunQueue`. `Locks`
abstracts the packet list to a set; `Ipc` has the list and nothing else. The parts
of `MCKernel` and of `MCStorage` do not share state in the models: a behaviour
exercises one of them, so that one run checks several small systems.

### RunQueue: correspondence with the code

* `count[l]` is word 0 of the page of level `l`, `slot[l][i]` its word `i`. Level 0
  is `queue_start`, level `TOTAL_QUEUES` (20) is `queue_last`. A slot holds a task
  (its thread-table entry), zero (`Empty`) or a wild word (`Garbage`).
* `Scheduler_t` runs inside an interrupt gate and is a single action, with one
  disjunct per path: `ScheduleBottom`, `ScheduleGeneral`, `ScheduleStepDown`,
  and `ScheduleNoTask` for a word that names no task or a loop that never ends.
  The bottom loop of the assembly reuses one register after a miss, so its
  second look goes to the stored `bottom_task` and not to the next slot; `HitAt`
  and `AfterHit` say where it stops, in closed form instead of by iteration.
* `SAS_void_eraser_t` and `Activate_task_direct[_SP]` run with interrupts on.
  `++x` and `--x` are two accesses, because these functions are compiled at `-O0`. Each access
  to a word that another thread writes is an action of its own, but for these pairs, which
  nothing can part in a way that a property could see:
  * `SasAge` (`Scheduler.c` 319-326) reads the slot again for each use. A `kill()` in between would make the
    record pair one task's entry with another's tokens, which only changes who is lifted.
  * `SasFindHole` and `SasFindTask` (306) read the slot twice, and a `kill()` in between turns a task into a hole or
    into another task, as it may just before; `SasFill` (312) reads the last
    slot and writes the hole, and an entry that a `kill()` moves away is still found in its old slot.
  * `SasWrap` (316-317) compares `bottom_task` with the count and resets it. Without `kill()` the reset never happens, since
    SAS is dispatched from the first slot and `bottom_task` is 2 at most then; with it, a dispatch in between
    leaves `bottom_task` to be reset once more.
  * `SasEndScan` (333-341): a `kill()` between the test of `active` and the read of the task ends as
    `SasLiftsKilled` does.
  * `SasLiftPlace` (353-355) and `SasLiftRaise` (358-359): `top_queue` is the bottom queue
    throughout a lift, so that no dispatch moves a task and changes what was read.
  * `ActivatePlace` (319-328) and `ActivateRaise` (330-337): the boot thread cannot be dispatched
    away before the timer starts; in `late_activation`, finer steps would only add losses to the one it shows.

  Locals are in `sas` and `act`.
* `kit->Spurious_task` is never assigned. `void` is the word read through it; it
  is chosen once from `VoidReads` and never changes, as low memory does not.
* Bounds: `PAGE` slots per queue instead of 1023. Appending actions require room,
  so a full page is outside the model (the code has a TODO there). `BOOST` is 4,
  `TOTAL_QUEUES` 20 in every run: these are the real values.

### TaskOps

`kill()` disables interrupts before it reads `active`, and `int 51` dispatches, so
on its own core `Kill` is one action and the next step of the core is a dispatch
(`Idle_task` is represented by `Boot`, a thread that is not queued). Nothing may
be said about a core once it runs or examines a task that was wiped, or once SAS
takes one from a count of zero (`CountWraps`), which gives 2^32 - 1 (`Astray`):
it stays there, and `KilledIsRemoved` counts as violated as soon as that is
possible. `SasLiftsKilled` is the case in which the active word that SAS reads
through the freed entry's null pointer is not zero. `caught` is a history variable:
a `kill()` has come while SAS looked at the last slot of the bottom queue, or while it erased a hole: between the
comparison of its position with the count (`Scheduler.c` 303) and the store of the shorter count (315).
In the first case the slot is behind the end by the time SAS tests it, so that what `Task_Remover` left
there, zero or a stale entry, is taken for part of the queue.

### Locks and Mutex

`Locks` keeps the program counters of all threads (`pc`), one label per access to
shared state of the functions named in the map. A core executes the thread
`running[c]`; the timer may switch it at any label unless `irq[c]` is off. A
spinning thread is one that has the core and whose action is not enabled. What
`Task_Remover` and the queue writes do is one step here, since `RunQueue` and
`TaskOps` have them. `record[c]` is the lock word of core c's packet list, which
unlike the four locks is tested and set in two steps and cleared by either side.
The packet list itself is the set `mail`, without order or loss: only one task
per packet matters to the locks. An activation for another core asks for `CORE_INFO` a second time, for the
packet's source (`task.c` 297).

### Chunks and Regions

`heap` is the descriptor: `chunk` its records, `bin` the table of bins, `free` and
`used` the two lists, `terminate` and `stacked` where the next record comes from.
Each function of `phy.c` 262-515 is an operator from one descriptor to the next
that assigns the same fields in the same order, pointer by pointer, stale pointers
included; `mem_alloc_memory` and `mem_dealloc_memory` are the actions `Alloc` and
`Dealloc`, which call them in the code's order. The loops over a list are a
function of the number of steps (`Along`); a walk that does not stop within the
number of records never stops. `heap.wild` records that the code follows a null
pointer, loops for ever, panics or lets a size wrap round; nothing is said about what
comes next. The code takes no lock; calls are taken one after the other here. `Class`
is the code's logarithm in floats: see `MCChunks`.

### Ipc

`record` is `IPCRecord_t`, `nextOf` the `next` field of the packets. `IPCdispatch`
and `IPCprocessorP_t` are compiled at `-O0` and use no atomic instruction; each
access to the record or to a packet's `next` is an action: `++entries` and
`--entries` are two, and so are the load of `last` and the store through it (58), the load of `next` and
the store of `start` (144). The receiver's pointer `pp` is loaded before the lock is
looked at, as in the code. `Execute` stands for the switch over the packet's type. A null
packet, and a count below zero, end a behaviour (`wild`): from there on the code
reads what lies at address 0. `linked` is history: the order in which packets
were hung into the list.

### ApBoot

`bsp` runs `Init_Core_x86`'s loop over `ap_kickstart`, then the loop of
`Init_Schedulers` over `Init_Core`, then the last lines of `init_multitasking`.
`ap[i]` is a core in `ap_bootup.asm`. `mail` holds the two words behind the
start-up code (5599h and 5566h in the assembly, patched by `init_smp`), `tables` is
`ap_gdts` and `ap_idts`, `counter` the word at 1000h, added to without a lock
prefix. Reads of the command word that find zero are not steps. A SIPI that a core misses is a choice
(`Sipi`). LAPIC ids are consecutive here because the code counts on it.

### Processes

`proc[p]` has `first_task_entry`, `last_task_entry` and `total_tasks`, `thread[t]` the
links of an entry, which keep their values when it dies (nothing is freed). Each call is
one step except `Delete_Process`, whose loop is taken round by round
(`DeleteThread`, with the bound that shrinks as in the code). A thread of another core is only
sent a packet, which is the second disjunct. `open` and `regrown` are the model's:
whether the process is in the table, and whether its list has met the case that breaks it (see
below). Calls run one at a time although the code has no lock for the list.

### Paging

`setup_frameStack` has filled `frameStack`; `Reverse` is one round of the loop that turns it
round (`round` is its counter, and its last word keeps its place as in the code), and
`init_basic_mem` drops the first frame. Then frames may be handed out. `dir` and `table` are directories and tables
by the place they lie in. `Setup_SystemDir` gives every entry of the
kernel's directory a table, so the branch of `pageFaultHandle` for a missing table is
never taken there: `PgShared` is what this buys. `NewDirectory` is
`pgdir_create` with the part of `create_process` that maps a frame at 0xC0004000.

### AqFS

`aqDisk` is the disk: the MBR, the main header, the meta table, the allocation table, and from
`START` on whatever was allocated. A node takes one sector. A header takes one location here and eight sectors in the
code, and is written sector by sector (`SaveHdr`): the counts and the link are in the first; the words
of entry j that hold its mark, type and sizes reach the disk with sector `AqMark[j]`, its location and name with `AqPlace[j]`.
(The division of an entry is an abstraction: one lies across two sectors at most.) A sector that is written as it was is no step.
An operation is computed as a state `s` with the list of its writes in the code's
order; `Run` leaves them in `aqTodo`, `Step` applies one, and `Crash` drops the
rest with all memory (`aqMem`: the current directory's copy, `greatest`, the
handles). `aqTold` is history: how much of each file its appends have reported stored. A
sector of data is written by its own step although the code hands a whole buffer to one
`AqWrite`, since the disk may stop in the middle of it. A behaviour ends (`wild`) where the code follows a null location or
a null header, takes the table below zero, or appends to an extent that is full: `AqRead` of 0 sectors never
returns (`Aqfs.c` 523, `ahci.c` 505). An append that finds no entry returns -7 with data written and the size grown in
the handle only.
Names are prefixes as in the code (`AqMatch`), and `AqLname` is what
`Aq_GetLname` leaves of a path.

### Ext2

Bitmaps, inode table and the contents of blocks (numbers, directory entries, data) are in `xDisk`; every
operation writes them through, so each operation is a step and there are no crashes. The block map is
modelled three times, as in the code: `inode_entry_blocks`, `block_of_set`
and `write_block_of_set`. `free_blocks` and `delete` keep the code's masks, which are empty for
multiples of eight. `write` and `read` go block by block as `ext2_write` and `ext2_read` do, and ignore
the offset as these do; `xGiven` and `xWritten` are history. Blocks are cleared when they are taken (`Taken`, `ext2_fs.c` 172-181). The
buffer of `ext2_singly_create` is not (201), so that the words behind its last number are `Junk`;
a write through one, like a full bitmap or a full directory block, ends a behaviour (`xWild`).

### Ahci

A transfer function is a plan: the sequence of copies and commands that its loop body
makes from its arguments, once for each of `rounds` passes of `do ... while (c >= chunk_sz)`. `AhStep` carries
out the next element (`AhStepCopy`, `AhStepMerge`, `AhStepCommand`); `AhDone` and `AhFailed` say where the loop goes on. The device (external)
completes a command or fails it, with or without moving the data and clearing the
slot's bit. `ahPort.tfes` is the error bit, which no code clears. A buffer is a
function from sectors to the sector each came from. A table of disks
is the set of a controller's ports, which the code enters in their order; `find_cmdslot` returns the set of
the lowest free slot, empty for -1. What is plugged into the ports is chosen at the start.
A behaviour ends (`wild`) where the code identifies, or takes as the disk, an entry of the
table that nobody has written.

## 3. What is checked

| run | instance | result |
|---|---|---|
| `run_queue` | 21 queues, `PAGE` 7, IPC task at priority 18, SAS and three tasks at 1, both readings of the void | six invariants and two liveness properties hold |
| `void_word` | the same | **violated**: `VoidIsDispatchable` |
| `late_activation` | IPC activates the last task while the timer runs | **violated**: `ActivatedIsQueued` |
| `kill` | the same five tasks, three of which may kill themselves | three invariants hold (467 thousand states) |
| `killed_runs` | the same | **violated**: `KilledIsRemoved` |
| `locks` | three cores, five tasks, five entries | four invariants and the refinement of `Mutex` hold (7.6 thousand states) |
| `locks_kill` | one core, a task that activates, a task that kills itself | **violated**: `KillGetsScheduler` |
| `chunks` | 62 units of 16 bytes, sizes 4, 6 and 16, regions of size 4 are given back, 5 records | five invariants and the refinement of `Regions` hold |
| `chunks_order` | the same memory, sizes 4 and 8, both given back | **violated**: `FreeListOrdered` |
| `locks_ipc` | two cores, a task that asks the other core for two activations | **violated**: `CommandsCarriedOut` |
| `storage` | AqFS on 10 sectors with one crash, ext2 with 12 blocks, four AHCI ports | ten invariants hold (861 thousand states) |
| `kernel` | start of 4 cores, 3 packets of two senders, 5 threads of two processes, 8 frames | six invariants and one liveness property hold (261 thousand states) |

What the passing runs show:

* `QueuedOnce`: whatever the timer interrupts during boot and maintenance, each
  activated task that no unfinished operation is moving is in exactly one live
  slot. The reason it holds although nothing is locked: once the dispatcher has
  walked the booted tasks down, SAS edits the bottom queue only while every other
  task is there too, so a dispatch in between moves nothing (during the first
  round it scans, but there is no hole to fill and no second task to lift);
  this is not obvious from the code and stops being true when
  tasks are activated later (`late_activation`) or kill themselves.
* `ActiveNamesBottomSlot`: lifts write through `active` without a check. In the
  queues above the bottom the word of a moved task is stale (scheduler.asm 112-116); in the
  bottom queue, the only one lifts take tasks from, it is right.
* `TopIsTopmost`: the dispatcher never overlooks a queue above `top_queue`.
* `HolesHarmless`: the bottom loop survives one hole, not two, and none in the
  first slot; SAS always erases one before it makes the next.
* `AgingBounded`, `EveryTaskLifted`, `EveryTaskRuns`: aging bounds waiting; each
  task is lifted and dispatched for ever.
* `RunningTaskOwnsSlot`, `SasKept`: with kills, the word `kill()` writes through
  names a slot with the running task's own entry, and SAS stays queued, once, unless
  a `kill()` comes while it looks at the last slot or erases a hole. What SAS has read of the queue is
  old by then. In the first case it may take the emptied last slot, now behind the count, for a hole and move a
  live task there, or itself; in the second the count that it stores may cut off a live task. Either way
  a task is dispatched from behind the end until it kills itself, which may take the count to zero although
  SAS was the entry counted.
* `MutualExclusion`, `LocksAreMutexes`: on every path, early returns and `kill()`
  included, a lock word is set exactly while its one holder is inside, and each lock
  implements the safety part of `Mutex`. In this run, where the core of the task that kills itself activates nothing, all but
  `TASK_LOCK_ATD` are given up again as well. In general they are not: where a thread that may hold
  `CORE_INFO` shares the core, `kill()` can wait for it for ever with `TASK_LOCK_KILL` in its hands
  (`locks_kill`), and `LocksAreMutexes` asks for it only if `KillersAlone`.
* `EntriesNameTasks`: allocation that does not reserve is saved by
  `TASK_LOCK_ATD`, and freeing without the lock is harmless.
* `NothingLost`, `GivesBackItsOwn`, `HandsOutRegions`: callers of the allocator get disjoint
  regions, and the memory is the free chunks and the held regions, as long as
  **only regions of the smallest size are given back** and the first chunk
  stays in its bin. `FreeListLinked` and `BinsDelimit` are the invariants of the two
  index structures that this rests on. Outside these conditions they fail, see below.
* `KillNotPreempted`: from `cli` to `int 51` nothing is switched.
* `IpcInOrder`: the lock of a packet list keeps nobody out and packets get lost,
  but what is carried out is carried out once and in the order of arrival.
* `BootOwnTables`: a core that comes late never loads the tables of another core, although
  one pair of words serves all. `KernelBootJoined`: the start ends with all cores in their
  switcher, unless one took no SIPI or its number was wiped by the core before it; in those two
  cases the first core waits for ever, and in no other.
* `PrWalk`: `next` leads from the first thread of a process to its last one through
  the living ones although the links at both ends of the ring go stale, **until** a thread is
  created in the one situation `regrown` names (below, under Processes).
* `PgAscending`, `PgOnce`, `PgShared`: frames are handed out upwards, each once (the highest
  never), none both as a page and as a table; the kernel's pages are the same frames in every
  directory, whatever was mapped after a directory was copied. One core.
* `AqDisjoint`: reachable structures and extents never share a sector and are never free in the
  table, after a crash between any two sectors and after the disk was mounted again.
* `AqDurable`: what an append has reported stored is read back from every offset,
  between the writes of the next append, and after a crash in it. **For files whose
  entries fit one header**: the second header of a file is not found.
* `AqCountsMarks`: a listing runs until it has met as many marks as the header counts. The two are in different
  sectors, so a crash in the write of a header can part them; each crash, and the operation that is running, puts one
  header off by one at most, and creations and deletions in such a header make it no worse. (After such a
  crash a listing may run past the header.) `AqCrashCost`: a crash leaves at most one entry that names
  nothing.
* `XOwned`: no block belongs to two inodes and every block of an inode is taken, although
  deletion leaves every eighth block and inode taken. `XBlockMap`: creation, reading and
  writing agree on where block k is **up to the singly indirect block**; from the doubly
  indirect one on they do not. `XReadsBack`: what was
  written to a file is what a read finds, however the blocks around it changed hands. `XIndex`: bitmap and table, searched separately, give the same number.
* `AhMoved`: a transfer of **no more than one chunk** (2048 sectors in the code) that
  returns 1 has moved every whole sector, although the error bit is never cleared. The sector that
  `disk_write` is asked for in part may stay unwritten although it returns 1 (`ahci.c` 644-652); then the port shows the error.
  `AhElsewhere`: sectors beside a transfer keep their contents, also when it fails half way,
  for `AqDirect_write` **below one batch** (64 sectors). Both are proved for controllers
  whose `cap` shows a command slot: `find_cmdslot` looks at four of the five bits of their number less one, and where
  these are 0 (one slot, or 17) no command is ever sent, and the functions of ext2 report success.

Findings (details and source lines in `PROJECT.json`):

1. `void_word`: a lifted task's slot gets a word read through a null pointer. If it
   is not zero, the dispatcher follows it.
2. `late_activation`: an activation at run time loses its own or another task.
3. `killed_runs`: `Task_Remover` leaves the moved entry behind the end of the
   bottom queue; after a second kill and a hole, a killed task is dispatched.
4. `locks_kill`: `kill()` spins on `CORE_INFO` with interrupts off, while the holder
   is a thread it preempted on the same core.
5. `locks_ipc`: a sender holds `TASK_LOCK_ATD` and spins on the receiver's packet
   list, the receiver holds that list and spins on `TASK_LOCK_ATD`.
6. `chunks_order`: when the bin of a freed chunk is empty, `f_list_add_chunk` looks for the
   chunk to link it behind from the bin of the next *smaller* sizes. The list is no
   longer ordered. Three calls later the same region is handed out twice (check
   `HandsOutRegions` with `MCChunksOrder.cfg`). The other two conditions of the passing
   run are also the code's: two sizes of one bin make
   the bin end a chunk early (`phy.c` 295-298; no property shows it, since the order is lost first), and because every bin is set up
   to start at the first chunk, that chunk is linked behind itself when it drops to
   a lower bin while no other bin has chunks (set `Least = 1` to see it).

### What the code does that no comment speaks about

No comment or document says what the code below should do, so it is no finding; the models
have it as it is (or end a behaviour there), and the properties are stated for the rest.

* Processes. Threads 1, 2, 3; kill 3, create 4, kill 1: entry 2 then points back into the
  dead part and 4 is lost. `Delete_Process` kills half of the threads. `create_process`
  maps a new frame at 0xC0004000 for every process, since the table there is shared.
* IPC. A packet appended while the receiver writes `start` is lost; `entries` then
  stays above the number of packets.
* AqFS. `greatest` is not on the disk: after a mount the allocator starts at the end of the
  table and wraps round (`AqfsAllocator.c` 43). Allocation may run past the end of the partition (104). A file that a
  crash left without a structure accepts appends and loses them. The bytes of a torn append stay
  behind the end of the file. An append to a file whose last extent is full never returns (523). One that finds no entry
  fails after the data were written (556), and `Aq_GetFhdr_fromEntry` is called with its null result before the
  test. A header torn by a crash keeps a count that its marks do not bear out. The copy of the root in memory and `Aq_CurrentDir` go apart.
  `Aq_Delete_Dir` finds files only, a name matches all that it is a prefix of, `Aq_GetLname` drops
  the first character. The descriptor of a file that does not exist yet is not initialised.
* ext2. Every eighth block is never freed (`ext2_fs.c` 1104) and inodes that are multiples of 8 are not
  deleted (1317). Offsets of indirect blocks differ between 310, 861 and 1619. Entries of deleted files
  stay in the directory (2414), a full directory block is not noticed (1051), deleting an empty file walks 4M blocks (2338).
  Reads and writes ignore their offset (46, 1594). A singly indirect block made on its own ends in whatever `kmalloc` returned (201). The search for a name frees the superblock and the
  descriptor that the globals still name (450), and goes round in the directory's first block (604).
* AHCI. The error bit is never cleared and the slot of a failed command never freed, so that a port
  is dead after one error. The last command of a batch repeats the whole count. `disk_write` returns 1 whatever became of its last sector (652). `count` 0 loops for ever. The
  disks' indices restart with a second controller although `disks` is global, and `check_type` compares four bits with
  a whole register. `Disk_Setup` takes entry 0 even if no disk was found.
* Start of the cores. `Init_Core` ignores that `ap_kickstart` failed and waits for ever (`cpu.c` 82);
  `ClearTarget` of one core may wipe the number of the next (`ap_bootup.asm` 147); the counter is
  raised without a lock (57); all started cores share a stack until they have tables.
* Memory. The region of frames does not depend on how much memory there is (`phy.c` 49). Two cores
  that fault at once pop the same frame (133) and share `pfault_cr2` (`interrupts.asm` 72). A fault under a process's
  directory maps the page in the kernel's and happens again for ever. New page tables are not
  cleared (`interrupts.c` 36). `iden_alloc(4092*11)` is less than the pages it is for (`mem.c` 40).
* Scheduler set-up. `tss_entries` is one short (`Scheduler.c` 55, `desc.c` 96); an interrupt table of 2056 bytes
  is put into 960 (143).
* Outside the models, as read: a full thread table (`ThreadTable.c` 26), a full queue page
  (`task.c` 317), a priority above 20 (312), `Task_Remover` setting a queue of another core's
  making as top (413), `_kill` sending a packet whose receiver reads another field (487),
  the system-call stack (`syscall_handling.c` 14).

### Bounds

In `RunQueue` the counts and the order of tasks on the
queues are what matters: with SAS, the IPC task and three ordinary tasks the bottom queue
has a first, a middle and a last slot besides SAS's, so that a hole can be in any
position, the moved task can be a third one, and a lift can meet another task on
its way down. `PAGE` 7 leaves room above five tasks, one hole and one copy. In `Locks`,
three cores give a local activation, a remote one and a `kill()` at the same
time; five entries are as many as tasks, so a table that overflows (a function
without a return value in the code) is excluded. In `Chunks`, three sizes
put held regions of two bins and of both kinds between the chunks that come and go, five records give
up to four regions at a time, and the searches meet lists of every order of addresses. Liveness is checked on complete state graphs,
without symmetry or state constraints.

`storage`. `AqSpace` 10 sectors hold the root, a directory, two files with a header and a few extents,
and fill up. Six calls (`AqCalls`) of sizes 1, 2 and 3 with two units to a sector give appends that start a
file, fill a half-empty sector, meet a full one, and need a new extent; files are at most `AqLength` 5 units long. With `AqMax` 3
entries a header fills up and a second one is made; the entries lie in the first sector of the header, in the second, and across two. One crash is followed by a mount and further calls. `XDir` and
`XInd` 2 make files of 0, 1, 3, 5 and 7 blocks use direct, singly and doubly indirect blocks; 12 blocks include
a multiple of eight. `AhChunk` 6 and `AhBatch` 4 with 1 and 5
sectors take one command, and two of which the second is short; two calls put a transfer after a failed one.

`kernel`. Four cores are the first one and three started ones, so that a late core meets both its successor's turn and
the one after. A near sender with one packet and a far one with two make every pair of accesses meet. Five
threads of two processes reach every shape of the list up to the one that breaks it. Four tables, two of them the kernel's, with two pages each,
and 8 frames let a fault come before and after a directory is copied and let frames run out.

In both runs `CHECK_DEADLOCK` is off, because the callers, packets or frames run out.

### Fairness

`RunQueue`: the timer keeps firing (weak, it is enabled unless the core is
halted). Strong fairness of the thread steps says that a time slice is long enough
for the dispatched thread to execute at least one access: each step is disabled
whenever another thread has the core. `Locks`: strong fairness of some spinning
thread getting a lock that is free again and again, of the IPC task's loop, and
weak fairness of a dispatch for each task; nothing is assumed of a core whose interrupts are
off. `ApBoot`: weak fairness of each core, the first one and those that took a SIPI: their interrupts are off
and nothing stops them. `kill`, `killed_runs`, `storage`, the other parts of `kernel` and the two other safety
violations use no fairness.

## 4. What is proved

TLAPS checks, for every value of the constants that satisfies the named assumptions:

* `RunQueueProofs` (`ShapeAssumption`, `NamesAssumption`):
  `RunQueueTypes` (`[]TypeOK`) and `NothingAboveTop` (`[]TopIsTopmost`), from
  `RunQueueInvariance` (`[]IInv`).
  `TypeOK` alone is not inductive: that `--count` stays above -1 depends on what SAS knew when it
  loaded the count (`SasOK`), and that a lift writes into a queue on its task still
  being queued. `SlotsOK` says that slots hold tasks, zeros or the void,
  `ActOK` what an unfinished activation knows. `TopIsTopmost` is
  preserved under `IInv`: a dispatch leaves a queue only when its count is zero and goes one
  level down; an entry above `top_queue` always has an inserter that is about
  to raise it.
* `RunQueueOrderProofs` (the same, and `BootWorkload`): `RunQueueOrder` (`[]OrderInv`), `TasksQueuedOnce`,
  `ActiveWordsNameSlots`, and `HolesStayHarmless`, for any number of tasks, queues and slots. `BootWorkload` is what
  `init_multitasking` does: every task is activated once, before the timer starts;
  the maintenance task has priority 1 and is the first task of its queue to be activated. `MCRunQueue` checks
  (`BootsAsTheCode`) that its workload is of this kind, and `MCRunQueueLate` shows
  that a task is lost once an activation comes later. The argument has two stages.
  `OrderInv` says that nothing is left behind a `--count` (`BehindIsEmpty`), that no task has
  two slots but for the copy by which SAS fills a hole (`Distinct`), that a booted task is
  in a slot or in the hands of SAS between two queues (`Present`), that the `active` words follow
  (`ActiveNames`), and, for this, that SAS changes the bottom queue only while the dispatcher cannot (`SasAlone`), so
  that `count` and `sas_highest_age` are still true when it uses what it
  has read (`SasKnows`). `HolesInv` adds that SAS holds the first slot, that a hole lies where the
  next scan still has to pass, and that a lift begins only when a scan has ended.
* `LocksProofs` (`LocksAssumption`): `Invariance` (`[]IInv`) and from it `TypeCorrect`,
  `Exclusion`, `EntriesNotShared`, `KillKeepsCore` and `LocksImplementMutex` (the safety part: no lock
  passes from one thread to another without being dropped), for any
  cores, tasks and entries.
  `EntriesNameTasks` needs to know that the entry which an activation found is free until it claims
  it (`EntriesOK`), which needs exclusion of `TASK_LOCK_ATD`, and that no two
  threads activate the same task (`JobsOK`); `KillNotPreempted` is what makes
  `Holders("KILL")` stay on its core. The refinement maps
  the holder of a lock to the thread with a label in the lock's section; every step of
  `Locks` takes the lock, gives it up, or leaves the holder alone.
* `CoresProofs`, part `Ipc` (`IpcAssumption`): `IpcInvariant` and from it `IpcInOrderHolds`, for any senders and any number
  of packets. Each packet is stamped when it is hung into the list. The invariant says that stamps ascend along every
  `next` ever written, that `start` and the receiver's pointer are newer than all that was
  carried out, and that a packet not yet hung in is named by nobody but its sender. It
  holds without exclusion: a lost race drops packets but never turns a link back.
* `CoresProofs`, part `ApBoot` (`BootAssumption`): `BootInvariant`, `BootOwnTablesHolds`, for any number of cores. The
  tables in the words are those of the core whose turn it is. A core that finds its number with the command
  set is that core; a number of an earlier core may still stand there, but only while that core is about
  to wipe it, and it has its tables already.
* `ProcessesProofs` (`PrAssumption`, `NobodyAssumption`): `PrInvariant`, `PrWalkHolds`, for any processes and threads. `List` says
  that the living threads of a process in their order are linked both ways, but for
  the two stale ends, and what each stale link may name; `WalkInside` that the pointer of
  `Delete_Process` stays among them. Unlinking has one lemma for each of its cases (first, last, middle).
* `PagingProofs` (`PgAssumption`, `PgNamesAssumption`: no process is called "system"): `PgInvariant`, and from it
  `PgAscendingHolds`, `PgOnceHolds`, `PgSharedHolds`, for any number of frames, tables, pages and processes. The
  invariant says which words have changed places after `round` rounds, that afterwards the stack
  counts down to the frame after the last one handed out, that pages hold only frames handed
  out, and that the kernel's directory stays as it was set up, so that no table is ever made.
* `TaskOpsProofs` (the assumptions of `RunQueue`, `KillersAssumption`): `KillInvariant` (`[]OpsInv`), and from it
  `KillTypes` (`[]OpsTypeOK`) and `KillerOwnsItsSlot` (`[]RunningTaskOwnsSlot`), for any tasks, priorities,
  activations and kills, those that come while SAS erases a hole included. `IInv` is of no use here, for a `kill()`
  leaves SAS with counts and active words that are no longer true. `OpsInv` asks less of SAS
  (`SasTypes`: its `last` is a slot while it fills it) and more of the running task: `Owns`
  says that its word names its slot. Active words of other tasks do go stale, but
  each dispatch writes the word of the task that it makes run, and until the next one only that task could spoil it.
  `SasStaysQueued` (`[]SasKept`) further assumes `BootWorkload` and `LowPriority`: the tasks that kill themselves have
  priority 1, as every task has that `init_multitasking` activates but the IPC task (`tasking.c` 122-127). (With killers of other
  priorities the invariant below fails.) Until the timer starts nobody can be killed and the invariants of
  `RunQueueOrderProofs` hold; they say how the queues stand when it does (`StartKept`). From then on
  `Kept` does, as long as the core has not gone astray and no `kill()` has come in the window of `caught`: SAS has the
  first slot of the bottom queue, and before it first runs that of the queue above (`SasHeld`); a killer above the bottom is
  in the queue that it was activated in, or it has been lifted and is there alone (`Upstairs`), so that removing
  it uncovers the bottom queue and no other (`KillAboveKept`); and the bottom queue has a slot for each living task that is to
  be found there, and unless a dead one is being lifted also as many slots with tasks in them (`Room`, which compares
  cardinalities). `Room` is what keeps the count from falling to 0 under SAS: a killed task's slot is filled with
  the last one, wherever the holes are, so no argument about single slots would do.
* `AhciProofs` (`AhAssumption`, and that a port has a command slot): `AhInvariant` (`[]AhInv`), and from it
  `AhMovedHolds` and `AhElsewhereHolds`, for any controllers, ports and sectors, any sizes of PRD entry, batch, chunk and transfer,
  and wherever the device fails. The argument: `AhPortOK` ties a slot that is taken to the error bit, so that a command which is
  not sent, or not carried out, is seen by the caller; a call that still carries a 1 has then done all its
  commands but for the two of `disk_write` whose results it ignores, of which the error bit tells, and `AhProgress` counts the batches from there: `Batches(k)` are the sectors of the first k, all of them
  behind the last command. `AhLeaves` says what a step leaves alone; for `disk_write`, which does not look at the result
  of its read, that the read went wrong only if the write will not be sent. A command's PRD entries cover its
  sectors (`Covered`); the plans of every function are opened once (`ReadPlan`, `WritePlan`, `OtherPlans`).

Only model-checked: liveness (`EveryTaskRuns`, `EveryTaskLifted`, `KernelBootJoined`, the liveness part of
`LocksAreMutexes`), which is out of the prover's reach; `AgingBounded`, which needs an induction that
counts over all tasks of a queue what each dispatch has aged; the invariants of `Chunks`, `AqFS` and `Ext2`. In these
modules the operations are folds and recursive functions over data, about which
induction would be needed.

## 5. What is left (plan)

1. Several cores in `Paging`: pops that race, the shared globals of the fault handler.
2. `Chunks` with two callers at once; the page rounding of `pmem_4k` and `Gen_MemStructures`.
3. The rest of `TaskOps`: sleep, wake, swap, priority, `_kill` of a task of another core. They run with
   interrupts on, like the activations of `late_activation`, and meet the same loss.
4. `Ipc` composed with the senders of `Locks`.
5. `Ext2` with several groups, and names.
6. Proofs: `XIndex` of `Ext2` once its folds are apart from its tables, `AqDisjoint`; and `AgingBounded`, whose
   invariant has to bound the tokens of a task by a count of the tasks already aged in the present scan and of
   those still richer than it.

Not planned. Device drivers other than AHCI (ATA, PCI, ACPI, HPET, APIC) program registers and walk tables
of hardware and firmware that the repository does not contain; `pci_list.h` and `ahci.h` are data
and layouts. Console and string code is formatting. `fat.c`, `ata.c`, `keyboard.c`, `pci_new.c`,
`ext2/fs.c` are included by no built file; `Spinlocks.c` is, but its only callers are in `ext2/fs.c`.

## 6. How to run

    cd tla
    tlc -workers 2 -config MCRunQueue.cfg MCRunQueue
    tlc -workers 2 -config MCTaskOps.cfg MCTaskOps
    tlc -workers 2 -config MCLocks.cfg MCLocks
    tlc -workers 2 -config MCChunks.cfg MCChunks
    tlc -workers 2 -config MCStorage.cfg MCStorage
    tlc -workers 2 -config MCKernel.cfg MCKernel
    for m in RunQueue RunQueueOrder TaskOps Locks Cores Processes Paging Ahci; do tlapm ${m}Proofs.tla; done

Definitions whose names end in `_Something` and whose comment begins with "Slip" are
deliberate errors: replacing the definition before the underscore by one of them
must make the property that `PROJECT.json` names under "mutants" fail.
