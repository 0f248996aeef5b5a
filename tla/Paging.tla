------------------------------- MODULE Paging -------------------------------
(***************************************************************************)
(* Frames and page directories (phy.c, paging.c, mem.c, interrupts.c): the *)
(* frame stack, the directory of the kernel, the directories of processes, *)
(* and the page faults of the kernel. One core, under the kernel's         *)
(* directory. Frames are numbered from the first of the only region of     *)
(* usable memory, which is fixed in the code.                              *)
(***************************************************************************)
EXTENDS Integers, Sequences

CONSTANTS
  PgFrames,  \* frames of the region (0xBD800 in the code)
  PgTables,  \* entries of a directory (1024)
  PgKernel,  \* first entry that all directories share (764)
  PgPages,   \* entries of a table (1024)
  PgProcs    \* processes with a directory of their own

ASSUME PgAssumption ==
  /\ PgFrames \in Nat \ {0} /\ PgTables \in Nat \ {0} /\ PgPages \in Nat \ {0}
  /\ PgKernel \in 0..(PgTables - 1)

ASSUME PgNamesAssumption == "system" \notin PgProcs

VARIABLES
  round,      \* rounds of the loop that reverses the stack; then LAST + 1
  frameStack, \* the stack, its end last
  dir,        \* [directory -> [index -> table]]
  table,      \* [table -> [page -> frame]], 0 for an entry of 0
  handed      \* history: the frames handed out, in order

pgVars == <<round, frameStack, dir, table, handed>>

System == "system"
NoTable == <<>>          \* an entry of 0
Fixed(i) == <<"fixed", i>>   \* the table for an index in the memory from 4 to 8 MB
InFrame(f) == <<"frame", f>>
Index == 0..(PgTables - 1)
Page == 0..(PgPages - 1)
Region == 1..PgFrames
FIXED == PgFrames + 1    \* any frame outside the region: the kernel's, a device's

(* Slip: the last table is left out.                                        *)
Setup_SystemDir_Short == [i \in Index |-> IF i = PgTables - 1 THEN NoTable ELSE Fixed(i)]

(* Every entry of the kernel's directory gets a table, in memory that is    *)
(* there from the start (4 to 8 MB).                                        *)
Setup_SystemDir == [i \in Index |-> Fixed(i)]

(* Its tables: the lowest memory is mapped to itself, and again at          *)
(* 0xC0000000, for which the last table stands. Other entries are 0.        *)
FirstTable(i) ==
  [p \in Page |-> IF i = 0 \/ i = PgTables - 1 THEN FIXED ELSE 0]

(* `size' of setup_frameStack is the difference of the end, which is on the *)
(* stack, and the start: the last word keeps its place.                     *)
Size == PgFrames - 1
LAST == Size \div 2     \* rounds of the loop

(* The stack has been filled from the bottom of the region.                 *)
PgInit ==
  /\ round = 0
  /\ frameStack = [f \in Region |-> f]
  /\ dir = [d \in PgProcs \cup {System} |->
              IF d = System THEN Setup_SystemDir ELSE [i \in Index |-> NoTable]]
  /\ table = [t \in {Fixed(i) : i \in Index} |-> FirstTable(t[2])]
  /\ handed = <<>>

(* Slip: without the variable that keeps the frame.                         *)
Reverse_NoTemp ==
  /\ round < LAST
  /\ frameStack' = [frameStack EXCEPT ![round + 1] = frameStack[Size - round],
                                      ![Size - round] = frameStack[Size - round]]
  /\ round' = round + 1
  /\ UNCHANGED <<dir, table, handed>>

(* setup_frameStack: two words change places.                               *)
Reverse ==
  /\ round < LAST
  /\ frameStack' = [frameStack EXCEPT ![round + 1] = frameStack[Size - round],
                                      ![Size - round] = frameStack[round + 1]]
  /\ round' = round + 1
  /\ UNCHANGED <<dir, table, handed>>

(* init_basic_mem takes one frame off the stack and drops it.               *)
init_basic_mem ==
  /\ round = LAST
  /\ frameStack' = SubSeq(frameStack, 1, Size)
  /\ round' = LAST + 1
  /\ UNCHANGED <<dir, table, handed>>

Top(k) == frameStack[Len(frameStack) - k]

(* Slip: the end of the stack stays where it is.                            *)
pop_frameStack_Stays(n) ==
  /\ round = LAST + 1 /\ Len(frameStack) >= n
  /\ UNCHANGED <<round, frameStack>>
  /\ handed' = handed \o [k \in 1..n |-> Top(k - 1)]

(* n frames off the stack; below it are words of page tables (bound: the    *)
(* model stops before). Nothing pushes a frame back.                        *)
pop_frameStack(n) ==
  /\ round = LAST + 1 /\ Len(frameStack) >= n
  /\ UNCHANGED round
  /\ frameStack' = SubSeq(frameStack, 1, Len(frameStack) - n)
  /\ handed' = handed \o [k \in 1..n |-> Top(k - 1)]

(* What is at a page's address, for a directory.                            *)
get_phyAddr(i, p, d) == IF dir[d][i] = NoTable THEN 0 ELSE table[dir[d][i]][p]

(* An access to a page of the kernel. A table that is missing takes a      *)
(* frame of its own, taken to be zeros here. An entry that is not 0 keeps   *)
(* its frame, whatever the access was.                                      *)
pageFaultHandle(i, p) ==
  IF dir[System][i] = NoTable
  THEN /\ pop_frameStack(2)
       /\ dir' = [dir EXCEPT ![System][i] = InFrame(Top(0))]
       /\ table' = [t \in DOMAIN table \cup {InFrame(Top(0))} |->
                      IF t = InFrame(Top(0))
                      THEN [q \in Page |-> IF q = p THEN Top(1) ELSE 0]
                      ELSE table[t]]
  ELSE /\ table[dir[System][i]][p] = 0
       /\ pop_frameStack(1)
       /\ table' = [table EXCEPT ![dir[System][i]][p] = Top(0)]
       /\ UNCHANGED dir

(* The entries from PgKernel on are copied, those below stay 0: the memory  *)
(* of the directory comes from iden_alloc and is cleared.                   *)
pgdir_create == [i \in Index |-> IF i >= PgKernel THEN dir[System][i] ELSE NoTable]

(* create_process, for a process without a parent. Its frame for 0xC0004000  *)
(* goes into a table that all directories share: the page is remapped for   *)
(* everybody, and the frame of the process before has no page any more.     *)
NewDirectory(d) ==
  LET new == pgdir_create
  IN /\ dir[d] = [i \in Index |-> NoTable]
     /\ pop_frameStack(1)
     /\ dir' = [dir EXCEPT ![d] = new]
     /\ table' = [table EXCEPT ![new[PgTables - 1]][PgPages - 1] = Top(0)]

PgNext ==
  \/ Reverse \/ init_basic_mem
  \/ \E i \in Index, p \in Page : pageFaultHandle(i, p)
  \/ \E d \in PgProcs : NewDirectory(d)

PgSpec == PgInit /\ [][PgNext]_pgVars

-----------------------------------------------------------------------------
(* Properties                                                               *)

(* The frames are handed out from the bottom of the region upwards, each of *)
(* them once, but for the highest one, which is dropped: a machine with     *)
(* less memory than the region works until it has used what it has.         *)
PgAscending == \A k \in DOMAIN handed : handed[k] = k

(* A frame backs one page at most, and no page table lies in it.            *)
PgOnce ==
  LET used == {x \in (DOMAIN table) \X Page : table[x[1]][x[2]] \in Region}
  IN /\ \A x, y \in used : table[x[1]][x[2]] = table[y[1]][y[2]] => x = y
     /\ \A x \in used : InFrame(table[x[1]][x[2]]) \notin DOMAIN table

(* A page of the kernel is the same frame in the directory of every         *)
(* process, also one that a fault or another process mapped after the       *)
(* directory was made: the directories share the kernel's tables, and the   *)
(* kernel's directory never gets another one.                               *)
PgShared ==
  \A d \in PgProcs : \A i \in PgKernel..(PgTables - 1) : \A p \in Page :
    dir[d] # [j \in Index |-> NoTable] =>
      get_phyAddr(i, p, d) = get_phyAddr(i, p, System)
=============================================================================
