---------------------------- MODULE PagingProofs ----------------------------
(***************************************************************************)
(* Theorems about Paging, for every number of frames, tables and pages and *)
(* every set of processes: frames come off the stack in ascending order,   *)
(* each backs one page at most, and the pages of the kernel are the same   *)
(* in every directory.                                                     *)
(***************************************************************************)
EXTENDS Paging, SequenceTheorems, TLAPS

Tables == {Fixed(i) : i \in Index}

(* After `round' rounds the words of both ends have changed places.         *)
Reversing ==
  round \in 0..LAST =>
    /\ handed = <<>>
    /\ frameStack =
         [f \in Region |-> IF f <= round \/ (Size - round < f /\ f <= Size)
                           THEN Size - f + 1 ELSE f]

(* The stack counts down to the frame after the last one handed out.        *)
CountsDown ==
  round = LAST + 1 =>
    /\ Len(frameStack) + Len(handed) = Size
    /\ \A j \in 1..Len(frameStack) : frameStack[j] = Size - j + 1
    /\ \A k \in 1..Len(handed) : handed[k] = k

StackTyped ==
  /\ round \in 0..(LAST + 1)
  /\ frameStack \in Seq(Region)
  /\ handed \in Seq(Region)

(* No table but those in the memory from 4 to 8 MB is ever made, and the    *)
(* directory of the kernel stays as it was set up.                          *)
DirsTyped ==
  /\ dir \in [PgProcs \cup {System} -> [Index -> Tables \cup {NoTable}]]
  /\ dir[System] = Setup_SystemDir
  /\ \A d \in PgProcs : dir[d] = [i \in Index |-> NoTable] \/ dir[d] = pgdir_create

(* A page has nothing, a frame outside the region, or one handed out.       *)
TablesTyped ==
  table \in [Tables -> [Page -> {0, FIXED} \cup {f \in Region : f <= Len(handed)}]]

OnePage ==
  \A t, u \in Tables : \A p, q \in Page :
    table[t][p] \in Region /\ table[t][p] = table[u][q] => t = u /\ p = q

PgInv == StackTyped /\ Reversing /\ CountsDown /\ DirsTyped /\ TablesTyped /\ OnePage

-----------------------------------------------------------------------------
(* The numbers                                                              *)

LEMMA SizeFacts ==
  /\ Size \in Nat /\ LAST \in Nat /\ 2 * LAST <= Size /\ Size <= 2 * LAST + 1
  /\ Region = 1..(Size + 1) /\ FIXED \notin Region /\ 0 \notin Region
  /\ LAST + 1 \notin 0..LAST
<1>1. PgFrames \in Nat \ {0}
  BY PgAssumption
<1> QED
  BY <1>1 DEF Size, LAST, Region, FIXED

LEMMA TableFacts ==
  /\ \A i \in Index : Fixed(i) \in Tables /\ Fixed(i) # NoTable
  /\ \A i, j \in Index : Fixed(i) = Fixed(j) => i = j
  /\ \A f : InFrame(f) \notin Tables
  /\ PgTables - 1 \in Index /\ PgPages - 1 \in Page
<1>1. PgTables \in Nat \ {0} /\ PgPages \in Nat \ {0}
  BY PgAssumption
<1> QED
  BY <1>1 DEF Tables, Fixed, NoTable, InFrame, Index, Page

(* The front part of a sequence.                                            *)
LEMMA FrontPart ==
  ASSUME NEW s \in Seq(Region), NEW n \in 0..Len(s)
  PROVE  /\ SubSeq(s, 1, n) \in Seq(Region) /\ Len(SubSeq(s, 1, n)) = n
         /\ \A j \in 1..n : SubSeq(s, 1, n)[j] = s[j]
<1>1. n \in Nat /\ n - 1 + 1 = n /\ \A j \in 1..n : 1 + j - 1 = j /\ j \in Nat
  OBVIOUS
<1> QED
  BY <1>1, SubSeqProperties

-----------------------------------------------------------------------------
(* The stack                                                                *)

LEMMA PgInvInit == PgInit => PgInv
<1> SUFFICES ASSUME PgInit PROVE PgInv
  OBVIOUS
<1>1. StackTyped
  BY SizeFacts, PgAssumption DEF PgInit, StackTyped, Region
<1>2. Reversing
  BY SizeFacts DEF PgInit, Reversing, Region
<1>3. CountsDown
  BY SizeFacts DEF PgInit, CountsDown
<1>4. DirsTyped
  BY TableFacts, PgNamesAssumption DEF PgInit, DirsTyped, Setup_SystemDir, System
<1>5. table \in [Tables -> [Page -> {0, FIXED}]]
  BY DEF PgInit, FirstTable, Tables
<1>6. TablesTyped
  BY <1>5 DEF TablesTyped
<1>7. OnePage
  BY <1>5, SizeFacts DEF OnePage
<1> QED
  BY <1>1, <1>2, <1>3, <1>4, <1>6, <1>7 DEF PgInv

(* Two values of a function are replaced.                                   *)
LEMMA TwoReplaced ==
  ASSUME NEW D, NEW f, f = [x \in D |-> f[x]], NEW a \in D, NEW b \in D,
         NEW u, NEW v, a = b => u = v
  PROVE  [f EXCEPT ![a] = u, ![b] = v]
           = [x \in D |-> IF x = a THEN u ELSE IF x = b THEN v ELSE f[x]]
  OBVIOUS

LEMMA ReverseKeeps ==
  ASSUME PgInv, Reverse
  PROVE  StackTyped' /\ Reversing' /\ CountsDown'
<1> USE SizeFacts DEF PgInv
<1>1. round \in 0..(LAST - 1) /\ round \in Nat /\ LAST \in Nat /\ Size \in Nat
  BY DEF StackTyped, Reverse
<1>2. round' = round + 1 /\ round' \in 0..LAST /\ handed' = <<>>
  BY <1>1 DEF Reverse, Reversing
<1>3. frameStack = [f \in Region |-> IF f <= round \/ (Size - round < f /\ f <= Size)
                                    THEN Size - f + 1 ELSE f]
  BY <1>1 DEF Reversing
<1>4. /\ round + 1 \in Region /\ Size - round \in Region
      /\ ~ (round + 1 <= round \/ Size - round < round + 1)
      /\ ~ (Size - round <= round \/ Size - round < Size - round)
  BY <1>1
<1>5. frameStack[round + 1] = round + 1 /\ frameStack[Size - round] = Size - round
  BY <1>1, <1>3, <1>4
<1>6. frameStack' = [frameStack EXCEPT ![round + 1] = Size - round,
                                       ![Size - round] = round + 1]
  BY <1>5 DEF Reverse
<1>7. frameStack' = [f \in Region |->
                       IF f <= round + 1 \/ (Size - (round + 1) < f /\ f <= Size)
                       THEN Size - f + 1 ELSE f]
  <2>1. frameStack' = [f \in Region |-> IF f = round + 1 THEN Size - round
                                        ELSE IF f = Size - round THEN round + 1
                                        ELSE frameStack[f]]
    <3>1. frameStack = [f \in Region |-> frameStack[f]]
      BY <1>3
    <3>2. round + 1 = Size - round => Size - round = round + 1
      OBVIOUS
    <3> QED
      BY <1>4, <1>6, <3>1, <3>2, TwoReplaced
  <2>2. ASSUME NEW f \in Region
        PROVE  (f <= round + 1 \/ (Size - (round + 1) < f /\ f <= Size))
                 <=> (f = round + 1 \/ f = Size - round
                        \/ f <= round \/ (Size - round < f /\ f <= Size))
    BY <1>1, <1>4, <2>2
  <2>3. \A f \in Region :
          frameStack[f] = IF f <= round \/ (Size - round < f /\ f <= Size)
                          THEN Size - f + 1 ELSE f
    BY <1>3
  <2>4. Size - (round + 1) + 1 = Size - round /\ Size - (Size - round) + 1 = round + 1
    BY <1>1
  <2>5. ASSUME NEW f \in Region
        PROVE  (IF f = round + 1 THEN Size - round
                ELSE IF f = Size - round THEN round + 1 ELSE frameStack[f])
                 = IF f <= round + 1 \/ (Size - (round + 1) < f /\ f <= Size)
                   THEN Size - f + 1 ELSE f
    BY <2>2, <2>3, <2>4
  <2> QED
    BY <2>1, <2>5
<1>8. frameStack' \in Seq(Region)
  <2>1. frameStack' \in [1..PgFrames -> Region]
    <3>1. \A f \in Region : f <= round + 1 => f <= Size
      BY <1>1
    <3>2. \A f \in Region : f <= Size => Size - f + 1 \in Region
      BY <1>1
    <3>3. Region = 1..PgFrames
      BY DEF Region
    <3> QED
      BY <1>7, <3>1, <3>2, <3>3
  <2> QED
    BY <2>1, PgAssumption
<1>9. StackTyped'
  BY <1>1, <1>2, <1>8 DEF StackTyped, Region, LAST, Size
<1>10. Reversing'
  BY <1>2, <1>7 DEF Reversing, Region, LAST, Size
<1>11. CountsDown'
  BY <1>2 DEF CountsDown, LAST, Size
<1> QED
  BY <1>9, <1>10, <1>11

LEMMA InitKeeps ==
  ASSUME PgInv, init_basic_mem
  PROVE  StackTyped' /\ Reversing' /\ CountsDown'
<1> USE SizeFacts DEF PgInv
<1>1. round = LAST /\ round' = LAST + 1 /\ handed = <<>> /\ handed' = <<>>
  BY DEF init_basic_mem, Reversing
<1>2. frameStack = [f \in Region |-> IF f <= LAST \/ (Size - LAST < f /\ f <= Size)
                                    THEN Size - f + 1 ELSE f]
  BY <1>1 DEF Reversing
<1>3. \A f \in 1..Size : frameStack[f] = Size - f + 1
  BY <1>2
<1>4. Len(frameStack) = Size + 1
  BY <1>2, PgAssumption DEF Region, Size, StackTyped
<1>5. /\ Len(frameStack') = Size
      /\ frameStack' \in Seq(Region)
      /\ \A j \in 1..Size : frameStack'[j] = frameStack[j]
  <2>1. frameStack \in Seq(Region) /\ frameStack' = SubSeq(frameStack, 1, Size)
    BY DEF init_basic_mem, StackTyped
  <2>2. Size \in 0..Len(frameStack)
    BY <1>4
  <2> QED
    BY <2>1, <2>2, FrontPart
<1>6. StackTyped'
  BY <1>1, <1>5 DEF StackTyped, Region, LAST, Size
<1>7. Reversing'
  BY <1>1 DEF Reversing, LAST, Size
<1>8. CountsDown'
  <2>1. Len(frameStack') + Len(handed') = Size
    BY <1>1, <1>5
  <2>2. \A j \in 1..Len(frameStack') : frameStack'[j] = Size - j + 1
    BY <1>3, <1>5
  <2>3. \A k \in 1..Len(handed') : handed'[k] = k
    BY <1>1
  <2> QED
    BY <2>1, <2>2, <2>3 DEF CountsDown, Size
<1> QED
  BY <1>6, <1>7, <1>8

LEMMA PopKeeps ==
  ASSUME PgInv, pop_frameStack(1)
  PROVE  /\ StackTyped' /\ Reversing' /\ CountsDown'
         /\ Top(0) = Len(handed) + 1 /\ Top(0) \in Region
         /\ Len(handed') = Len(handed) + 1 /\ Len(handed) \in Nat
<1> USE SizeFacts DEF PgInv
<1>1. round = LAST + 1 /\ round' = round /\ Len(frameStack) >= 1
  BY DEF pop_frameStack
<1>2. /\ frameStack \in Seq(Region) /\ handed \in Seq(Region)
      /\ Len(frameStack) + Len(handed) = Size
      /\ Len(frameStack) \in Nat /\ Len(handed) \in Nat
      /\ \A j \in 1..Len(frameStack) : frameStack[j] = Size - j + 1
      /\ \A k \in 1..Len(handed) : handed[k] = k
  BY <1>1 DEF StackTyped, CountsDown
<1>3. Top(0) = Len(handed) + 1 /\ Top(0) \in Region
  BY <1>1, <1>2 DEF Top
<1>4. [k \in 1..1 |-> Top(k - 1)] = <<Len(handed) + 1>>
  <2>1. \A k \in 1..1 : Top(k - 1) = Len(handed) + 1
    BY <1>3
  <2> QED
    BY <2>1
<1>5. handed' = Append(handed, Len(handed) + 1)
  BY <1>2, <1>4 DEF pop_frameStack
<1>6. /\ handed' \in Seq(Region) /\ Len(handed') = Len(handed) + 1
      /\ \A k \in 1..Len(handed') : handed'[k] = k
  BY <1>2, <1>3, <1>5
<1>7. frameStack' = SubSeq(frameStack, 1, Len(frameStack) - 1)
  BY DEF pop_frameStack
<1>8. /\ frameStack' \in Seq(Region) /\ Len(frameStack') = Len(frameStack) - 1
      /\ \A j \in 1..Len(frameStack') : frameStack'[j] = frameStack[j]
  <2>1. Len(frameStack) - 1 \in 0..Len(frameStack)
    BY <1>1, <1>2
  <2>2. /\ SubSeq(frameStack, 1, Len(frameStack) - 1) \in Seq(Region)
        /\ Len(SubSeq(frameStack, 1, Len(frameStack) - 1)) = Len(frameStack) - 1
        /\ \A j \in 1..(Len(frameStack) - 1) :
             SubSeq(frameStack, 1, Len(frameStack) - 1)[j] = frameStack[j]
    BY <1>2, <2>1, FrontPart
  <2> QED
    BY <1>7, <2>2
<1>9. StackTyped'
  BY <1>1, <1>6, <1>8 DEF StackTyped, Region, LAST, Size
<1>10. CountsDown'
  <2>1. /\ Len(frameStack') + Len(handed') = Size /\ Size' = Size
        /\ \A j \in 1..Len(frameStack') : frameStack'[j] = Size - j + 1
    BY <1>2, <1>8, <1>6 DEF Size
  <2> QED
    BY <1>6, <2>1 DEF CountsDown
<1>11. Reversing'
  BY <1>1 DEF Reversing, LAST, Size
<1> QED
  BY <1>2, <1>3, <1>6, <1>9, <1>10, <1>11

-----------------------------------------------------------------------------
(* Directories and tables                                                   *)

(* One page gets the frame that was handed out.                             *)
LEMMA OneMore ==
  ASSUME PgInv, NEW u \in Tables, NEW q \in Page, pop_frameStack(1),
         table' = [table EXCEPT ![u][q] = Top(0)]
  PROVE  TablesTyped' /\ OnePage'
<1> USE SizeFacts DEF PgInv
<1>1. /\ Top(0) = Len(handed) + 1 /\ Top(0) \in Region
      /\ Len(handed') = Len(handed) + 1 /\ Len(handed) \in Nat
  BY PopKeeps
<1>2. \A t \in Tables : \A p \in Page :
        table'[t][p] = IF t = u /\ p = q THEN Top(0) ELSE table[t][p]
  BY DEF TablesTyped
<1>3. \A t \in Tables : \A p \in Page :
        table[t][p] \in {0, FIXED} \/ (table[t][p] \in Region /\ table[t][p] <= Len(handed))
  BY DEF TablesTyped
<1>4. TablesTyped'
  <2>1. table' \in [Tables -> [Page -> {0, FIXED} \cup {f \in Region : f <= Len(handed')}]]
    <3>1. \A t \in Tables : table'[t] = [p \in Page |-> table'[t][p]]
      BY DEF TablesTyped
    <3>2. \A t \in Tables : \A p \in Page :
            table'[t][p] \in {0, FIXED} \cup {f \in Region : f <= Len(handed')}
      <4> SUFFICES ASSUME NEW t \in Tables, NEW p \in Page
                   PROVE  table'[t][p] \in {0, FIXED} \cup {f \in Region : f <= Len(handed')}
        OBVIOUS
      <4>1. CASE t = u /\ p = q
        BY <1>1, <1>2, <4>1
      <4>2. CASE ~ (t = u /\ p = q)
        BY <1>1, <1>2, <1>3, <4>2
      <4> QED
        BY <4>1, <4>2
    <3>3. table' = [t \in Tables |-> table'[t]]
      BY DEF TablesTyped
    <3> QED
      BY <3>1, <3>2, <3>3
  <2> QED
    BY <2>1 DEF TablesTyped, Tables, Page, FIXED, Region, Index, Fixed
<1>5. OnePage'
  <2>1. \A t, v \in Tables : \A p, r \in Page :
          table'[t][p] \in Region /\ table'[t][p] = table'[v][r] => t = v /\ p = r
    <3> SUFFICES ASSUME NEW t \in Tables, NEW v \in Tables, NEW p \in Page, NEW r \in Page,
                        table'[t][p] \in Region, table'[t][p] = table'[v][r]
                 PROVE  t = v /\ p = r
      OBVIOUS
    <3>1. CASE t = u /\ p = q /\ ~ (v = u /\ r = q)
      BY <1>1, <1>2, <1>3, <3>1
    <3>2. CASE v = u /\ r = q /\ ~ (t = u /\ p = q)
      BY <1>1, <1>2, <1>3, <3>2
    <3>3. CASE ~ (t = u /\ p = q) /\ ~ (v = u /\ r = q)
      BY <1>2, <3>3 DEF OnePage
    <3> QED
      BY <3>1, <3>2, <3>3
  <2> QED
    BY <2>1 DEF OnePage, Tables, Page, Region, Index, Fixed
<1> QED
  BY <1>4, <1>5

LEMMA FaultKeeps ==
  ASSUME PgInv, NEW i \in Index, NEW p \in Page, pageFaultHandle(i, p)
  PROVE  PgInv'
<1> USE DEF PgInv
<1>1. dir[System][i] = Fixed(i) /\ Fixed(i) # NoTable /\ Fixed(i) \in Tables
  BY TableFacts DEF DirsTyped, Setup_SystemDir
<1>2. /\ pop_frameStack(1) /\ UNCHANGED dir
      /\ table' = [table EXCEPT ![Fixed(i)][p] = Top(0)]
  BY <1>1 DEF pageFaultHandle
<1>3. TablesTyped' /\ OnePage'
  BY <1>1, <1>2, OneMore
<1>4. StackTyped' /\ Reversing' /\ CountsDown'
  BY <1>2, PopKeeps
<1>5. DirsTyped'
  BY <1>2 DEF DirsTyped, Tables, pgdir_create, Setup_SystemDir, Index, Fixed
<1> QED
  BY <1>3, <1>4, <1>5

LEMMA DirectoryKeeps ==
  ASSUME PgInv, NEW d \in PgProcs, NewDirectory(d)
  PROVE  PgInv'
<1> USE DEF PgInv
<1>1. /\ pop_frameStack(1)
      /\ dir' = [dir EXCEPT ![d] = pgdir_create]
      /\ table' = [table EXCEPT ![pgdir_create[PgTables - 1]][PgPages - 1] = Top(0)]
  BY DEF NewDirectory
<1>2. pgdir_create[PgTables - 1] = Fixed(PgTables - 1)
  <2>1. PgTables - 1 \in Index /\ PgTables - 1 >= PgKernel
    BY TableFacts, PgAssumption
  <2>2. dir[System][PgTables - 1] = Fixed(PgTables - 1)
    BY <2>1 DEF DirsTyped, Setup_SystemDir
  <2> QED
    BY <2>1, <2>2 DEF pgdir_create
<1>3. TablesTyped' /\ OnePage'
  BY <1>1, <1>2, TableFacts, OneMore
<1>4. StackTyped' /\ Reversing' /\ CountsDown'
  BY <1>1, PopKeeps
<1>5. d # System
  BY PgNamesAssumption DEF System
<1>6. dir'[System] = dir[System] /\ pgdir_create' = pgdir_create
  BY <1>1, <1>5 DEF DirsTyped, pgdir_create
<1>7. pgdir_create \in [Index -> Tables \cup {NoTable}]
  BY TableFacts DEF pgdir_create, DirsTyped, Setup_SystemDir
<1>8. dir' \in [PgProcs \cup {System} -> [Index -> Tables \cup {NoTable}]]
  BY <1>1, <1>7 DEF DirsTyped
<1>9. \A e \in PgProcs : dir'[e] = [i \in Index |-> NoTable] \/ dir'[e] = pgdir_create
  BY <1>1 DEF DirsTyped
<1>10. DirsTyped'
  BY <1>6, <1>8, <1>9 DEF DirsTyped, Tables, Setup_SystemDir, Index, Fixed
<1> QED
  BY <1>3, <1>4, <1>10

LEMMA PgInvStep == PgInv /\ [PgNext]_pgVars => PgInv'
<1> SUFFICES ASSUME PgInv, [PgNext]_pgVars PROVE PgInv'
  OBVIOUS
<1>1. ASSUME UNCHANGED <<dir, table, handed>>
      PROVE  DirsTyped' /\ TablesTyped' /\ OnePage'
  BY <1>1 DEF PgInv, DirsTyped, TablesTyped, OnePage, pgdir_create
<1>2. CASE Reverse
  BY <1>1, <1>2, ReverseKeeps DEF Reverse, PgInv
<1>3. CASE init_basic_mem
  BY <1>1, <1>3, InitKeeps DEF init_basic_mem, PgInv
<1>4. ASSUME NEW i \in Index, NEW p \in Page, pageFaultHandle(i, p) PROVE PgInv'
  BY <1>4, FaultKeeps
<1>5. ASSUME NEW d \in PgProcs, NewDirectory(d) PROVE PgInv'
  BY <1>5, DirectoryKeeps
<1>6. CASE UNCHANGED pgVars
  BY <1>1, <1>6 DEF pgVars, PgInv, StackTyped, Reversing, CountsDown
<1> QED
  BY <1>2, <1>3, <1>4, <1>5, <1>6 DEF PgNext

(* The inductive invariant of setup_frameStack, pop_frameStack, the page    *)
(* faults of the kernel and the creation of directories.                    *)
THEOREM PgInvariant == PgSpec => []PgInv
<1> QED
  BY PgInvInit, PgInvStep, PTL DEF PgSpec

-----------------------------------------------------------------------------
(* Properties                                                               *)

(* Frames are handed out from the bottom of the region upwards, whatever    *)
(* the parity of the number of frames that setup_frameStack reverses.       *)
THEOREM PgAscendingHolds == PgSpec => []PgAscending
<1>1. PgInv => PgAscending
  <2> SUFFICES ASSUME PgInv PROVE PgAscending
    OBVIOUS
  <2> USE SizeFacts DEF PgInv
  <2>1. DOMAIN handed = 1..Len(handed)
    BY DEF StackTyped
  <2>2. CASE round = LAST + 1
    BY <2>1, <2>2 DEF CountsDown, PgAscending
  <2>3. CASE round \in 0..LAST
    BY <2>1, <2>3 DEF Reversing, PgAscending
  <2> QED
    BY <2>2, <2>3 DEF StackTyped
<1> QED
  BY <1>1, PgInvariant, PTL

(* A frame backs one page at most and holds no table: pageFaultHandle maps  *)
(* each frame it pops once, and never has to make a table.                  *)
THEOREM PgOnceHolds == PgSpec => []PgOnce
<1>1. PgInv => PgOnce
  <2> SUFFICES ASSUME PgInv PROVE PgOnce
    OBVIOUS
  <2> DEFINE used == {x \in (DOMAIN table) \X Page : table[x[1]][x[2]] \in Region}
  <2>1. DOMAIN table = Tables
    BY DEF PgInv, TablesTyped
  <2>2. \A x, y \in used : table[x[1]][x[2]] = table[y[1]][y[2]] => x = y
    BY <2>1 DEF PgInv, OnePage
  <2>3. \A x \in used : InFrame(table[x[1]][x[2]]) \notin DOMAIN table
    BY <2>1, TableFacts
  <2> QED
    BY <2>2, <2>3 DEF PgOnce
<1> QED
  BY <1>1, PgInvariant, PTL

(* The pages of the kernel are the same frames in every directory, also     *)
(* those mapped after pgdir_create copied the kernel's entries.             *)
THEOREM PgSharedHolds == PgSpec => []PgShared
<1>1. PgInv => PgShared
  <2> SUFFICES ASSUME PgInv, NEW d \in PgProcs, NEW i \in PgKernel..(PgTables - 1),
                      NEW p \in Page, dir[d] # [j \in Index |-> NoTable]
               PROVE  get_phyAddr(i, p, d) = get_phyAddr(i, p, System)
    BY DEF PgShared
  <2>1. i \in Index /\ i >= PgKernel
    BY PgAssumption DEF Index
  <2>2. dir[d] = pgdir_create
    BY DEF PgInv, DirsTyped
  <2>3. dir[d][i] = dir[System][i]
    BY <2>1, <2>2 DEF pgdir_create
  <2> QED
    BY <2>3 DEF get_phyAddr
<1> QED
  BY <1>1, PgInvariant, PTL
=============================================================================
