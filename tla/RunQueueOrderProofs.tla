------------------------ MODULE RunQueueOrderProofs ------------------------
(* Proofs about what RunQueue keeps in order: where tasks are queued, what  *)
(* their active words name, and where the holes are.  They hold for boot    *)
(* workloads like that of init_multitasking, and not for any: a task that   *)
(* is activated while the timer runs can be lost (MCRunQueueLate).          *)
EXTENDS RunQueueProofs, FiniteSetTheorems

SasStart == [pc |-> "scan", at |-> 1, last |-> 0, place |-> None, highest |-> None,
             highestTokens |-> 0]
Booted == {BootOrder[k] : k \in 1..booted}

(* A live slot that holds task t.                                           *)
Holds(l, i, t) == i <= count[l] /\ slot[l][i] = t
InQueue(l, t) == \E i \in Slots : Holds(l, i, t)
Queued(t) == \E l \in Levels : InQueue(l, t)

(* A live slot whose task has not been stored yet, or has been erased.      *)
Pending(l, i) ==
  /\ i = count[l]
  /\ \/ act.pc = "place" /\ l = QueueOf(act.task)
     \/ sas.pc = "place" /\ l = LiftQueue
     \/ sas.pc \in {"follow", "load", "store"} /\ l = Bottom

BehindIsEmpty ==
  \A l \in Levels : \A i \in Slots : i > count[l] \/ Pending(l, i) => slot[l][i] = Empty

(* Until the timer starts, the queues hold what has been activated, each    *)
(* task in the queue of its priority; afterwards nobody activates.          *)
BootOK ==
  /\ timer_on => act.pc = "idle" /\ booted = Len(BootOrder)
  /\ ~ timer_on =>
       /\ current_task = Boot /\ sas = SasStart
       /\ \A l \in Levels : \A i \in Slots : i <= count[l] =>
            \/ act.pc = "place" /\ l = QueueOf(act.task) /\ i = count[l]
            \/ /\ slot[l][i] \in Booted \/ (act.pc = "raise" /\ slot[l][i] = act.task)
               /\ l = QueueOf(slot[l][i])
  /\ act.pc # "idle" => act.task = BootOrder[booted + 1]
  /\ act.pc = "extend" => act.n = count[QueueOf(act.task)]
  /\ act.pc = "place" => count[QueueOf(act.task)] >= 1
  /\ act.pc = "raise" => InQueue(QueueOf(act.task), act.task)

Distinct ==
  \A l, m \in Levels : \A i, j \in Slots :
    /\ i <= count[l] /\ j <= count[m]
    /\ slot[l][i] = slot[m][j] /\ slot[l][i] \in Tasks
    => \/ l = m /\ i = j
       \/ /\ sas.pc = "clear" /\ l = Bottom /\ m = Bottom
          /\ i \in {sas.at, sas.last} /\ j \in {sas.at, sas.last}

Lifting == sas.pc \in {"begin", "extend", "place"}

Present == \A t \in Booted : Queued(t) \/ (Lifting /\ sas.highest = t)

ActiveNames ==
  \A i \in Slots : \A t \in Tasks :
    /\ Holds(Bottom, i, t)
    /\ ~ (sas.pc = "clear" /\ slot[Bottom][sas.last] = t)
    /\ ~ (sas.pc = "follow" /\ slot[Bottom][sas.at] = t)
    => active[t] = <<Bottom, i>>

(* The maintenance task works on the queues only while nothing is queued    *)
(* above the bottom; before it first runs it waits in the queue above.      *)
Searches == {"scan", "look", "age"}

SasAlone ==
  /\ sas.pc \notin Searches \cup {"yield"} => top_queue = Bottom /\ timer_on
  /\ \A l \in Levels \ {Bottom} : InQueue(l, Sas) =>
       /\ l = Bottom - 1 /\ sas = SasStart /\ current_task # Sas
       /\ \A i \in Slots : i <= count[Bottom] => slot[Bottom][i] \in Tasks
  /\ current_task = Sas /\ top_queue # Bottom /\ ~ halted =>
       \/ sas.pc = "yield"
       \/ /\ sas.pc \in Searches /\ sas.at = 1 /\ count[Bottom] >= 1
          /\ \A i \in Slots : i <= count[Bottom] => slot[Bottom][i] \in Tasks

SasKnows ==
  /\ sas.highest # None => sas.highest \in Tasks \ {Sas}
  /\ sas.highest # None /\ ~ Lifting /\ sas.pc \notin {"word", "raise"} =>
       InQueue(Bottom, sas.highest)
  /\ Lifting => ~ Queued(sas.highest)
  /\ sas.pc \in {"fill", "clear", "store"} => sas.last = count[Bottom]
  /\ sas.pc \in {"look", "age", "hole", "fill", "clear", "follow"} =>
       sas.at <= count[Bottom]
  /\ sas.pc \in {"hole", "fill"} => slot[Bottom][sas.at] \notin Tasks
  /\ sas.pc = "age" => slot[Bottom][sas.at] \in Tasks
  /\ sas.pc = "void" => sas.place = active[sas.highest]
  /\ sas.pc = "word" => ~ InQueue(Bottom, sas.highest)
  /\ sas.pc = "clear" =>
       /\ slot[Bottom][sas.at] = slot[Bottom][sas.last]
       /\ sas.at = sas.last => slot[Bottom][sas.at] \notin Tasks
  /\ sas.pc = "extend" => sas.last = count[LiftQueue]
  /\ sas.pc = "place" => count[LiftQueue] >= 1

OrderInv ==
  /\ IInv /\ BootOK /\ BehindIsEmpty /\ Distinct /\ Present /\ ActiveNames
  /\ SasAlone /\ SasKnows

(* The maintenance task has the first slot of the bottom queue, and before  *)
(* that the first of the queue above.                                       *)
SasHasFirst ==
  /\ count[Bottom] >= 1 => slot[Bottom][1] = Sas
  /\ timer_on /\ count[Bottom] = 0 => Holds(Bottom - 1, 1, Sas)
  /\ ~ timer_on =>
       /\ count[Bottom] = 0
       /\ count[Bottom - 1] >= 1 /\ ~ Pending(Bottom - 1, 1) => slot[Bottom - 1][1] = Sas

Hole(i) == i <= count[Bottom] /\ slot[Bottom][i] \notin Tasks

(* The hole of a lift is found by the next scan, before another is made.    *)
OneHole ==
  /\ \A i, j \in Slots : Hole(i) /\ Hole(j) => i = j
  /\ \A i \in Slots : Hole(i) =>
       /\ sas.pc \in {"scan", "look", "yield"} => i >= sas.at
       /\ sas.pc = "age" => i > sas.at
       /\ sas.pc \in {"hole", "fill", "clear"} => i = sas.at
       /\ sas.pc \in {"follow", "load", "store"} => i = count[Bottom]
       /\ sas.pc \notin {"wrap", "end", "vacate", "void"}

(* A lift begins when the scan has started over.                            *)
LiftsAtStart == sas.pc \in Lifts => sas.at = 1

HolesInv == SasHasFirst /\ OneHole /\ LiftsAtStart

-----------------------------------------------------------------------------
(* Steps that change neither the queues nor the active words.               *)

LEMMA QuietStep ==
  ASSUME OrderInv, timer_on, sas.pc \notin {"clear", "follow"},
         sas'.pc \notin {"clear", "follow"},
         UNCHANGED <<count, slot, active, act, booted, timer_on>>,
         Lifting' <=> Lifting, Lifting => sas'.highest = sas.highest,
         \A l \in Levels : \A i \in Slots : Pending(l, i)' => Pending(l, i)
  PROVE  BootOK' /\ BehindIsEmpty' /\ Distinct' /\ Present' /\ ActiveNames'
<1>1. BootOK'
  BY DEF OrderInv, BootOK, InQueue, Holds, Booted, QueueOf
<1>2. BehindIsEmpty'
  BY DEF OrderInv, BehindIsEmpty
<1>4. Distinct'
  BY DEF OrderInv, Distinct
<1>5. Present'
  <2>1. \A t : Queued(t)' <=> Queued(t)
    BY DEF Queued, InQueue, Holds
  <2>2. Booted' = Booted
    BY DEF Booted
  <2>3. ASSUME NEW t \in Booted'
        PROVE  Queued(t)' \/ (Lifting' /\ sas'.highest = t)
    <3>1. Queued(t) \/ (Lifting /\ sas.highest = t)
      BY <2>2, <2>3 DEF OrderInv, Present
    <3>2. QED
      BY <2>1, <3>1
  <2>4. QED
    BY <2>3 DEF Present, Lifting
<1>6. ActiveNames'
  BY DEF OrderInv, ActiveNames, Holds
<1>7. QED
  BY <1>1, <1>2, <1>4, <1>5, <1>6

(* The fields of the record of the maintenance task.                        *)
LEMMA SasIs ==
  ASSUME IInv
  PROVE  sas = [pc |-> sas.pc, at |-> sas.at, last |-> sas.last, place |-> sas.place,
                highest |-> sas.highest, highestTokens |-> sas.highestTokens]
  BY DEF IInv, TypeOK

(* It does not run before it has left the queue above the bottom.           *)
LEMMA SasRunsAtBottom ==
  ASSUME OrderInv, SasRuns
  PROVE  /\ \A l \in Levels \ {Bottom} : ~ InQueue(l, Sas)
         /\ sas.pc = "scan" /\ ~ Scanning => top_queue = Bottom
         /\ sas.pc = "look" /\ At \notin Tasks => top_queue = Bottom
<1> USE LevelFacts
<1>1. \A l \in Levels \ {Bottom} : ~ InQueue(l, Sas)
  BY DEF OrderInv, SasAlone, SasRuns
<1>2. sas.pc = "scan" /\ ~ Scanning => top_queue = Bottom
  BY DEF OrderInv, SasAlone, Searches, SasRuns, Scanning
<1>3. sas.pc = "look" /\ At \notin Tasks => top_queue = Bottom
  <2>1. SUFFICES ASSUME sas.pc = "look", top_queue # Bottom
                 PROVE  At \in Tasks
    OBVIOUS
  <2>2. /\ sas.at = 1 /\ count[Bottom] >= 1
        /\ \A i \in Slots : i <= count[Bottom] => slot[Bottom][i] \in Tasks
    BY <2>1 DEF OrderInv, SasAlone, SasRuns
  <2>3. 1 \in Slots
    BY DEF Slots
  <2>4. QED
    BY <2>2, <2>3 DEF At
<1>4. QED
  BY <1>1, <1>2, <1>3

(* Its own steps leave the order of the dispatches to the dispatcher.       *)
LEMMA AloneStep ==
  ASSUME OrderInv, SasRuns, UNCHANGED <<timer_on, current_task>>,
         \/ top_queue' = Bottom
         \/ sas'.pc = "yield"
         \/ /\ sas.pc \in Searches /\ sas'.pc \in Searches /\ sas'.at = sas.at
            /\ UNCHANGED <<count, slot, top_queue>>,
         \A l \in Levels \ {Bottom} : InQueue(l, Sas)' => InQueue(l, Sas)
  PROVE  SasAlone'
<1>1. \A l \in Levels \ {Bottom} : ~ InQueue(l, Sas)'
  BY SasRunsAtBottom
<1>2. timer_on'
  BY DEF SasRuns
<1>3. CASE top_queue' = Bottom \/ sas'.pc = "yield"
  BY <1>1, <1>2, <1>3 DEF SasAlone
<1>4. CASE /\ sas.pc \in Searches /\ sas'.pc \in Searches /\ sas'.at = sas.at
           /\ UNCHANGED <<count, slot, top_queue>>
  <2>1. top_queue # Bottom =>
          /\ sas.at = 1 /\ count[Bottom] >= 1
          /\ \A i \in Slots : i <= count[Bottom] => slot[Bottom][i] \in Tasks
    BY <1>4 DEF OrderInv, SasAlone, Searches, SasRuns
  <2>2. QED
    BY <1>1, <1>2, <1>4, <2>1 DEF SasAlone
<1>5. QED
  BY <1>3, <1>4

(* A step of the maintenance task that leaves the queues and active words.  *)
LEMMA QuietSas ==
  ASSUME OrderInv, SasRuns, sas.pc \notin {"clear", "follow"},
         sas'.pc \notin {"clear", "follow"},
         UNCHANGED <<count, slot, active, act, booted, timer_on, current_task>>,
         Lifting' <=> Lifting, Lifting => sas'.highest = sas.highest,
         sas'.pc \notin {"place", "load", "store"} \/ (sas.pc = "load" /\ sas'.pc = "store"),
         \/ top_queue' = Bottom
         \/ sas'.pc = "yield"
         \/ /\ sas.pc \in Searches /\ sas'.pc \in Searches /\ sas'.at = sas.at
            /\ UNCHANGED top_queue
  PROVE  /\ BootOK' /\ BehindIsEmpty' /\ Distinct' /\ Present' /\ ActiveNames'
         /\ SasAlone'
<1> USE LevelFacts, NameFacts
<1>1. \A l \in Levels : \A i \in Slots : Pending(l, i)' => Pending(l, i)
  BY DEF Pending, QueueOf
<1>2. timer_on
  BY DEF SasRuns
<1>3. BootOK' /\ BehindIsEmpty' /\ Distinct' /\ Present' /\ ActiveNames'
  BY <1>1, <1>2, QuietStep
<1>4. \A l \in Levels \ {Bottom} : InQueue(l, Sas)' => InQueue(l, Sas)
  BY DEF InQueue, Holds
<1>5. SasAlone'
  BY <1>4, AloneStep
<1>6. QED
  BY <1>3, <1>5

LEMMA SasLook_Order == ASSUME OrderInv, SasLook PROVE OrderInv'
<1> USE LevelFacts, NameFacts
<1>1. /\ sas.pc = "scan" /\ sas'.pc = (IF Scanning THEN "look" ELSE "end")
      /\ sas'.highest = sas.highest /\ sas'.at = sas.at /\ SasRuns
      /\ UNCHANGED <<count, slot, active, act, booted, timer_on, current_task, top_queue>>
  BY SasIs DEF SasLook, OrderInv, queueVars
<1>2. ~ Lifting /\ ~ Lifting'
  BY <1>1 DEF Lifting
<1>3. ~ Scanning => top_queue = Bottom
  BY <1>1, SasRunsAtBottom
<1>4. /\ BootOK' /\ BehindIsEmpty' /\ Distinct' /\ Present' /\ ActiveNames'
      /\ SasAlone'
  BY <1>1, <1>2, <1>3, QuietSas DEF Searches
<1>5. SasKnows'
  BY <1>1, <1>2 DEF OrderInv, SasKnows, InQueue, Holds, Scanning
<1>6. QED
  BY <1>4, <1>5, SasLook_IInv DEF OrderInv

LEMMA SasFindHole_Order == ASSUME OrderInv, SasFindHole PROVE OrderInv'
<1> USE LevelFacts, NameFacts
<1>1. /\ sas.pc = "look" /\ sas'.pc = "hole" /\ sas'.highest = sas.highest
      /\ sas'.at = sas.at /\ IsVoid(At) /\ SasRuns
      /\ UNCHANGED <<count, slot, active, act, booted, timer_on, current_task, top_queue>>
  BY SasIs DEF SasFindHole, OrderInv, queueVars
<1>2. At \notin Tasks
  BY <1>1 DEF IsVoid, OrderInv, IInv, TypeOK
<1>3. ~ Lifting /\ ~ Lifting'
  BY <1>1 DEF Lifting
<1>4. top_queue = Bottom
  BY <1>1, <1>2, SasRunsAtBottom
<1>5. /\ BootOK' /\ BehindIsEmpty' /\ Distinct' /\ Present' /\ ActiveNames'
      /\ SasAlone'
  BY <1>1, <1>3, <1>4, QuietSas
<1>6. SasKnows'
  BY <1>1, <1>2, <1>3 DEF OrderInv, SasKnows, InQueue, Holds, At
<1>7. QED
  BY <1>5, <1>6, SasFindHole_IInv DEF OrderInv

LEMMA SasFindTask_Order == ASSUME OrderInv, SasFindTask PROVE OrderInv'
<1> USE LevelFacts, NameFacts
<1>1. /\ sas.pc = "look" /\ sas'.pc = "age" /\ sas'.highest = sas.highest
      /\ sas'.at = sas.at /\ ~ IsVoid(At) /\ SasRuns
      /\ UNCHANGED <<count, slot, active, act, booted, timer_on, current_task, top_queue>>
  BY SasIs DEF SasFindTask, OrderInv, queueVars
<1>2. At \in Tasks
  BY <1>1, ScannedSlot DEF OrderInv, IInv, SlotsOK, At, IsVoid
<1>3. ~ Lifting /\ ~ Lifting'
  BY <1>1 DEF Lifting
<1>4. /\ BootOK' /\ BehindIsEmpty' /\ Distinct' /\ Present' /\ ActiveNames'
      /\ SasAlone'
  BY <1>1, <1>3, QuietSas DEF Searches
<1>5. SasKnows'
  BY <1>1, <1>2, <1>3 DEF OrderInv, SasKnows, InQueue, Holds, At
<1>6. QED
  BY <1>4, <1>5, SasFindTask_IInv DEF OrderInv

LEMMA SasTakeLast_Order == ASSUME OrderInv, SasTakeLast PROVE OrderInv'
<1> USE LevelFacts, NameFacts
<1>1. /\ sas.pc = "hole" /\ sas'.pc = "fill" /\ sas'.highest = sas.highest
      /\ sas'.at = sas.at /\ sas'.last = count[Bottom] /\ SasRuns
      /\ UNCHANGED <<count, slot, active, act, booted, timer_on, current_task, top_queue>>
  BY SasIs DEF SasTakeLast, OrderInv, queueVars
<1>2. ~ Lifting /\ ~ Lifting'
  BY <1>1 DEF Lifting
<1>3. top_queue = Bottom
  BY <1>1 DEF OrderInv, SasAlone, Searches
<1>4. /\ BootOK' /\ BehindIsEmpty' /\ Distinct' /\ Present' /\ ActiveNames'
      /\ SasAlone'
  BY <1>1, <1>2, <1>3, QuietSas
<1>5. SasKnows'
  BY <1>1, <1>2 DEF OrderInv, SasKnows, InQueue, Holds
<1>6. QED
  BY <1>4, <1>5, SasTakeLast_IInv DEF OrderInv

LEMMA SasAge_Order == ASSUME OrderInv, SasAge PROVE OrderInv'
<1> USE LevelFacts, NameFacts
<1>1. /\ sas.pc = "age" /\ sas'.pc = "yield" /\ sas'.highest \in {sas.highest, At}
      /\ At \in Tasks \ {Sas} /\ SasRuns
      /\ UNCHANGED <<count, slot, active, act, booted, timer_on, current_task, top_queue>>
  BY SasIs DEF SasAge, OrderInv, queueVars
<1>2. sas.at \in Slots /\ sas.at <= count[Bottom]
  BY <1>1 DEF OrderInv, IInv, SasOK, SasKnows
<1>3. InQueue(Bottom, At)
  BY <1>2 DEF InQueue, Holds, At
<1>4. ~ Lifting /\ ~ Lifting'
  BY <1>1 DEF Lifting
<1>5. /\ BootOK' /\ BehindIsEmpty' /\ Distinct' /\ Present' /\ ActiveNames'
      /\ SasAlone'
  BY <1>1, <1>4, QuietSas
<1>6. SasKnows'
  <2>1. sas'.highest # None => sas'.highest \in Tasks \ {Sas}
    BY <1>1 DEF OrderInv, SasKnows
  <2>2. sas'.highest # None => InQueue(Bottom, sas'.highest)
    BY <1>1, <1>3, <1>4 DEF OrderInv, SasKnows
  <2>3. sas'.highest # None => InQueue(Bottom, sas.highest)'
    BY <1>1, <2>2 DEF InQueue, Holds
  <2>4. QED
    BY <1>1, <1>4, <2>1, <2>3 DEF SasKnows
<1>7. QED
  BY <1>5, <1>6, SasAge_IInv DEF OrderInv

LEMMA SasSkip_Order == ASSUME OrderInv, SasSkip PROVE OrderInv'
<1> USE LevelFacts, NameFacts
<1>1. /\ sas.pc = "age" /\ sas'.pc = "yield" /\ sas'.highest = sas.highest /\ SasRuns
      /\ UNCHANGED <<count, slot, active, act, booted, timer_on, current_task, top_queue>>
  BY SasIs DEF SasSkip, OrderInv, queueVars
<1>2. ~ Lifting /\ ~ Lifting'
  BY <1>1 DEF Lifting
<1>3. /\ BootOK' /\ BehindIsEmpty' /\ Distinct' /\ Present' /\ ActiveNames'
      /\ SasAlone'
  BY <1>1, <1>2, QuietSas
<1>4. SasKnows'
  BY <1>1, <1>2 DEF OrderInv, SasKnows, InQueue, Holds
<1>5. QED
  BY <1>3, <1>4, SasSkip_IInv DEF OrderInv

LEMMA SasLoad_Order == ASSUME OrderInv, SasLoad PROVE OrderInv'
<1> USE LevelFacts, NameFacts
<1>1. /\ sas.pc = "load" /\ sas'.pc = "store" /\ sas'.highest = sas.highest
      /\ sas'.last = count[Bottom] /\ SasRuns
      /\ UNCHANGED <<count, slot, active, act, booted, timer_on, current_task, top_queue>>
  BY SasIs DEF SasLoad, OrderInv, queueVars
<1>2. ~ Lifting /\ ~ Lifting'
  BY <1>1 DEF Lifting
<1>3. top_queue = Bottom
  BY <1>1 DEF OrderInv, SasAlone, Searches
<1>4. /\ BootOK' /\ BehindIsEmpty' /\ Distinct' /\ Present' /\ ActiveNames'
      /\ SasAlone'
  BY <1>1, <1>2, <1>3, QuietSas
<1>5. SasKnows'
  BY <1>1, <1>2 DEF OrderInv, SasKnows, InQueue, Holds
<1>6. QED
  BY <1>4, <1>5, SasLoad_IInv DEF OrderInv

LEMMA SasWrap_Order == ASSUME OrderInv, SasWrap PROVE OrderInv'
<1> USE LevelFacts, NameFacts
<1>1. /\ sas.pc = "wrap" /\ sas'.pc = "yield" /\ sas'.highest = sas.highest /\ SasRuns
      /\ UNCHANGED <<count, slot, active, act, booted, timer_on, current_task, top_queue>>
  BY SasIs DEF SasWrap, OrderInv
<1>2. ~ Lifting /\ ~ Lifting'
  BY <1>1 DEF Lifting
<1>3. /\ BootOK' /\ BehindIsEmpty' /\ Distinct' /\ Present' /\ ActiveNames'
      /\ SasAlone'
  BY <1>1, <1>2, QuietSas
<1>4. SasKnows'
  BY <1>1, <1>2 DEF OrderInv, SasKnows, InQueue, Holds
<1>5. QED
  BY <1>3, <1>4, SasWrap_IInv DEF OrderInv

LEMMA SasEndScan_Order == ASSUME OrderInv, SasEndScan PROVE OrderInv'
<1> USE LevelFacts, NameFacts
<1>1. /\ sas.pc = "end" /\ sas'.pc \in {"vacate", "yield"} /\ sas'.highest = sas.highest
      /\ SasRuns
      /\ UNCHANGED <<count, slot, active, act, booted, timer_on, current_task, top_queue>>
  BY SasIs DEF SasEndScan, OrderInv, queueVars
<1>2. ~ Lifting /\ ~ Lifting'
  BY <1>1 DEF Lifting
<1>3. top_queue = Bottom
  BY <1>1 DEF OrderInv, SasAlone, Searches
<1>4. /\ BootOK' /\ BehindIsEmpty' /\ Distinct' /\ Present' /\ ActiveNames'
      /\ SasAlone'
  BY <1>1, <1>2, <1>3, QuietSas
<1>5. SasKnows'
  BY <1>1, <1>2 DEF OrderInv, SasKnows, InQueue, Holds
<1>6. QED
  BY <1>4, <1>5, SasEndScan_IInv DEF OrderInv

LEMMA SasVacate_Order == ASSUME OrderInv, SasVacate PROVE OrderInv'
<1> USE LevelFacts, NameFacts
<1>1. /\ sas.pc = "vacate" /\ sas'.pc = "void" /\ sas'.highest = sas.highest
      /\ sas'.place = active[sas.highest] /\ SasRuns
      /\ UNCHANGED <<count, slot, active, act, booted, timer_on, current_task, top_queue>>
  BY SasIs DEF SasVacate, OrderInv, queueVars
<1>2. ~ Lifting /\ ~ Lifting'
  BY <1>1 DEF Lifting
<1>3. top_queue = Bottom
  BY <1>1 DEF OrderInv, SasAlone, Searches
<1>4. /\ BootOK' /\ BehindIsEmpty' /\ Distinct' /\ Present' /\ ActiveNames'
      /\ SasAlone'
  BY <1>1, <1>2, <1>3, QuietSas
<1>5. SasKnows'
  BY <1>1, <1>2 DEF OrderInv, SasKnows, InQueue, Holds
<1>6. QED
  BY <1>4, <1>5, SasVacate_IInv DEF OrderInv

LEMMA SasLiftBegin_Order == ASSUME OrderInv, SasLiftBegin PROVE OrderInv'
<1> USE LevelFacts, NameFacts
<1>1. /\ sas.pc = "begin" /\ sas'.pc = "extend" /\ sas'.highest = sas.highest
      /\ sas'.last = count[LiftQueue] /\ SasRuns
      /\ UNCHANGED <<count, slot, active, act, booted, timer_on, current_task, top_queue>>
  BY SasIs DEF SasLiftBegin, OrderInv, queueVars
<1>2. Lifting /\ Lifting'
  BY <1>1 DEF Lifting
<1>3. top_queue = Bottom
  BY <1>1 DEF OrderInv, SasAlone, Searches
<1>4. /\ BootOK' /\ BehindIsEmpty' /\ Distinct' /\ Present' /\ ActiveNames'
      /\ SasAlone'
  BY <1>1, <1>2, <1>3, QuietSas
<1>5. SasKnows'
  BY <1>1, <1>2 DEF OrderInv, SasKnows, InQueue, Holds, Queued
<1>6. QED
  BY <1>4, <1>5, SasLiftBegin_IInv DEF OrderInv

LEMMA SasLiftRaise_Order == ASSUME OrderInv, SasLiftRaise PROVE OrderInv'
<1> USE LevelFacts, NameFacts
<1>1. /\ sas.pc = "raise" /\ sas'.pc = "yield" /\ sas'.highest = None /\ SasRuns
      /\ UNCHANGED <<count, slot, active, act, booted, timer_on, current_task>>
  BY SasIs DEF SasLiftRaise, OrderInv
<1>2. ~ Lifting /\ ~ Lifting'
  BY <1>1 DEF Lifting
<1>3. /\ BootOK' /\ BehindIsEmpty' /\ Distinct' /\ Present' /\ ActiveNames'
      /\ SasAlone'
  BY <1>1, <1>2, QuietSas
<1>4. SasKnows'
  BY <1>1, <1>2 DEF SasKnows
<1>5. QED
  BY <1>3, <1>4, SasLiftRaise_IInv DEF OrderInv

-----------------------------------------------------------------------------
(* Steps of the maintenance task that change the queues.                    *)

(* While the timer runs the boot thread's part of the invariant is over.    *)
LEMMA BootIsOver ==
  ASSUME OrderInv, SasRuns, UNCHANGED <<timer_on, act, booted>>
  PROVE  BootOK' /\ Booted' = Booted /\ Booted \subseteq Tasks /\ act.pc = "idle"
<1>1. timer_on /\ act.pc = "idle" /\ booted = Len(BootOrder)
  BY DEF OrderInv, BootOK, SasRuns
<1>2. BootOK'
  BY <1>1 DEF BootOK
<1>3. Booted \subseteq Tasks
  BY <1>1, ShapeAssumption DEF Booted
<1>4. QED
  BY <1>1, <1>2, <1>3 DEF Booted

(* No task is in two live slots, except while a hole is being filled.       *)
LEMMA Apart ==
  ASSUME OrderInv, sas.pc # "clear",
         NEW l \in Levels, NEW m \in Levels, NEW i \in Slots, NEW j \in Slots,
         i <= count[l], j <= count[m], slot[l][i] = slot[m][j], slot[l][i] \in Tasks
  PROVE  l = m /\ i = j
  BY DEF OrderInv, Distinct

LEMMA SasFill_Order == ASSUME OrderInv, SasFill PROVE OrderInv'
<1> USE LevelFacts, NameFacts
<1>1. /\ sas.pc = "fill" /\ sas'.pc = "clear" /\ sas'.highest = sas.highest
      /\ sas'.at = sas.at /\ sas'.last = sas.last /\ SasRuns /\ timer_on
      /\ UNCHANGED <<count, active, act, booted, timer_on, current_task, top_queue>>
  BY SasIs DEF SasFill, OrderInv, SasRuns
<1>2. /\ sas.at \in Slots /\ sas.last \in Slots /\ sas.last = count[Bottom]
      /\ sas.at <= count[Bottom] /\ slot[Bottom][sas.at] \notin Tasks
  BY <1>1, Fields DEF OrderInv, IInv, SasOK, SasKnows, Erases, Slots
<1>3. \A l \in Levels : \A i \in Slots :
        slot'[l][i] = IF l = Bottom /\ i = sas.at THEN slot[Bottom][sas.last] ELSE slot[l][i]
  <2>1. slot \in [Levels -> [Slots -> Entries]]
    BY DEF OrderInv, IInv, TypeOK
  <2>2. slot' = [slot EXCEPT ![Bottom][sas.at] = slot[Bottom][sas.last]]
    BY DEF SasFill
  <2>3. QED
    BY <2>1, <2>2
<1>4. BootOK' /\ Booted' = Booted /\ Booted \subseteq Tasks /\ act.pc = "idle"
  BY <1>1, BootIsOver
<1>5. BehindIsEmpty'
  <2>1. \A l \in Levels : \A i \in Slots : ~ Pending(l, i)'
    BY <1>1, <1>4 DEF Pending
  <2>2. \A l \in Levels : \A i \in Slots : i > count[l] => slot'[l][i] = slot[l][i]
    <3>1. \A i \in Slots : i > count[Bottom] => i # sas.at
      BY <1>2 DEF Slots
    <3>2. QED
      BY <1>3, <3>1
  <2>3. QED
    BY <1>1, <2>1, <2>2 DEF OrderInv, BehindIsEmpty
<1>6. Distinct'
  <2>1. SUFFICES ASSUME NEW l \in Levels, NEW m \in Levels, NEW i \in Slots, NEW j \in Slots,
                        i <= count[l], j <= count[m],
                        slot'[l][i] = slot'[m][j], slot'[l][i] \in Tasks
                 PROVE  \/ l = m /\ i = j
                        \/ /\ l = Bottom /\ m = Bottom
                           /\ i \in {sas.at, sas.last} /\ j \in {sas.at, sas.last}
    BY <1>1 DEF Distinct
  <2>2. sas.pc # "clear" /\ sas.last <= count[Bottom]
    BY <1>1, <1>2 DEF Slots
  <2>3. CASE l = Bottom /\ i = sas.at
    <3>1. slot'[l][i] = slot[Bottom][sas.last]
      BY <1>3, <2>3
    <3>2. CASE m = Bottom /\ j = sas.at
      BY <2>3, <3>2
    <3>3. CASE ~ (m = Bottom /\ j = sas.at)
      <4>1. slot[m][j] = slot[Bottom][sas.last]
        BY <1>3, <2>1, <3>1, <3>3
      <4>2. m = Bottom /\ j = sas.last
        BY <1>2, <2>1, <2>2, <3>1, <4>1, Apart
      <4>3. QED
        BY <2>3, <4>2
    <3>4. QED
      BY <3>2, <3>3
  <2>4. CASE ~ (l = Bottom /\ i = sas.at)
    <3>1. slot'[l][i] = slot[l][i]
      BY <1>3, <2>4
    <3>2. CASE m = Bottom /\ j = sas.at
      <4>1. slot[l][i] = slot[Bottom][sas.last]
        BY <1>3, <2>1, <3>1, <3>2
      <4>2. l = Bottom /\ i = sas.last
        BY <1>2, <2>1, <2>2, <3>1, <4>1, Apart
      <4>3. QED
        BY <3>2, <4>2
    <3>3. CASE ~ (m = Bottom /\ j = sas.at)
      <4>1. slot[l][i] = slot[m][j] /\ slot[l][i] \in Tasks
        BY <1>3, <2>1, <3>1, <3>3
      <4>2. QED
        BY <2>1, <2>2, <4>1, Apart
    <3>4. QED
      BY <3>2, <3>3
  <2>5. QED
    BY <2>3, <2>4
<1>7. \A l \in Levels : \A t \in Tasks : InQueue(l, t) => InQueue(l, t)'
  BY <1>1, <1>2, <1>3 DEF InQueue, Holds
<1>8. Present'
  <2>1. ~ Lifting /\ ~ Lifting'
    BY <1>1 DEF Lifting
  <2>2. QED
    BY <1>4, <1>7, <2>1 DEF OrderInv, Present, Queued
<1>9. ActiveNames'
  <2>1. SUFFICES ASSUME NEW i \in Slots, NEW t \in Tasks, i <= count[Bottom],
                        slot'[Bottom][i] = t, slot'[Bottom][sas.last] # t
                 PROVE  active[t] = <<Bottom, i>>
    BY <1>1 DEF ActiveNames, Holds
  <2>2. slot'[Bottom][sas.last] = slot[Bottom][sas.last]
    BY <1>2, <1>3
  <2>3. slot[Bottom][i] = t
    BY <1>3, <2>1, <2>2
  <2>4. QED
    BY <1>1, <2>1, <2>3 DEF OrderInv, ActiveNames, Holds
<1>10. SasAlone'
  <2>1. \A l \in Levels \ {Bottom} : InQueue(l, Sas)' => InQueue(l, Sas)
    BY <1>1, <1>3 DEF InQueue, Holds
  <2>2. top_queue' = Bottom
    BY <1>1 DEF OrderInv, SasAlone, Searches
  <2>3. QED
    BY <1>1, <2>1, <2>2, AloneStep
<1>11. SasKnows'
  <2>1. ~ Lifting /\ ~ Lifting'
    BY <1>1 DEF Lifting
  <2>2. sas.highest # None => InQueue(Bottom, sas.highest)'
    BY <1>1, <1>7, <2>1 DEF OrderInv, SasKnows
  <2>3. sas'.highest # None => InQueue(Bottom, sas.highest)'
    BY <1>1, <2>2
  <2>4. /\ slot'[Bottom][sas.at] = slot'[Bottom][sas.last]
        /\ sas.at = sas.last => slot'[Bottom][sas.at] \notin Tasks
    BY <1>2, <1>3
  <2>5. QED
    BY <1>1, <1>2, <2>1, <2>3, <2>4 DEF OrderInv, SasKnows
<1>12. QED
  BY <1>4, <1>5, <1>6, <1>8, <1>9, <1>10, <1>11, SasFill_IInv DEF OrderInv

LEMMA SasClear_Order == ASSUME OrderInv, SasClear PROVE OrderInv'
<1> USE LevelFacts, NameFacts
<1>1. /\ sas.pc = "clear" /\ sas'.pc = "follow" /\ sas'.highest = sas.highest
      /\ sas'.at = sas.at /\ SasRuns /\ timer_on
      /\ UNCHANGED <<count, active, act, booted, timer_on, current_task, top_queue>>
  BY SasIs DEF SasClear, OrderInv, SasRuns
<1>2. /\ sas.at \in Slots /\ sas.last \in Slots /\ sas.last = count[Bottom]
      /\ sas.at <= count[Bottom] /\ slot[Bottom][sas.at] = slot[Bottom][sas.last]
      /\ sas.at = sas.last => slot[Bottom][sas.at] \notin Tasks
  BY <1>1, Fields DEF OrderInv, IInv, SasOK, SasKnows, Erases, Slots
<1>3. \A l \in Levels : \A i \in Slots :
        slot'[l][i] = IF l = Bottom /\ i = sas.last THEN Empty ELSE slot[l][i]
  <2>1. slot \in [Levels -> [Slots -> Entries]]
    BY DEF OrderInv, IInv, TypeOK
  <2>2. slot' = [slot EXCEPT ![Bottom][sas.last] = Empty]
    BY DEF SasClear
  <2>3. QED
    BY <1>2, <2>1, <2>2
<1>4. BootOK' /\ Booted' = Booted /\ Booted \subseteq Tasks /\ act.pc = "idle"
  BY <1>1, BootIsOver
<1>5. BehindIsEmpty'
  <2>1. \A l \in Levels : \A i \in Slots : Pending(l, i)' => l = Bottom /\ i = sas.last
    BY <1>1, <1>2, <1>4 DEF Pending
  <2>2. SUFFICES ASSUME NEW l \in Levels, NEW i \in Slots, i > count[l] \/ Pending(l, i)'
                 PROVE  slot'[l][i] = Empty
    BY <1>1 DEF BehindIsEmpty
  <2>3. i > count[l] => slot[l][i] = Empty
    BY DEF OrderInv, BehindIsEmpty
  <2>4. QED
    BY <1>3, <2>1, <2>2, <2>3
<1>6. Distinct'
  <2>1. SUFFICES ASSUME NEW l \in Levels, NEW m \in Levels, NEW i \in Slots, NEW j \in Slots,
                        i <= count[l], j <= count[m],
                        slot'[l][i] = slot'[m][j], slot'[l][i] \in Tasks
                 PROVE  l = m /\ i = j
    BY <1>1 DEF Distinct
  <2>2. ~ (l = Bottom /\ i = sas.last) /\ ~ (m = Bottom /\ j = sas.last)
    BY <1>3, <2>1
  <2>3. slot[l][i] = slot[m][j] /\ slot[l][i] \in Tasks
    BY <1>3, <2>1, <2>2
  <2>4. \/ l = m /\ i = j
        \/ /\ l = Bottom /\ m = Bottom
           /\ i \in {sas.at, sas.last} /\ j \in {sas.at, sas.last}
    BY <2>1, <2>3 DEF OrderInv, Distinct
  <2>5. QED
    BY <2>2, <2>4
<1>7. \A l \in Levels : \A t \in Tasks : InQueue(l, t) => InQueue(l, t)'
  <2>1. SUFFICES ASSUME NEW l \in Levels, NEW t \in Tasks, NEW i \in Slots,
                        i <= count[l], slot[l][i] = t
                 PROVE  \E j \in Slots : j <= count[l] /\ slot'[l][j] = t
    BY <1>1 DEF InQueue, Holds
  <2>2. CASE l = Bottom /\ i = sas.last
    <3>1. slot'[Bottom][sas.at] = t
      BY <1>2, <1>3, <2>1, <2>2
    <3>2. QED
      BY <1>2, <2>2, <3>1
  <2>3. CASE ~ (l = Bottom /\ i = sas.last)
    BY <1>3, <2>1, <2>3
  <2>4. QED
    BY <2>2, <2>3
<1>8. Present'
  <2>1. ~ Lifting /\ ~ Lifting'
    BY <1>1 DEF Lifting
  <2>2. QED
    BY <1>4, <1>7, <2>1 DEF OrderInv, Present, Queued
<1>9. ActiveNames'
  <2>1. SUFFICES ASSUME NEW i \in Slots, NEW t \in Tasks, i <= count[Bottom],
                        slot'[Bottom][i] = t, slot'[Bottom][sas.at] # t
                 PROVE  active[t] = <<Bottom, i>>
    BY <1>1 DEF ActiveNames, Holds
  <2>2. i # sas.last /\ slot[Bottom][i] = t
    BY <1>3, <2>1
  <2>3. slot[Bottom][sas.last] # t
    <3>1. SUFFICES ASSUME slot[Bottom][sas.last] = t PROVE FALSE
      OBVIOUS
    <3>2. sas.at # sas.last
      BY <1>2, <3>1
    <3>3. slot'[Bottom][sas.at] = t
      BY <1>2, <1>3, <3>1, <3>2
    <3>4. QED
      BY <2>1, <3>3
  <2>4. QED
    BY <1>1, <2>1, <2>2, <2>3 DEF OrderInv, ActiveNames, Holds
<1>10. SasAlone'
  <2>1. \A l \in Levels \ {Bottom} : InQueue(l, Sas)' => InQueue(l, Sas)
    BY <1>1, <1>3 DEF InQueue, Holds
  <2>2. top_queue' = Bottom
    BY <1>1 DEF OrderInv, SasAlone, Searches
  <2>3. QED
    BY <1>1, <2>1, <2>2, AloneStep
<1>11. SasKnows'
  <2>1. ~ Lifting /\ ~ Lifting'
    BY <1>1 DEF Lifting
  <2>2. sas.highest # None => InQueue(Bottom, sas.highest)'
    BY <1>1, <1>7, <2>1 DEF OrderInv, SasKnows
  <2>3. sas'.highest # None => InQueue(Bottom, sas.highest)'
    BY <1>1, <2>2
  <2>4. QED
    BY <1>1, <2>1, <2>3 DEF OrderInv, SasKnows
<1>12. QED
  BY <1>4, <1>5, <1>6, <1>8, <1>9, <1>10, <1>11, SasClear_IInv DEF OrderInv

(* In SasFollow's state no task is in two live slots, and the one that has  *)
(* just been moved is the only one whose word may not name its slot.        *)
LEMMA SasFollow_Order == ASSUME OrderInv, SasFollow PROVE OrderInv'
<1> USE LevelFacts, NameFacts
<1>1. /\ sas.pc = "follow" /\ sas'.pc = "load" /\ sas'.highest = sas.highest /\ SasRuns
      /\ UNCHANGED <<count, slot, act, booted, timer_on, current_task, top_queue>>
  BY SasIs DEF SasFollow, OrderInv
<1>2. sas.at \in Slots /\ sas.at <= count[Bottom] /\ timer_on
  BY <1>1 DEF OrderInv, IInv, SasOK, SasKnows, Erases, SasRuns
<1>3. BootOK' /\ Booted' = Booted /\ act.pc = "idle"
  BY <1>1, BootIsOver
<1>4. \A l \in Levels : \A i \in Slots : Pending(l, i)' => Pending(l, i)
  BY <1>1, <1>3 DEF Pending
<1>5. BehindIsEmpty'
  BY <1>1, <1>4 DEF OrderInv, BehindIsEmpty
<1>6. Distinct'
  BY <1>1 DEF OrderInv, Distinct
<1>7. \A l \in Levels : \A t : InQueue(l, t)' <=> InQueue(l, t)
  BY <1>1 DEF InQueue, Holds
<1>8. ~ Lifting /\ ~ Lifting'
  BY <1>1 DEF Lifting
<1>9. Present'
  BY <1>3, <1>7, <1>8 DEF OrderInv, Present, Queued
<1>10. ActiveNames'
  <2>1. SUFFICES ASSUME NEW i \in Slots, NEW t \in Tasks, i <= count[Bottom],
                        slot[Bottom][i] = t
                 PROVE  active'[t] = <<Bottom, i>>
    BY <1>1 DEF ActiveNames, Holds
  <2>2. active \in [Tasks -> Places \cup {None}]
    BY DEF OrderInv, IInv, TypeOK
  <2>3. CASE At = t
    <3>1. i = sas.at
      BY <1>1, <1>2, <2>1, <2>3, Apart DEF At
    <3>2. active' = [active EXCEPT ![t] = <<Bottom, sas.at>>]
      BY <2>3 DEF SasFollow
    <3>3. QED
      BY <2>2, <3>1, <3>2
  <2>4. CASE At # t
    <3>1. active[t] = <<Bottom, i>>
      BY <1>1, <2>1, <2>4 DEF OrderInv, ActiveNames, Holds, At
    <3>2. active'[t] = active[t]
      BY <2>2, <2>4 DEF SasFollow
    <3>3. QED
      BY <3>1, <3>2
  <2>5. QED
    BY <2>3, <2>4
<1>11. SasAlone'
  <2>1. top_queue' = Bottom
    BY <1>1 DEF OrderInv, SasAlone, Searches
  <2>2. QED
    BY <1>1, <1>7, <2>1, AloneStep
<1>12. SasKnows'
  BY <1>1, <1>7, <1>8 DEF OrderInv, SasKnows
<1>13. QED
  BY <1>3, <1>5, <1>6, <1>9, <1>10, <1>11, <1>12, SasFollow_IInv DEF OrderInv

LEMMA SasStore_Order == ASSUME OrderInv, SasStore PROVE OrderInv'
<1> USE LevelFacts, NameFacts
<1>1. /\ sas.pc = "store" /\ sas'.pc = "wrap" /\ sas'.highest = sas.highest
      /\ SasRuns /\ timer_on
      /\ UNCHANGED <<slot, active, act, booted, timer_on, current_task, top_queue>>
  BY SasIs DEF SasStore, OrderInv, SasRuns
<1>2. sas.last = count[Bottom] /\ count[Bottom] \in Slots
  BY <1>1, Fields DEF OrderInv, IInv, SasOK, SasKnows, Erases, Slots
<1>3. BootOK' /\ Booted' = Booted /\ Booted \subseteq Tasks /\ act.pc = "idle"
  BY <1>1, BootIsOver
<1>4. /\ \A l \in Levels : count[l] \in 0..PAGE
      /\ \A l \in Levels : count'[l] = IF l = Bottom THEN count[Bottom] - 1 ELSE count[l]
  BY <1>2 DEF SasStore, OrderInv, IInv, TypeOK
<1>5. slot[Bottom][count[Bottom]] = Empty
  BY <1>1, <1>2 DEF OrderInv, BehindIsEmpty, Pending
<1>6. BehindIsEmpty'
  <2>1. \A l \in Levels : \A i \in Slots : ~ Pending(l, i)'
    BY <1>1, <1>3 DEF Pending
  <2>2. SUFFICES ASSUME NEW l \in Levels, NEW i \in Slots, i > count'[l]
                 PROVE  slot[l][i] = Empty
    BY <1>1, <2>1 DEF BehindIsEmpty
  <2>3. i > count[l] \/ (l = Bottom /\ i = count[Bottom])
    BY <1>2, <1>4, <2>2 DEF Slots
  <2>4. QED
    BY <1>5, <2>3 DEF OrderInv, BehindIsEmpty
<1>7. \A l \in Levels : \A i \in Slots : i <= count'[l] => i <= count[l]
  BY <1>2, <1>4 DEF Slots
<1>8. Distinct'
  <2>1. sas.pc # "clear"
    BY <1>1
  <2>2. QED
    BY <1>1, <1>7, <2>1, Apart DEF Distinct
<1>9. \A l \in Levels : \A t \in Tasks : InQueue(l, t)' <=> InQueue(l, t)
  <2>1. SUFFICES ASSUME NEW l \in Levels, NEW t \in Tasks, NEW i \in Slots, slot[l][i] = t
                 PROVE  i <= count'[l] <=> i <= count[l]
    BY <1>1 DEF InQueue, Holds
  <2>2. ~ (l = Bottom /\ i = count[Bottom])
    BY <1>5, <2>1
  <2>3. QED
    BY <1>2, <1>4, <2>2 DEF Slots
<1>10. Present'
  <2>1. ~ Lifting /\ ~ Lifting'
    BY <1>1 DEF Lifting
  <2>2. QED
    BY <1>3, <1>9, <2>1 DEF OrderInv, Present, Queued
<1>11. ActiveNames'
  BY <1>1, <1>7 DEF OrderInv, ActiveNames, Holds
<1>12. SasAlone'
  <2>1. top_queue' = Bottom
    BY <1>1 DEF OrderInv, SasAlone, Searches
  <2>2. QED
    BY <1>1, <1>9, <2>1, AloneStep
<1>13. SasKnows'
  <2>1. ~ Lifting /\ ~ Lifting'
    BY <1>1 DEF Lifting
  <2>2. sas.highest # None => InQueue(Bottom, sas.highest)'
    BY <1>1, <1>9, <2>1 DEF OrderInv, SasKnows
  <2>3. sas'.highest # None => InQueue(Bottom, sas.highest)'
    BY <1>1, <2>2
  <2>4. QED
    BY <1>1, <2>1, <2>3 DEF OrderInv, SasKnows
<1>14. QED
  BY <1>3, <1>6, <1>8, <1>10, <1>11, <1>12, <1>13, SasStore_IInv DEF OrderInv

LEMMA SasVoid_Order == ASSUME OrderInv, SasVoid PROVE OrderInv'
<1> USE LevelFacts, NameFacts
<1>1. /\ sas.pc = "void" /\ sas'.pc = "begin" /\ sas'.highest = sas.highest
      /\ SasRuns /\ timer_on
      /\ UNCHANGED <<count, active, act, booted, timer_on, current_task, top_queue, void>>
  BY SasIs DEF SasVoid, OrderInv, SasRuns
<1>2. sas.highest \in Tasks /\ sas.highest # Sas /\ InQueue(Bottom, sas.highest)
  BY <1>1 DEF OrderInv, SasKnows, IInv, SasOK, Lifts, Lifting
<1>3. PICK k \in Slots : k <= count[Bottom] /\ slot[Bottom][k] = sas.highest
  BY <1>2 DEF InQueue, Holds
<1>4. sas.place = <<Bottom, k>>
  BY <1>1, <1>2, <1>3 DEF OrderInv, ActiveNames, SasKnows, Holds
<1>5. void \notin Tasks
  BY DEF OrderInv, IInv, TypeOK
<1>6. \A l \in Levels : \A i \in Slots :
        slot'[l][i] = IF l = Bottom /\ i = k THEN void ELSE slot[l][i]
  <2>1. slot \in [Levels -> [Slots -> Entries]]
    BY DEF OrderInv, IInv, TypeOK
  <2>2. sas.place # None
    BY <1>1 DEF OrderInv, IInv, SasOK
  <2>3. slot' = [slot EXCEPT ![Bottom][k] = void]
    BY <1>4, <2>2 DEF SasVoid
  <2>4. QED
    BY <2>1, <2>3
<1>7. BootOK' /\ Booted' = Booted /\ Booted \subseteq Tasks /\ act.pc = "idle"
  BY <1>1, BootIsOver
<1>8. BehindIsEmpty'
  <2>1. \A l \in Levels : \A i \in Slots : ~ Pending(l, i)'
    BY <1>1, <1>7 DEF Pending
  <2>2. \A l \in Levels : \A i \in Slots : i > count[l] => slot'[l][i] = slot[l][i]
    BY <1>3, <1>6 DEF OrderInv, IInv, TypeOK, Slots
  <2>3. QED
    BY <1>1, <2>1, <2>2 DEF OrderInv, BehindIsEmpty
<1>9. \A l \in Levels : \A i \in Slots : slot'[l][i] \in Tasks =>
        slot[l][i] = slot'[l][i] /\ ~ (l = Bottom /\ i = k)
  BY <1>5, <1>6
<1>10. Distinct'
  <2>1. sas.pc # "clear"
    BY <1>1
  <2>2. SUFFICES ASSUME NEW l \in Levels, NEW m \in Levels, NEW i \in Slots, NEW j \in Slots,
                        i <= count[l], j <= count[m],
                        slot'[l][i] = slot'[m][j], slot'[l][i] \in Tasks
                 PROVE  l = m /\ i = j
    BY <1>1 DEF Distinct
  <2>3. slot[l][i] = slot[m][j] /\ slot[l][i] \in Tasks
    BY <1>9, <2>2
  <2>4. QED
    BY <2>1, <2>2, <2>3, Apart
<1>11. \A l \in Levels : \A t \in Tasks \ {sas.highest} : InQueue(l, t) => InQueue(l, t)'
  BY <1>1, <1>3, <1>6 DEF InQueue, Holds
<1>12. Present'
  <2>1. ~ Lifting /\ Lifting'
    BY <1>1 DEF Lifting
  <2>2. \A t \in Booted : Queued(t)
    BY <2>1 DEF OrderInv, Present
  <2>3. \A t \in Booted : t = sas'.highest \/ Queued(t)'
    BY <1>1, <1>7, <1>11, <2>2 DEF Queued
  <2>4. QED
    BY <1>7, <2>1, <2>3 DEF Present
<1>13. ActiveNames'
  <2>1. SUFFICES ASSUME NEW i \in Slots, NEW t \in Tasks, i <= count[Bottom],
                        slot'[Bottom][i] = t
                 PROVE  active[t] = <<Bottom, i>>
    BY <1>1 DEF ActiveNames, Holds
  <2>2. slot[Bottom][i] = t
    BY <1>9, <2>1
  <2>3. QED
    BY <1>1, <2>1, <2>2 DEF OrderInv, ActiveNames, Holds
<1>14. SasAlone'
  <2>1. \A l \in Levels \ {Bottom} : InQueue(l, Sas)' => InQueue(l, Sas)
    BY <1>1, <1>6 DEF InQueue, Holds
  <2>2. top_queue' = Bottom
    BY <1>1 DEF OrderInv, SasAlone, Searches
  <2>3. QED
    BY <1>1, <2>1, <2>2, AloneStep
<1>15. SasKnows'
  <2>1. sas.pc # "clear"
    BY <1>1
  <2>2. ASSUME NEW l \in Levels, NEW i \in Slots, i <= count'[l], slot'[l][i] = sas.highest
        PROVE  FALSE
    <3>1. slot[l][i] = sas.highest /\ ~ (l = Bottom /\ i = k) /\ i <= count[l]
      BY <1>1, <1>2, <1>9, <2>2
    <3>2. QED
      BY <1>2, <1>3, <2>1, <3>1, Apart
  <2>3. ~ Queued(sas.highest)'
    BY <1>1, <2>2 DEF Queued, InQueue, Holds
  <2>4. QED
    BY <1>1, <1>2, <2>3 DEF SasKnows, Lifting
<1>16. QED
  BY <1>7, <1>8, <1>10, <1>12, <1>13, <1>14, <1>15, SasVoid_IInv DEF OrderInv

LEMMA SasLiftExtend_Order == ASSUME OrderInv, SasLiftExtend PROVE OrderInv'
<1> USE LevelFacts, NameFacts
<1>1. /\ sas.pc = "extend" /\ sas'.pc = "place" /\ sas'.highest = sas.highest
      /\ SasRuns /\ timer_on /\ sas.last < PAGE /\ sas.last = count[LiftQueue]
      /\ UNCHANGED <<slot, active, act, booted, timer_on, current_task, top_queue>>
  BY SasIs DEF SasLiftExtend, OrderInv, SasRuns, SasKnows
<1>2. /\ \A l \in Levels : count[l] \in 0..PAGE
      /\ \A l \in Levels : count'[l] = IF l = LiftQueue THEN count[l] + 1 ELSE count[l]
  BY <1>1 DEF SasLiftExtend, OrderInv, IInv, TypeOK
<1>3. BootOK' /\ Booted' = Booted /\ Booted \subseteq Tasks /\ act.pc = "idle"
  BY <1>1, BootIsOver
<1>4. count'[LiftQueue] \in Slots /\ slot[LiftQueue][count'[LiftQueue]] = Empty
  BY <1>1, <1>2 DEF OrderInv, BehindIsEmpty, Slots
<1>5. BehindIsEmpty'
  <2>1. \A l \in Levels : \A i \in Slots : Pending(l, i)' => l = LiftQueue /\ i = count'[LiftQueue]
    BY <1>1, <1>3 DEF Pending
  <2>2. SUFFICES ASSUME NEW l \in Levels, NEW i \in Slots, i > count'[l] \/ Pending(l, i)'
                 PROVE  slot[l][i] = Empty
    BY <1>1 DEF BehindIsEmpty
  <2>3. i > count'[l] => i > count[l]
    BY <1>2 DEF Slots
  <2>4. QED
    BY <1>4, <2>1, <2>2, <2>3 DEF OrderInv, BehindIsEmpty
<1>6. \A l \in Levels : \A i \in Slots :
        slot[l][i] \in Tasks => (i <= count'[l] <=> i <= count[l])
  <2>1. SUFFICES ASSUME NEW l \in Levels, NEW i \in Slots, slot[l][i] \in Tasks
                 PROVE  i <= count'[l] <=> i <= count[l]
    OBVIOUS
  <2>2. ~ (l = LiftQueue /\ i = count'[LiftQueue])
    BY <1>4, <2>1
  <2>3. QED
    BY <1>2, <2>2 DEF Slots
<1>7. Distinct'
  <2>1. sas.pc # "clear"
    BY <1>1
  <2>2. QED
    BY <1>1, <1>6, <2>1, Apart DEF Distinct
<1>8. \A l \in Levels : \A t \in Tasks : InQueue(l, t)' <=> InQueue(l, t)
  BY <1>1, <1>6 DEF InQueue, Holds
<1>9. \A t \in Tasks : Queued(t)' <=> Queued(t)
  BY <1>8 DEF Queued
<1>10. Present'
  <2>1. Lifting /\ Lifting'
    BY <1>1 DEF Lifting
  <2>2. QED
    BY <1>1, <1>3, <1>9, <2>1 DEF OrderInv, Present
<1>11. ActiveNames'
  BY <1>1, <1>6 DEF OrderInv, ActiveNames, Holds
<1>12. SasAlone'
  <2>1. top_queue' = Bottom
    BY <1>1 DEF OrderInv, SasAlone, Searches
  <2>2. QED
    BY <1>1, <1>8, <2>1, AloneStep
<1>13. SasKnows'
  <2>1. sas.highest \in Tasks \ {Sas} /\ ~ Queued(sas.highest)
    BY <1>1 DEF OrderInv, SasKnows, Lifting, IInv, SasOK, Lifts
  <2>2. ~ Queued(sas.highest)'
    BY <1>1, <1>9, <2>1 DEF Queued, InQueue, Holds
  <2>3. count'[LiftQueue] >= 1
    BY <1>4 DEF Slots
  <2>4. QED
    BY <1>1, <2>1, <2>2, <2>3 DEF SasKnows, Lifting
<1>14. QED
  BY <1>3, <1>5, <1>7, <1>10, <1>11, <1>12, <1>13, SasLiftExtend_IInv DEF OrderInv

LEMMA SasLiftPlace_Order == ASSUME OrderInv, SasLiftPlace PROVE OrderInv'
<1> USE LevelFacts, NameFacts
<1> DEFINE n == count[LiftQueue]
<1>1. /\ sas.pc = "place" /\ sas'.pc = "word" /\ sas'.highest = sas.highest
      /\ SasRuns /\ timer_on /\ n \in Slots
      /\ UNCHANGED <<count, active, act, booted, timer_on, current_task, top_queue>>
  BY SasIs DEF SasLiftPlace, OrderInv, SasRuns, Places
<1>2. sas.highest \in Tasks \ {Sas} /\ ~ Queued(sas.highest)
  BY <1>1 DEF OrderInv, SasKnows, Lifting, IInv, SasOK, Lifts
<1>3. \A l \in Levels : \A i \in Slots :
        slot'[l][i] = IF l = LiftQueue /\ i = n THEN sas.highest ELSE slot[l][i]
  <2>1. slot \in [Levels -> [Slots -> Entries]]
    BY DEF OrderInv, IInv, TypeOK
  <2>2. slot' = [slot EXCEPT ![LiftQueue][n] = sas.highest]
    BY DEF SasLiftPlace
  <2>3. QED
    BY <1>1, <1>2, <2>1, <2>2
<1>4. BootOK' /\ Booted' = Booted /\ Booted \subseteq Tasks /\ act.pc = "idle"
  BY <1>1, BootIsOver
<1>5. slot[LiftQueue][n] = Empty
  BY <1>1 DEF OrderInv, BehindIsEmpty, Pending
<1>6. \A l \in Levels : \A i \in Slots : i <= count[l] => slot[l][i] # sas.highest
  BY <1>2 DEF Queued, InQueue, Holds
<1>7. BehindIsEmpty'
  <2>1. \A l \in Levels : \A i \in Slots : ~ Pending(l, i)'
    BY <1>1, <1>4 DEF Pending
  <2>2. \A l \in Levels : \A i \in Slots : i > count[l] => slot'[l][i] = slot[l][i]
    BY <1>1, <1>3 DEF OrderInv, IInv, TypeOK, Slots
  <2>3. QED
    BY <1>1, <2>1, <2>2 DEF OrderInv, BehindIsEmpty
<1>8. Distinct'
  <2>1. sas.pc # "clear"
    BY <1>1
  <2>2. SUFFICES ASSUME NEW l \in Levels, NEW m \in Levels, NEW i \in Slots, NEW j \in Slots,
                        i <= count[l], j <= count[m],
                        slot'[l][i] = slot'[m][j], slot'[l][i] \in Tasks
                 PROVE  l = m /\ i = j
    BY <1>1 DEF Distinct
  <2>3. CASE slot'[l][i] = sas.highest
    <3>1. l = LiftQueue /\ i = n
      BY <1>3, <1>6, <2>2, <2>3
    <3>2. m = LiftQueue /\ j = n
      <4>1. slot'[m][j] = sas.highest
        BY <2>2, <2>3
      <4>2. slot[m][j] # sas.highest
        BY <1>6, <2>2
      <4>3. QED
        BY <1>3, <4>1, <4>2
    <3>3. QED
      BY <3>1, <3>2
  <2>4. CASE slot'[l][i] # sas.highest
    <3>1. slot[l][i] = slot[m][j] /\ slot[l][i] \in Tasks
      BY <1>3, <2>2, <2>4
    <3>2. QED
      BY <2>1, <2>2, <3>1, Apart
  <2>5. QED
    BY <2>3, <2>4
<1>9. \A l \in Levels : \A t \in Tasks : InQueue(l, t) => InQueue(l, t)'
  <2>1. SUFFICES ASSUME NEW l \in Levels, NEW t \in Tasks, NEW i \in Slots,
                        i <= count[l], slot[l][i] = t
                 PROVE  slot'[l][i] = t
    BY <1>1 DEF InQueue, Holds
  <2>2. ~ (l = LiftQueue /\ i = n)
    BY <1>5, <2>1
  <2>3. QED
    BY <1>3, <2>1, <2>2
<1>10. Present'
  <2>1. ~ Lifting'
    BY <1>1 DEF Lifting
  <2>2. \A t \in Booted : Queued(t) => Queued(t)'
    BY <1>4, <1>9 DEF Queued
  <2>3. slot'[LiftQueue][n] = sas.highest /\ n <= count'[LiftQueue]
    BY <1>1, <1>3 DEF Slots
  <2>4. \A t : t = sas.highest => Queued(t)'
    BY <1>1, <2>3 DEF Queued, InQueue, Holds
  <2>5. QED
    BY <1>4, <2>1, <2>2, <2>4 DEF OrderInv, Present
<1>11. ActiveNames'
  <2>1. SUFFICES ASSUME NEW i \in Slots, NEW t \in Tasks, i <= count[Bottom],
                        slot'[Bottom][i] = t
                 PROVE  active[t] = <<Bottom, i>>
    BY <1>1 DEF ActiveNames, Holds
  <2>2. slot[Bottom][i] = t
    <3>1. LiftQueue # Bottom
      BY ShapeAssumption DEF LiftQueue, Bottom
    <3>2. slot'[Bottom][i] = slot[Bottom][i]
      BY <1>3, <3>1
    <3>3. QED
      BY <2>1, <3>2
  <2>3. QED
    BY <1>1, <2>1, <2>2 DEF OrderInv, ActiveNames, Holds
<1>12. SasAlone'
  <2>1. \A l \in Levels \ {Bottom} : InQueue(l, Sas)' => InQueue(l, Sas)
    BY <1>1, <1>2, <1>3 DEF InQueue, Holds
  <2>2. top_queue' = Bottom
    BY <1>1 DEF OrderInv, SasAlone, Searches
  <2>3. QED
    BY <1>1, <2>1, <2>2, AloneStep
<1>13. SasKnows'
  <2>1. LiftQueue # Bottom
    BY ShapeAssumption DEF LiftQueue, Bottom
  <2>2. \A i \in Slots : i <= count[Bottom] => slot'[Bottom][i] # sas.highest
    BY <1>3, <1>6, <2>1
  <2>3. ~ InQueue(Bottom, sas.highest)'
    BY <1>1, <2>2 DEF InQueue, Holds
  <2>4. QED
    BY <1>1, <1>2, <2>3 DEF SasKnows, Lifting, InQueue, Holds
<1>14. QED
  BY <1>4, <1>7, <1>8, <1>10, <1>11, <1>12, <1>13, SasLiftPlace_IInv DEF OrderInv

LEMMA SasLiftWord_Order == ASSUME OrderInv, SasLiftWord PROVE OrderInv'
<1> USE LevelFacts, NameFacts
<1>1. /\ sas.pc = "word" /\ sas'.pc = "raise" /\ sas'.highest = sas.highest /\ SasRuns
      /\ UNCHANGED <<count, slot, act, booted, timer_on, current_task, top_queue>>
  BY SasIs DEF SasLiftWord, OrderInv
<1>2. sas.highest \in Tasks \ {Sas} /\ ~ InQueue(Bottom, sas.highest)
  BY <1>1 DEF OrderInv, SasKnows, IInv, SasOK, Lifts
<1>3. BootOK' /\ Booted' = Booted /\ act.pc = "idle"
  BY <1>1, BootIsOver
<1>4. BehindIsEmpty'
  <2>1. \A l \in Levels : \A i \in Slots : ~ Pending(l, i)'
    BY <1>1, <1>3 DEF Pending
  <2>2. QED
    BY <1>1, <2>1 DEF OrderInv, BehindIsEmpty
<1>5. Distinct'
  BY <1>1 DEF OrderInv, Distinct
<1>6. \A l \in Levels : \A t : InQueue(l, t)' <=> InQueue(l, t)
  BY <1>1 DEF InQueue, Holds
<1>7. ~ Lifting /\ ~ Lifting'
  BY <1>1 DEF Lifting
<1>8. Present'
  BY <1>3, <1>6, <1>7 DEF OrderInv, Present, Queued
<1>9. ActiveNames'
  <2>1. SUFFICES ASSUME NEW i \in Slots, NEW t \in Tasks, i <= count[Bottom],
                        slot[Bottom][i] = t
                 PROVE  active'[t] = <<Bottom, i>>
    BY <1>1 DEF ActiveNames, Holds
  <2>2. t # sas.highest
    BY <1>2, <2>1 DEF InQueue, Holds
  <2>3. active \in [Tasks -> Places \cup {None}]
    BY DEF OrderInv, IInv, TypeOK
  <2>4. active'[t] = active[t]
    BY <2>2, <2>3 DEF SasLiftWord
  <2>5. active[t] = <<Bottom, i>>
    BY <1>1, <2>1 DEF OrderInv, ActiveNames, Holds
  <2>6. QED
    BY <2>4, <2>5
<1>10. SasAlone'
  <2>1. top_queue' = Bottom
    BY <1>1 DEF OrderInv, SasAlone, Searches
  <2>2. QED
    BY <1>1, <1>6, <2>1, AloneStep
<1>11. SasKnows'
  BY <1>1, <1>2, <1>7 DEF SasKnows
<1>12. QED
  BY <1>3, <1>4, <1>5, <1>8, <1>9, <1>10, <1>11, SasLiftWord_IInv DEF OrderInv

-----------------------------------------------------------------------------
(* The boot thread: it activates the tasks before anything is dispatched.   *)

LEMMA QueueAboveBottom == \A t \in Tasks : QueueOf(t) \in Levels /\ QueueOf(t) # Bottom
<1>1. SUFFICES ASSUME NEW t \in Tasks PROVE QueueOf(t) \in Levels /\ QueueOf(t) # Bottom
  OBVIOUS
<1>2. Priority[t] \in 1..TOTAL_QUEUES /\ TOTAL_QUEUES \in Nat
  BY ShapeAssumption
<1>3. QED
  BY <1>2 DEF QueueOf, Bottom, Levels

LEMMA BootedTasks == ASSUME IInv PROVE Booted \subseteq Tasks
<1>1. SUFFICES ASSUME NEW k \in 1..booted PROVE BootOrder[k] \in Tasks
  BY DEF Booted
<1>2. booted \in 0..Len(BootOrder) /\ Len(BootOrder) \in Nat
  BY LenFact DEF IInv, TypeOK
<1>3. k \in 1..Len(BootOrder)
  BY <1>1, <1>2
<1>4. BootOrder \in Seq(Tasks)
  BY ShapeAssumption
<1>5. QED
  BY <1>3, <1>4

(* Before the timer starts the bottom queue is empty.                       *)
LEMMA BottomUnused ==
  ASSUME IInv, BootOK, ~ timer_on
  PROVE  \A i \in Slots : ~ (i <= count[Bottom])
<1> USE LevelFacts, NameFacts
<1>1. act.pc # "idle" => act.task \in Tasks
  BY DEF IInv, ActOK
<1>2. Booted \subseteq Tasks
  BY BootedTasks
<1>3. SUFFICES ASSUME NEW i \in Slots, i <= count[Bottom] PROVE FALSE
  OBVIOUS
<1>4. \/ act.pc = "place" /\ Bottom = QueueOf(act.task)
      \/ /\ slot[Bottom][i] \in Booted \/ (act.pc = "raise" /\ slot[Bottom][i] = act.task)
         /\ Bottom = QueueOf(slot[Bottom][i])
  BY <1>3 DEF BootOK
<1>5. QED
  BY <1>1, <1>2, <1>4, QueueAboveBottom

(* So what is said of the maintenance task and of the bottom queue holds.   *)
LEMMA BootAlone ==
  ASSUME BootWorkload, IInv, BootOK, BehindIsEmpty, ~ timer_on
  PROVE  SasAlone /\ SasKnows /\ ActiveNames
<1> USE LevelFacts, NameFacts
<1>1. current_task = Boot /\ sas = SasStart /\ \A i \in Slots : ~ (i <= count[Bottom])
  BY BottomUnused DEF BootOK
<1>2. sas.pc = "scan" /\ sas.highest = None
  BY <1>1 DEF SasStart
<1>3. \A l \in Levels \ {Bottom} : InQueue(l, Sas) => l = Bottom - 1
  <2>1. SUFFICES ASSUME NEW l \in Levels, NEW i \in Slots, i <= count[l], slot[l][i] = Sas
                 PROVE  l = Bottom - 1
    BY DEF InQueue, Holds
  <2>2. ~ (act.pc = "place" /\ l = QueueOf(act.task) /\ i = count[l])
    BY <2>1 DEF BehindIsEmpty, Pending
  <2>3. l = QueueOf(Sas)
    BY <2>1, <2>2 DEF BootOK
  <2>4. QED
    BY <2>3 DEF BootWorkload, QueueOf, Bottom
<1>4. SasAlone
  BY <1>1, <1>2, <1>3 DEF SasAlone, Searches
<1>5. SasKnows
  BY <1>2 DEF SasKnows, Lifting
<1>6. ActiveNames
  BY <1>1 DEF ActiveNames, Holds
<1>7. QED
  BY <1>4, <1>5, <1>6

LEMMA BootAloneNext ==
  BootWorkload /\ IInv' /\ BootOK' /\ BehindIsEmpty' /\ ~ timer_on'
    => SasAlone' /\ SasKnows' /\ ActiveNames'
<1>1. BootWorkload /\ IInv /\ BootOK /\ BehindIsEmpty /\ ~ timer_on
        => SasAlone /\ SasKnows /\ ActiveNames
  BY BootAlone
<1>2. BootWorkload => BootWorkload'
  OBVIOUS
<1>3. QED
  BY <1>1, <1>2, PTL

LEMMA InitOrder == ASSUME BootWorkload, Init PROVE OrderInv
<1> USE LevelFacts, NameFacts
<1>1. /\ \A l \in Levels : count[l] = 0
      /\ \A l \in Levels : \A i \in Slots : slot[l][i] = Empty
      /\ act.pc = "idle" /\ booted = 0 /\ ~ timer_on /\ current_task = Boot
      /\ sas = SasStart
  BY DEF Init, SasStart
<1>2. \A l \in Levels : \A i \in Slots : ~ (i <= count[l])
  BY <1>1 DEF Slots
<1>3. BootOK
  BY <1>1, <1>2 DEF BootOK
<1>4. BehindIsEmpty /\ Distinct
  BY <1>1, <1>2 DEF BehindIsEmpty, Distinct
<1>5. Present
  BY <1>1 DEF Present, Booted
<1>6. IInv
  BY InitIInv
<1>7. QED
  BY <1>1, <1>3, <1>4, <1>5, <1>6, BootAlone DEF OrderInv

(* Only the boot thread activates, and only before the timer starts.        *)
LEMMA BootThread ==
  ASSUME BootWorkload, OrderInv
  PROVE  /\ act.pc # "idle" => ~ timer_on
         /\ \A t \in Tasks : MayActivate(t) => ~ timer_on
         /\ ~ timer_on => sas.pc = "scan"
<1>1. act.pc # "idle" => ~ timer_on
  BY DEF OrderInv, BootOK
<1>2. \A t \in Tasks : MayActivate(t) => ~ timer_on
  BY DEF MayActivate, BootWorkload
<1>3. ~ timer_on => sas.pc = "scan"
  BY DEF OrderInv, BootOK, SasStart
<1>4. QED
  BY <1>1, <1>2, <1>3

LEMMA ActivateBegin_Order ==
  ASSUME BootWorkload, OrderInv, NEW t \in Tasks, ActivateBegin(t) PROVE OrderInv'
<1> USE LevelFacts, NameFacts
<1>1. /\ act.pc = "idle" /\ ~ timer_on /\ sas.pc = "scan" /\ t = BootOrder[booted + 1]
      /\ UNCHANGED <<count, slot, booted, timer_on, current_task, sas>>
  BY BootThread DEF ActivateBegin, queueVars, MayActivate
<1>2. act' = [pc |-> "extend", task |-> t, n |-> count[QueueOf(t)]]
  BY DEF ActivateBegin
<1>3. BootOK'
  BY <1>1, <1>2 DEF OrderInv, BootOK, Booted, QueueOf
<1>4. BehindIsEmpty'
  BY <1>1, <1>2 DEF OrderInv, BehindIsEmpty, Pending
<1>5. Distinct'
  BY <1>1 DEF OrderInv, Distinct
<1>6. Present'
  BY <1>1 DEF OrderInv, Present, Booted, Queued, InQueue, Holds, Lifting
<1>7. QED
  BY <1>1, <1>3, <1>4, <1>5, <1>6, BootAloneNext, ActivateBegin_IInv DEF OrderInv

LEMMA ActivateExtend_Order ==
  ASSUME BootWorkload, OrderInv, ActivateExtend PROVE OrderInv'
<1> USE LevelFacts, NameFacts
<1> DEFINE q == QueueOf(act.task)
<1>1. /\ act.pc = "extend" /\ ~ timer_on /\ sas.pc = "scan" /\ act.n = count[q]
      /\ act.n < PAGE
      /\ UNCHANGED <<slot, booted, timer_on, current_task, sas>>
  BY BootThread DEF ActivateExtend, OrderInv, BootOK
<1>2. /\ act.task \in Tasks /\ q \in Levels
      /\ act'.pc = "place" /\ act'.task = act.task
  BY <1>1 DEF ActivateExtend, OrderInv, IInv, TypeOK, ActOK
<1>3. /\ \A l \in Levels : count[l] \in 0..PAGE
      /\ \A l \in Levels : count'[l] = IF l = q THEN count[l] + 1 ELSE count[l]
  BY <1>1, <1>2 DEF ActivateExtend, OrderInv, IInv, TypeOK
<1>4. count'[q] \in Slots /\ slot[q][count'[q]] = Empty
  BY <1>1, <1>2, <1>3 DEF OrderInv, BehindIsEmpty, Slots
<1>5. BehindIsEmpty'
  <2>1. \A l \in Levels : \A i \in Slots : Pending(l, i)' => l = q /\ i = count'[q]
    BY <1>1, <1>2 DEF Pending, QueueOf
  <2>2. SUFFICES ASSUME NEW l \in Levels, NEW i \in Slots, i > count'[l] \/ Pending(l, i)'
                 PROVE  slot[l][i] = Empty
    BY <1>1 DEF BehindIsEmpty
  <2>3. i > count'[l] => i > count[l]
    BY <1>3 DEF Slots
  <2>4. QED
    BY <1>4, <2>1, <2>2, <2>3 DEF OrderInv, BehindIsEmpty
<1>6. \A l \in Levels : \A i \in Slots :
        i <= count'[l] => i <= count[l] \/ (l = q /\ i = count'[q])
  BY <1>3 DEF Slots
<1>7. \A l \in Levels : \A i \in Slots :
        slot[l][i] \in Tasks => (i <= count'[l] <=> i <= count[l])
  <2>1. \A l \in Levels : \A i \in Slots : i <= count[l] => i <= count'[l]
    BY <1>3 DEF Slots
  <2>2. QED
    BY <1>4, <1>6, <2>1
<1>8. BootOK'
  <2>1. \A l \in Levels : \A i \in Slots : i <= count[l] =>
          slot[l][i] \in Booted /\ l = QueueOf(slot[l][i])
    BY <1>1 DEF OrderInv, BootOK
  <2>2. \A l \in Levels : \A i \in Slots : i <= count'[l] =>
          \/ l = q /\ i = count'[l]
          \/ slot[l][i] \in Booted /\ l = QueueOf(slot[l][i])
    BY <1>6, <2>1
  <2>3. current_task' = Boot /\ sas' = SasStart /\ act.task = BootOrder[booted + 1]
    BY <1>1 DEF OrderInv, BootOK
  <2>4. count'[q] >= 1
    BY <1>4 DEF Slots
  <2>5. QED
    BY <1>1, <1>2, <2>2, <2>3, <2>4 DEF BootOK, Booted, QueueOf
<1>9. Distinct'
  BY <1>1, <1>7 DEF OrderInv, Distinct
<1>10. \A l \in Levels : \A t \in Tasks : InQueue(l, t)' <=> InQueue(l, t)
  BY <1>1, <1>7 DEF InQueue, Holds
<1>11. Present'
  <2>1. \A t \in Booted : Queued(t)
    BY <1>1 DEF OrderInv, Present, Lifting
  <2>2. \A t \in Booted : Queued(t)'
    BY <1>10, <2>1, BootedTasks DEF Queued, OrderInv
  <2>3. QED
    BY <1>1, <2>2 DEF Present, Booted
<1>12. QED
  BY <1>1, <1>5, <1>8, <1>9, <1>11, BootAloneNext, ActivateExtend_IInv DEF OrderInv

(* The task being activated has not been activated before.                  *)
LEMMA ActivatedOnce ==
  ASSUME BootWorkload, OrderInv, act.pc # "idle"
  PROVE  act.task \in Tasks /\ booted + 1 \in 1..Len(BootOrder) /\ act.task \notin Booted
<1>1. act.task \in Tasks /\ booted < Len(BootOrder) /\ act.task = BootOrder[booted + 1]
  BY BootThread DEF OrderInv, IInv, ActOK, BootOK
<1>2. booted \in 0..Len(BootOrder) /\ Len(BootOrder) \in Nat
  BY LenFact DEF OrderInv, IInv, TypeOK
<1>3. booted + 1 \in 1..Len(BootOrder)
  BY <1>1, <1>2
<1>4. ASSUME NEW k \in 1..booted, BootOrder[k] = act.task
      PROVE  FALSE
  <2>1. k \in 1..Len(BootOrder) /\ k # booted + 1
    BY <1>2
  <2>2. QED
    BY <1>1, <1>3, <1>4, <2>1 DEF BootWorkload
<1>5. QED
  BY <1>1, <1>3, <1>4 DEF Booted

LEMMA ActivatePlace_Order ==
  ASSUME BootWorkload, OrderInv, ActivatePlace PROVE OrderInv'
<1> USE LevelFacts, NameFacts
<1> DEFINE q == QueueOf(act.task)
           n == count[q]
<1>1. /\ act.pc = "place" /\ ~ timer_on /\ sas.pc = "scan" /\ n \in Slots
      /\ UNCHANGED <<count, booted, timer_on, current_task, sas>>
  BY BootThread DEF ActivatePlace
<1>2. /\ act.task \in Tasks /\ q \in Levels /\ act.task \notin Booted
      /\ act'.pc = "raise" /\ act'.task = act.task
  BY <1>1, ActivatedOnce DEF ActivatePlace, OrderInv, IInv, TypeOK
<1>3. \A l \in Levels : \A i \in Slots :
        slot'[l][i] = IF l = q /\ i = n THEN act.task ELSE slot[l][i]
  <2>1. slot \in [Levels -> [Slots -> Entries]]
    BY DEF OrderInv, IInv, TypeOK
  <2>2. slot' = [slot EXCEPT ![q][n] = act.task]
    BY DEF ActivatePlace
  <2>3. QED
    BY <1>1, <1>2, <2>1, <2>2
<1>4. slot[q][n] = Empty
  BY <1>1, <1>2 DEF OrderInv, BehindIsEmpty, Pending
<1>5. \A l \in Levels : \A i \in Slots : i <= count[l] /\ ~ (l = q /\ i = n) =>
        slot[l][i] \in Booted /\ l = QueueOf(slot[l][i])
  BY <1>1 DEF OrderInv, BootOK
<1>6. \A l \in Levels : \A i \in Slots : i <= count[l] => slot[l][i] # act.task
  BY <1>2, <1>4, <1>5
<1>7. BootOK'
  <2>1. \A l \in Levels : \A i \in Slots : i <= count[l] =>
          /\ slot'[l][i] \in Booted \/ slot'[l][i] = act.task
          /\ l = QueueOf(slot'[l][i])
    BY <1>3, <1>5
  <2>2. current_task' = Boot /\ sas' = SasStart /\ act.task = BootOrder[booted + 1]
    BY <1>1 DEF OrderInv, BootOK
  <2>3. slot'[q][n] = act.task /\ n <= count'[q]
    BY <1>1, <1>2, <1>3 DEF Slots
  <2>4. InQueue(q, act.task)'
    BY <1>1, <1>2, <2>3 DEF InQueue, Holds, QueueOf
  <2>5. QED
    BY <1>1, <1>2, <2>1, <2>2, <2>4 DEF BootOK, Booted, QueueOf
<1>8. BehindIsEmpty'
  <2>1. \A l \in Levels : \A i \in Slots : ~ Pending(l, i)'
    BY <1>1, <1>2 DEF Pending
  <2>2. \A l \in Levels : \A i \in Slots : i > count[l] => slot'[l][i] = slot[l][i]
    BY <1>1, <1>3 DEF OrderInv, IInv, TypeOK, Slots
  <2>3. QED
    BY <1>1, <2>1, <2>2 DEF OrderInv, BehindIsEmpty
<1>9. Distinct'
  <2>1. SUFFICES ASSUME NEW l \in Levels, NEW m \in Levels, NEW i \in Slots, NEW j \in Slots,
                        i <= count[l], j <= count[m],
                        slot'[l][i] = slot'[m][j], slot'[l][i] \in Tasks
                 PROVE  l = m /\ i = j
    BY <1>1 DEF Distinct
  <2>2. CASE slot'[l][i] = act.task
    <3>1. l = q /\ i = n
      BY <1>3, <1>6, <2>1, <2>2
    <3>2. slot'[m][j] = act.task /\ slot[m][j] # act.task
      BY <1>6, <2>1, <2>2
    <3>3. m = q /\ j = n
      BY <1>3, <3>2
    <3>4. QED
      BY <3>1, <3>3
  <2>3. CASE slot'[l][i] # act.task
    <3>1. slot[l][i] = slot[m][j] /\ slot[l][i] \in Tasks
      BY <1>3, <2>1, <2>3
    <3>2. QED
      BY <1>1, <2>1, <3>1, Apart
  <2>4. QED
    BY <2>2, <2>3
<1>10. \A l \in Levels : \A t \in Tasks : InQueue(l, t) => InQueue(l, t)'
  <2>1. SUFFICES ASSUME NEW l \in Levels, NEW t \in Tasks, NEW i \in Slots,
                        i <= count[l], slot[l][i] = t
                 PROVE  slot'[l][i] = t
    BY <1>1 DEF InQueue, Holds
  <2>2. ~ (l = q /\ i = n)
    BY <1>4, <2>1
  <2>3. QED
    BY <1>3, <2>1, <2>2
<1>11. Present'
  <2>1. \A t \in Booted : Queued(t)
    BY <1>1 DEF OrderInv, Present, Lifting
  <2>2. \A t \in Booted : Queued(t)'
    BY <1>10, <2>1, BootedTasks DEF Queued, OrderInv
  <2>3. QED
    BY <1>1, <2>2 DEF Present, Booted
<1>12. QED
  BY <1>1, <1>7, <1>8, <1>9, <1>11, BootAloneNext, ActivatePlace_IInv DEF OrderInv

LEMMA ActivateRaise_Order ==
  ASSUME BootWorkload, OrderInv, ActivateRaise PROVE OrderInv'
<1> USE LevelFacts, NameFacts
<1> DEFINE q == QueueOf(act.task)
<1>1. /\ act.pc = "raise" /\ ~ timer_on /\ sas.pc = "scan" /\ act'.pc = "idle"
      /\ booted' = booted + 1 /\ act.task = BootOrder[booted + 1]
      /\ UNCHANGED <<count, slot, timer_on, current_task, sas>>
  BY BootThread DEF ActivateRaise, OrderInv, BootOK
<1>2. booted \in 0..Len(BootOrder) /\ booted + 1 \in 1..Len(BootOrder) /\ Len(BootOrder) \in Nat
  BY <1>1, ActivatedOnce, LenFact DEF OrderInv, IInv, TypeOK
<1>3. Booted' = Booted \cup {act.task}
  <2>1. 1..(booted + 1) = 1..booted \cup {booted + 1}
    BY <1>2
  <2>2. QED
    BY <1>1, <2>1 DEF Booted
<1>4. BootOK'
  <2>1. \A l \in Levels : \A i \in Slots : i <= count[l] =>
          slot[l][i] \in Booted \cup {act.task} /\ l = QueueOf(slot[l][i])
    BY <1>1 DEF OrderInv, BootOK
  <2>2. current_task' = Boot /\ sas' = SasStart
    BY <1>1 DEF OrderInv, BootOK
  <2>3. \A l \in Levels : \A i \in Slots : i <= count'[l] =>
          slot'[l][i] \in Booted' /\ l = QueueOf(slot'[l][i])
    BY <1>1, <1>3, <2>1
  <2>4. QED
    BY <1>1, <2>2, <2>3 DEF BootOK
<1>5. BehindIsEmpty'
  BY <1>1 DEF OrderInv, BehindIsEmpty, Pending
<1>6. Distinct'
  BY <1>1 DEF OrderInv, Distinct
<1>7. Present'
  <2>1. q \in Levels /\ InQueue(q, act.task)
    BY <1>1, ActivatedOnce DEF OrderInv, BootOK
  <2>2. \A t \in Booted : Queued(t)
    BY <1>1 DEF OrderInv, Present, Lifting
  <2>3. \A t \in Booted' : Queued(t)
    BY <1>3, <2>1, <2>2 DEF Queued
  <2>4. \A t \in Booted' : Queued(t)'
    BY <1>1, <2>3 DEF Queued, InQueue, Holds
  <2>5. QED
    BY <2>4 DEF Present
<1>8. QED
  BY <1>1, <1>4, <1>5, <1>6, <1>7, BootAloneNext, ActivateRaise_IInv DEF OrderInv

LEMMA StartTimer_Order == ASSUME OrderInv, StartTimer PROVE OrderInv'
<1>1. /\ timer_on' /\ act.pc = "idle" /\ booted = Len(BootOrder)
      /\ UNCHANGED <<count, slot, top_queue, active, act, booted, current_task, sas, halted>>
  BY DEF StartTimer, queueVars
<1>2. BootOK'
  BY <1>1 DEF BootOK
<1>3. BehindIsEmpty' /\ Distinct'
  BY <1>1 DEF OrderInv, BehindIsEmpty, Distinct, Pending
<1>4. Present'
  <2>1. Booted' = Booted /\ Lifting' = Lifting /\ UNCHANGED sas
    BY <1>1 DEF Booted, Lifting
  <2>2. \A t \in Booted : Queued(t)' <=> Queued(t)
    BY <1>1 DEF Queued, InQueue, Holds
  <2>3. QED
    BY <2>1, <2>2 DEF OrderInv, Present
<1>5. ActiveNames'
  BY <1>1 DEF OrderInv, ActiveNames, Holds
<1>6. SasAlone'
  BY <1>1 DEF OrderInv, SasAlone, InQueue, Holds
<1>7. SasKnows'
  BY <1>1 DEF OrderInv, SasKnows, Queued, InQueue, Holds, Lifting
<1>8. QED
  BY <1>2, <1>3, <1>4, <1>6, <1>7, <1>5, StartTimer_IInv DEF OrderInv

-----------------------------------------------------------------------------
(* The dispatcher.                                                          *)

(* What a dispatch leaves alone of the maintenance task.                    *)
Dispatches ==
  /\ timer_on
  /\ \/ sas' = sas
     \/ sas.pc = "yield" /\ sas' = [sas EXCEPT !.pc = "scan"]

LEMMA DispatchedSas ==
  ASSUME OrderInv, Dispatches
  PROVE  /\ Lifting' <=> Lifting
         /\ sas'.highest = sas.highest /\ sas'.at = sas.at /\ sas'.last = sas.last
         /\ sas'.place = sas.place
         /\ sas'.pc = sas.pc \/ (sas.pc = "yield" /\ sas'.pc = "scan")
         /\ sas = SasStart => sas' = SasStart
         /\ act.pc = "idle" /\ booted = Len(BootOrder)
<1>1. act.pc = "idle" /\ booted = Len(BootOrder)
  BY DEF OrderInv, BootOK, Dispatches
<1>2. CASE sas' = sas
  BY <1>1, <1>2 DEF Lifting
<1>3. CASE sas.pc = "yield" /\ sas' = [sas EXCEPT !.pc = "scan"]
  <2>1. /\ sas'.pc = "scan" /\ sas'.highest = sas.highest /\ sas'.at = sas.at
        /\ sas'.last = sas.last /\ sas'.place = sas.place
    BY <1>3, SasIs DEF OrderInv
  <2>2. sas # SasStart
    BY <1>3 DEF SasStart
  <2>3. QED
    BY <1>1, <1>3, <2>1, <2>2 DEF Lifting
<1>4. QED
  BY <1>2, <1>3 DEF Dispatches

(* What it knows of the queues stays true if they do not change.            *)
LEMMA DispatchedKnows ==
  ASSUME OrderInv, Dispatches, UNCHANGED <<count, slot>>,
         sas.pc = "void" => active'[sas.highest] = active[sas.highest]
  PROVE  SasKnows'
<1> DEFINE h == sas.highest
<1>1. ASSUME Lifting'
      PROVE  ~ Queued(sas.highest)'
  <2>1. ~ Queued(h)
    BY <1>1, DispatchedSas DEF OrderInv, SasKnows
  <2>2. \A l \in Levels : \A i \in Slots : ~ (i <= count[l] /\ slot[l][i] = h)
    BY <2>1 DEF Queued, InQueue, Holds
  <2>3. \A l \in Levels : \A i \in Slots : ~ (i <= count'[l] /\ slot'[l][i] = sas'.highest)
    BY <2>2, DispatchedSas
  <2>4. QED
    BY <2>3 DEF Queued, InQueue, Holds
<1>2. ASSUME sas'.highest # None, ~ Lifting', sas'.pc \notin {"word", "raise"}
      PROVE  InQueue(Bottom, sas.highest)'
  <2>1. InQueue(Bottom, h)
    BY <1>2, DispatchedSas DEF OrderInv, SasKnows
  <2>2. QED
    BY <2>1, DispatchedSas DEF InQueue, Holds
<1>3. sas'.highest # None => sas'.highest \in Tasks \ {Sas}
  BY DispatchedSas DEF OrderInv, SasKnows
<1>4. /\ sas'.pc \in {"fill", "clear", "store"} => sas'.last = count'[Bottom]
      /\ sas'.pc \in {"look", "age", "hole", "fill", "clear", "follow"} =>
           sas'.at <= count'[Bottom]
      /\ sas'.pc \in {"hole", "fill"} => slot'[Bottom][sas'.at] \notin Tasks
      /\ sas'.pc = "age" => slot'[Bottom][sas'.at] \in Tasks
      /\ sas'.pc = "clear" =>
           /\ slot'[Bottom][sas'.at] = slot'[Bottom][sas'.last]
           /\ sas'.at = sas'.last => slot'[Bottom][sas'.at] \notin Tasks
      /\ sas'.pc = "extend" => sas'.last = count'[LiftQueue]
      /\ sas'.pc = "place" => count'[LiftQueue] >= 1
  BY DispatchedSas DEF OrderInv, SasKnows
<1>5. sas'.pc = "void" => sas'.place = active'[sas'.highest]
  BY DispatchedSas DEF OrderInv, SasKnows
<1>6. sas'.pc = "word" => ~ InQueue(Bottom, sas.highest)'
  BY DispatchedSas DEF OrderInv, SasKnows, InQueue, Holds
<1>7. QED
  BY <1>1, <1>2, <1>3, <1>4, <1>5, <1>6 DEF SasKnows

LEMMA ScheduleBottom_Order ==
  ASSUME OrderInv, Dispatches, ScheduleBottom PROVE OrderInv'
<1> USE LevelFacts, NameFacts
<1>1. PICK i \in Slots : /\ slot[Bottom][i] \in Tasks /\ current_task' = slot[Bottom][i]
                         /\ active' = [active EXCEPT ![slot[Bottom][i]] = <<Bottom, i>>]
  BY DEF ScheduleBottom
<1>2. /\ UNCHANGED <<count, slot, top_queue, act, booted, timer_on>>
      /\ timer_on /\ top_queue = Bottom
  BY DEF ScheduleBottom, DispatchFrame, Dispatches
<1>3. /\ active \in [Tasks -> Places \cup {None}]
      /\ count \in [Levels -> 0..PAGE]
  BY DEF OrderInv, IInv, TypeOK
<1>4. i <= count[Bottom]
  <2>1. ~ (i > count[Bottom])
    BY <1>1 DEF OrderInv, BehindIsEmpty
  <2>2. i \in Nat /\ count[Bottom] \in Nat
    BY <1>3 DEF Slots
  <2>3. QED
    BY <2>1, <2>2
<1>5. BootOK'
  BY <1>2, DispatchedSas DEF BootOK
<1>6. BehindIsEmpty'
  BY <1>2, DispatchedSas DEF OrderInv, BehindIsEmpty, Pending
<1>7. Distinct'
  BY <1>2, DispatchedSas DEF OrderInv, Distinct
<1>8. \A l \in Levels : \A t \in Tasks : InQueue(l, t)' <=> InQueue(l, t)
  BY <1>2 DEF InQueue, Holds
<1>9. \A t \in Tasks : Queued(t)' <=> Queued(t)
  BY <1>8 DEF Queued
<1>10. Present'
  <2>1. Booted' = Booted /\ Booted \subseteq Tasks
    BY <1>2, BootedTasks DEF Booted, OrderInv
  <2>2. QED
    BY <1>9, <2>1, DispatchedSas DEF OrderInv, Present
<1>11. ActiveNames'
  <2>1. SUFFICES ASSUME NEW j \in Slots, NEW t \in Tasks, j <= count[Bottom],
                        slot[Bottom][j] = t, ~ (sas'.pc = "clear" /\ slot[Bottom][sas.last] = t),
                        ~ (sas'.pc = "follow" /\ slot[Bottom][sas.at] = t)
                 PROVE  active'[t] = <<Bottom, j>>
    BY <1>2, DispatchedSas DEF ActiveNames, Holds
  <2>2. (sas'.pc = "clear" <=> sas.pc = "clear") /\ (sas'.pc = "follow" <=> sas.pc = "follow")
    BY DispatchedSas
  <2>3. CASE t # slot[Bottom][i]
    <3>1. active[t] = <<Bottom, j>>
      BY <2>1, <2>2 DEF OrderInv, ActiveNames, Holds
    <3>2. QED
      BY <1>1, <1>3, <2>3, <3>1
  <2>4. CASE t = slot[Bottom][i]
    <3>1. i = j \/ (sas.pc = "clear" /\ i \in {sas.at, sas.last} /\ j \in {sas.at, sas.last})
      BY <1>4, <2>1, <2>4 DEF OrderInv, Distinct
    <3>2. sas.pc = "clear" => slot[Bottom][sas.at] = slot[Bottom][sas.last]
      BY DEF OrderInv, SasKnows
    <3>3. i = j
      BY <2>1, <2>2, <2>4, <3>1, <3>2
    <3>4. QED
      BY <1>1, <1>3, <2>1, <2>4, <3>3
  <2>5. QED
    BY <2>3, <2>4
<1>12. SasAlone'
  <2>1. ASSUME NEW l \in Levels \ {Bottom}, InQueue(l, Sas)
        PROVE  slot[Bottom][i] # Sas
    <3>1. PICK j \in Slots : j <= count[l] /\ slot[l][j] = Sas
      BY <2>1 DEF InQueue, Holds
    <3>2. sas.pc # "clear"
      BY <2>1 DEF OrderInv, SasAlone, SasStart
    <3>3. QED
      BY <1>4, <3>1, <3>2, Apart
  <2>2. sas'.pc \notin Searches \cup {"yield"} => sas.pc \notin Searches \cup {"yield"}
    BY DispatchedSas DEF Searches
  <2>3. ASSUME NEW l \in Levels \ {Bottom}, InQueue(l, Sas)'
        PROVE  /\ l = Bottom - 1 /\ sas' = SasStart /\ current_task' # Sas
               /\ \A j \in Slots : j <= count[Bottom] => slot[Bottom][j] \in Tasks
    BY <1>1, <1>8, <2>1, <2>3, DispatchedSas DEF OrderInv, SasAlone, Searches
  <2>4. QED
    BY <1>2, <2>2, <2>3 DEF SasAlone
<1>13. SasKnows'
  <2>1. ASSUME sas.pc = "void"
        PROVE  active'[sas.highest] = active[sas.highest]
    <3>1. CASE slot[Bottom][i] = sas.highest
      <4>1. active[sas.highest] = <<Bottom, i>>
        BY <1>1, <1>4, <2>1, <3>1 DEF OrderInv, ActiveNames, Holds
      <4>2. QED
        BY <1>1, <1>3, <3>1, <4>1
    <3>2. CASE slot[Bottom][i] # sas.highest
      <4>1. sas.highest \in Tasks
        BY <2>1 DEF OrderInv, IInv, SasOK, Lifts
      <4>2. QED
        BY <1>1, <1>3, <3>2, <4>1
    <3>3. QED
      BY <3>1, <3>2
  <2>2. QED
    BY <1>2, <2>1, DispatchedKnows
<1>14. IInv'
  BY DispatchKeeps DEF OrderInv, Dispatches, Schedule
<1>15. QED
  BY <1>5, <1>6, <1>7, <1>10, <1>11, <1>12, <1>13, <1>14 DEF OrderInv

LEMMA ScheduleNoTask_Order ==
  ASSUME OrderInv, Dispatches, ScheduleNoTask PROVE OrderInv'
<1> USE LevelFacts, NameFacts
<1>1. /\ UNCHANGED <<count, slot, top_queue, active, current_task, act, booted, timer_on>>
      /\ timer_on /\ halted'
  BY DEF ScheduleNoTask, queueVars, DispatchFrame, Dispatches
<1>2. BootOK'
  BY <1>1, DispatchedSas DEF BootOK
<1>3. BehindIsEmpty' /\ Distinct'
  BY <1>1, DispatchedSas DEF OrderInv, BehindIsEmpty, Pending, Distinct
<1>4. \A l \in Levels : \A t : InQueue(l, t)' <=> InQueue(l, t)
  BY <1>1 DEF InQueue, Holds
<1>5. \A t : Queued(t)' <=> Queued(t)
  BY <1>4 DEF Queued
<1>6. Present'
  <2>1. Booted' = Booted
    BY <1>1 DEF Booted
  <2>2. QED
    BY <1>5, <2>1, DispatchedSas DEF OrderInv, Present
<1>7. ActiveNames'
  BY <1>1, DispatchedSas DEF OrderInv, ActiveNames, Holds
<1>8. SasAlone'
  BY <1>1, <1>4, DispatchedSas DEF OrderInv, SasAlone, Searches
<1>9. SasKnows'
  BY <1>1, DispatchedKnows
<1>10. IInv'
  BY DispatchKeeps DEF OrderInv, Dispatches, Schedule
<1>11. QED
  BY <1>2, <1>3, <1>6, <1>7, <1>8, <1>9, <1>10 DEF OrderInv

(* What the move of a task to the queue below is sure to find.              *)
Sized ==
  /\ count \in [Levels -> 0..PAGE] /\ slot \in [Levels -> [Slots -> Entries]]
  /\ active \in [Tasks -> Places \cup {None}] /\ top_queue \in Levels

LEMMA SizedByType == IInv => Sized
  BY DEF IInv, TypeOK, Sized

(* The first task of the top queue goes behind the last of the queue below, *)
(* and the last of the top queue takes its slot.                            *)
SteppedDown ==
  LET below == top_queue + 1
      c == count[top_queue]
      n == count[below] + 1 IN
  /\ top_queue # Bottom /\ slot[top_queue][1] \in Tasks /\ c \in Slots /\ n \in Slots
  /\ \A l \in Levels : count'[l] = IF l = below THEN n
                                   ELSE IF l = top_queue THEN c - 1 ELSE count[l]
  /\ \A l \in Levels : \A i \in Slots :
       slot'[l][i] = IF l = below /\ i = n THEN slot[top_queue][1]
                     ELSE IF l = top_queue /\ i = c THEN Empty
                     ELSE IF l = top_queue /\ i = 1 THEN slot[top_queue][c]
                     ELSE slot[l][i]
  /\ current_task' = slot[top_queue][1]
  /\ \A t \in Tasks : active'[t] = IF t = slot[top_queue][1] THEN <<below, n>> ELSE active[t]
  /\ UNCHANGED <<act, booted, timer_on>>

LEMMA StepFirstDownIs ==
  ASSUME Sized, top_queue # Bottom, count[top_queue] \in Slots,
         NEW rest \in [Slots -> Entries], StepFirstDown(rest),
         \A i \in Slots : rest[i] = IF i = count[top_queue] THEN Empty
                                    ELSE IF i = 1 THEN slot[top_queue][count[top_queue]]
                                    ELSE slot[top_queue][i]
  PROVE  SteppedDown
<1> USE LevelFacts, NameFacts
<1> DEFINE below == top_queue + 1
           c == count[top_queue]
           n == count[below] + 1
           first == slot[top_queue][1]
<1>1. /\ count \in [Levels -> 0..PAGE] /\ slot \in [Levels -> [Slots -> Entries]]
      /\ active \in [Tasks -> Places \cup {None}] /\ top_queue \in Levels /\ below \in Levels
  BY DEF Sized
<1>2. below # top_queue
  BY <1>1 DEF Levels
<1>3. /\ first \in Tasks /\ n \in Slots
      /\ count' = [count EXCEPT ![top_queue] = @ - 1, ![below] = n]
      /\ slot' = [slot EXCEPT ![below][n] = first, ![top_queue] = rest]
      /\ current_task' = first
      /\ active' = [active EXCEPT ![first] = <<below, n>>]
      /\ UNCHANGED <<act, booted, timer_on>>
  BY DEF StepFirstDown, DispatchFrame
<1>4. \A l \in Levels : count'[l] = IF l = below THEN n
                                    ELSE IF l = top_queue THEN c - 1 ELSE count[l]
  BY <1>1, <1>2, <1>3
<1>5. \A l \in Levels : \A i \in Slots :
        slot'[l][i] = IF l = below /\ i = n THEN first
                      ELSE IF l = top_queue THEN rest[i] ELSE slot[l][i]
  BY <1>1, <1>2, <1>3
<1>6. \A l \in Levels : \A i \in Slots :
        slot'[l][i] = IF l = below /\ i = n THEN first
                      ELSE IF l = top_queue /\ i = c THEN Empty
                      ELSE IF l = top_queue /\ i = 1 THEN slot[top_queue][c]
                      ELSE slot[l][i]
  BY <1>2, <1>5
<1>7. \A t \in Tasks : active'[t] = IF t = first THEN <<below, n>> ELSE active[t]
  BY <1>1, <1>3
<1>8. QED
  BY <1>3, <1>4, <1>6, <1>7 DEF SteppedDown

LEMMA GeneralIs ==
  ASSUME Sized, ScheduleGeneral \/ ScheduleStepDown
  PROVE  SteppedDown /\ top_queue' \in {top_queue, top_queue + 1}
<1> USE LevelFacts, NameFacts
<1> DEFINE q == slot[top_queue]
           c == count[top_queue]
<1>1. 1 \in Slots /\ q \in [Slots -> Entries] /\ Empty \in Entries
  BY DEF Sized, Slots, Entries
<1>2. CASE ScheduleGeneral
  <2> DEFINE rest == [q EXCEPT ![1] = q[c], ![c] = Empty]
  <2>1. top_queue # Bottom /\ c \in Slots /\ c # 1 /\ StepFirstDown(rest)
        /\ top_queue' = top_queue
    BY <1>2 DEF ScheduleGeneral
  <2>2. rest \in [Slots -> Entries]
    BY <1>1, <2>1
  <2>3. \A i \in Slots : rest[i] = IF i = c THEN Empty ELSE IF i = 1 THEN q[c] ELSE q[i]
    BY <1>1, <2>1
  <2> HIDE DEF rest
  <2>4. QED
    BY <2>1, <2>2, <2>3, StepFirstDownIs
<1>3. CASE ScheduleStepDown
  <2> DEFINE rest == [q EXCEPT ![1] = Empty]
  <2>1. top_queue # Bottom /\ c = 1 /\ StepFirstDown(rest) /\ top_queue' = top_queue + 1
    BY <1>3 DEF ScheduleStepDown
  <2>2. rest \in [Slots -> Entries]
    BY <1>1
  <2>3. \A i \in Slots : rest[i] = IF i = c THEN Empty ELSE IF i = 1 THEN q[c] ELSE q[i]
    BY <1>1, <2>1
  <2> HIDE DEF rest
  <2>4. QED
    BY <1>1, <2>1, <2>2, <2>3, StepFirstDownIs
<1>4. QED
  BY <1>2, <1>3

(* Where the entry of a live slot was before the step.                      *)
FromQueue(l, i) ==
  IF l = top_queue + 1 /\ i = count[top_queue + 1] + 1 THEN top_queue ELSE l
FromSlot(l, i) ==
  IF l = top_queue + 1 /\ i = count[top_queue + 1] + 1 THEN 1
  ELSE IF l = top_queue /\ i = 1 THEN count[top_queue] ELSE i

LEMMA SteppedTypes ==
  ASSUME Sized, SteppedDown
  PROVE  /\ \A k \in Levels : count[k] \in Nat
         /\ top_queue \in Levels /\ top_queue + 1 \in Levels /\ top_queue + 1 # top_queue
         /\ 1 \in Slots /\ count[top_queue] \in Slots /\ count[top_queue] \in Nat
         /\ count[top_queue + 1] + 1 \in Slots /\ top_queue # Bottom
<1>1. count[top_queue] \in Slots /\ count[top_queue + 1] + 1 \in Slots /\ top_queue # Bottom
  BY DEF SteppedDown
<1>2. top_queue \in Levels /\ count \in [Levels -> 0..PAGE]
  BY DEF Sized
<1>3. top_queue + 1 \in Levels
  BY <1>1, <1>2, LevelFacts
<1>4. 1 \in Slots /\ Slots \subseteq Nat
  BY LevelFacts DEF Slots
<1>5. top_queue + 1 # top_queue
  BY <1>2, LevelFacts DEF Levels
<1>6. \A k \in Levels : count[k] \in Nat
  BY <1>2, LevelFacts
<1>7. QED
  BY <1>1, <1>2, <1>3, <1>4, <1>5, <1>6

LEMMA SteppedFrom ==
  ASSUME Sized, SteppedDown, NEW l \in Levels, NEW i \in Slots, i <= count'[l]
  PROVE  /\ FromQueue(l, i) \in Levels /\ FromSlot(l, i) \in Slots
         /\ FromSlot(l, i) <= count[FromQueue(l, i)]
         /\ slot'[l][i] = slot[FromQueue(l, i)][FromSlot(l, i)]
         /\ l # top_queue + 1 => FromQueue(l, i) = l
         /\ l = top_queue => i < count[top_queue]
<1> USE LevelFacts, NameFacts
<1> DEFINE below == top_queue + 1
           c == count[top_queue]
           n == count[below] + 1
<1>1. /\ \A k \in Levels : count[k] \in Nat
      /\ top_queue \in Levels /\ below \in Levels /\ below # top_queue
      /\ 1 \in Slots /\ c \in Slots /\ n \in Slots
  BY SteppedTypes
<1>2. /\ count'[l] = IF l = below THEN n ELSE IF l = top_queue THEN c - 1 ELSE count[l]
      /\ slot'[l][i] = IF l = below /\ i = n THEN slot[top_queue][1]
                       ELSE IF l = top_queue /\ i = c THEN Empty
                       ELSE IF l = top_queue /\ i = 1 THEN slot[top_queue][c]
                       ELSE slot[l][i]
  BY DEF SteppedDown
<1>3. CASE l = below /\ i = n
  <2>1. FromQueue(l, i) = top_queue /\ FromSlot(l, i) = 1 /\ slot'[l][i] = slot[top_queue][1]
    BY <1>2, <1>3 DEF FromQueue, FromSlot
  <2>2. 1 <= count[top_queue]
    BY <1>1 DEF Slots
  <2>3. QED
    BY <1>1, <1>3, <2>1, <2>2
<1>4. CASE l = below /\ i # n
  <2>1. FromQueue(l, i) = l /\ FromSlot(l, i) = i /\ slot'[l][i] = slot[l][i]
    BY <1>1, <1>2, <1>4 DEF FromQueue, FromSlot
  <2>2. i <= count[l]
    BY <1>1, <1>2, <1>4 DEF Slots
  <2>3. QED
    BY <1>1, <1>4, <2>1, <2>2
<1>5. CASE l = top_queue
  <2>1. i < c
    BY <1>1, <1>2, <1>5 DEF Slots
  <2>2. FromQueue(l, i) = l /\ FromSlot(l, i) = IF i = 1 THEN c ELSE i
    BY <1>1, <1>5 DEF FromQueue, FromSlot
  <2>3. i # c /\ i <= c /\ c <= c
    BY <1>1, <2>1 DEF Slots
  <2>4. slot'[l][i] = slot[l][IF i = 1 THEN c ELSE i]
    BY <1>1, <1>2, <1>5, <2>3
  <2>5. QED
    BY <1>1, <1>5, <2>1, <2>2, <2>3, <2>4
<1>6. CASE l # below /\ l # top_queue
  BY <1>2, <1>6 DEF FromQueue, FromSlot
<1>7. QED
  BY <1>3, <1>4, <1>5, <1>6

(* No two live slots got the same entry.                                    *)
LEMMA SteppedApart ==
  ASSUME Sized, SteppedDown, NEW l \in Levels, NEW m \in Levels,
         NEW i \in Slots, NEW j \in Slots, i <= count'[l], j <= count'[m],
         FromQueue(l, i) = FromQueue(m, j), FromSlot(l, i) = FromSlot(m, j)
  PROVE  l = m /\ i = j
<1> DEFINE below == top_queue + 1
           c == count[top_queue]
           n == count[below] + 1
<1>1. below # top_queue /\ c \in Nat
  BY SteppedTypes
<1>2. l = top_queue => i < c
  BY SteppedFrom
<1>3. m = top_queue => j < c
  BY SteppedFrom
<1>4. l = below /\ i = n <=> m = below /\ j = n
  <2>1. ASSUME NEW k \in Levels, NEW h \in Slots, k = top_queue => h < c,
               FromQueue(k, h) = top_queue, FromSlot(k, h) = 1
        PROVE  k = below /\ h = n
    BY <1>1, <2>1 DEF FromQueue, FromSlot, Slots
  <2>2. l = below /\ i = n => FromQueue(l, i) = top_queue /\ FromSlot(l, i) = 1
    BY DEF FromQueue, FromSlot
  <2>3. m = below /\ j = n => FromQueue(m, j) = top_queue /\ FromSlot(m, j) = 1
    BY DEF FromQueue, FromSlot
  <2>4. QED
    BY <1>2, <1>3, <2>1, <2>2, <2>3
<1>5. CASE l = below /\ i = n
  BY <1>4, <1>5
<1>6. CASE ~ (l = below /\ i = n)
  <2>1. l = m
    BY <1>4, <1>6 DEF FromQueue
  <2>2. /\ FromSlot(l, i) = IF l = top_queue /\ i = 1 THEN c ELSE i
        /\ FromSlot(m, j) = IF m = top_queue /\ j = 1 THEN c ELSE j
    BY <1>4, <1>6 DEF FromSlot
  <2>3. QED
    BY <1>1, <1>2, <1>3, <2>1, <2>2 DEF Slots
<1>7. QED
  BY <1>5, <1>6

(* Every task that was queued still is, in the bottom queue in its slot.    *)
LEMMA SteppedKeeps ==
  ASSUME IInv, SteppedDown
  PROVE  /\ \A t \in Tasks : Queued(t) => Queued(t)'
         /\ \A i \in Slots : i <= count[Bottom] =>
              i <= count'[Bottom] /\ slot'[Bottom][i] = slot[Bottom][i]
<1> USE LevelFacts, NameFacts
<1> DEFINE below == top_queue + 1
           c == count[top_queue]
           n == count[below] + 1
<1>1. /\ \A k \in Levels : count[k] \in Nat
      /\ top_queue \in Levels /\ below \in Levels /\ below # top_queue
      /\ 1 \in Slots /\ c \in Slots /\ n \in Slots /\ top_queue # Bottom
  BY SteppedTypes, SizedByType
<1>2. /\ \A l \in Levels : count'[l] = IF l = below THEN n
                                       ELSE IF l = top_queue THEN c - 1 ELSE count[l]
      /\ \A l \in Levels : \A i \in Slots :
           slot'[l][i] = IF l = below /\ i = n THEN slot[top_queue][1]
                         ELSE IF l = top_queue /\ i = c THEN Empty
                         ELSE IF l = top_queue /\ i = 1 THEN slot[top_queue][c]
                         ELSE slot[l][i]
  BY DEF SteppedDown
<1>3. \A l \in Levels \ {top_queue} : \A i \in Slots : i <= count[l] =>
        i <= count'[l] /\ slot'[l][i] = slot[l][i]
  BY <1>1, <1>2 DEF Slots
<1>4. ASSUME NEW t \in Tasks, Queued(t)
      PROVE  \E l \in Levels : \E i \in Slots : i <= count'[l] /\ slot'[l][i] = t
  <2>1. PICK l \in Levels, i \in Slots : i <= count[l] /\ slot[l][i] = t
    BY <1>4 DEF Queued, InQueue, Holds
  <2>2. CASE l # top_queue
    BY <1>3, <2>1, <2>2
  <2>3. CASE l = top_queue /\ i = 1
    <3>1. slot'[below][n] = t /\ n <= count'[below]
      BY <1>1, <1>2, <2>1, <2>3 DEF Slots
    <3>2. QED
      BY <1>1, <3>1
  <2>4. CASE l = top_queue /\ i # 1 /\ i = c
    <3>1. 1 # c /\ 1 <= c - 1 /\ count'[top_queue] = c - 1
      BY <1>1, <1>2, <2>4 DEF Slots
    <3>2. slot'[top_queue][1] = slot[top_queue][c]
      BY <1>1, <1>2, <3>1
    <3>3. QED
      BY <1>1, <2>1, <2>4, <3>1, <3>2
  <2>5. CASE l = top_queue /\ i # 1 /\ i # c
    <3>1. slot'[top_queue][i] = t
      BY <1>1, <1>2, <2>1, <2>5
    <3>2. i <= c - 1 /\ count'[top_queue] = c - 1
      BY <1>1, <1>2, <2>1, <2>5 DEF Slots
    <3>3. QED
      BY <1>1, <3>1, <3>2
  <2>6. QED
    BY <2>2, <2>3, <2>4, <2>5
<1>5. \A t \in Tasks : Queued(t) => Queued(t)'
  BY <1>4 DEF Queued, InQueue, Holds
<1>6. QED
  BY <1>1, <1>3, <1>5

LEMMA SteppedDown_Order ==
  ASSUME OrderInv, Dispatches, SteppedDown, IInv', top_queue' \in {top_queue, top_queue + 1}
  PROVE  OrderInv'
<1> USE LevelFacts, NameFacts
<1> DEFINE below == top_queue + 1
           c == count[top_queue]
           n == count[below] + 1
           first == slot[top_queue][1]
<1>1. /\ IInv /\ top_queue \in Levels /\ below \in Levels /\ below # top_queue
      /\ 1 \in Slots /\ c \in Slots /\ n \in Slots /\ c \in Nat /\ top_queue # Bottom
      /\ \A k \in Levels : count[k] \in Nat
  BY SteppedTypes, SizedByType DEF OrderInv
<1>2. /\ first \in Tasks /\ current_task' = first /\ timer_on
      /\ \A t \in Tasks : active'[t] = IF t = first THEN <<below, n>> ELSE active[t]
      /\ UNCHANGED <<act, booted, timer_on>>
  BY DEF SteppedDown, Dispatches
<1>3. sas.pc \in Searches \cup {"yield"} /\ ~ Lifting
  BY <1>1 DEF OrderInv, SasAlone, Searches, Lifting
<1>4. sas'.pc \in Searches \cup {"yield"} /\ ~ Lifting' /\ act'.pc = "idle"
  BY <1>2, <1>3, DispatchedSas DEF Lifting, Searches
<1>5. 1 <= c
  BY <1>1 DEF Slots
<1>6. BootOK'
  BY <1>2, DispatchedSas DEF BootOK
<1>7. BehindIsEmpty'
  <2>1. \A l \in Levels : \A i \in Slots : ~ Pending(l, i)'
    BY <1>4 DEF Pending, Searches
  <2>2. /\ \A l \in Levels : count'[l] = IF l = below THEN n
                                         ELSE IF l = top_queue THEN c - 1 ELSE count[l]
        /\ \A l \in Levels : \A i \in Slots :
             slot'[l][i] = IF l = below /\ i = n THEN first
                           ELSE IF l = top_queue /\ i = c THEN Empty
                           ELSE IF l = top_queue /\ i = 1 THEN slot[top_queue][c]
                           ELSE slot[l][i]
    BY DEF SteppedDown
  <2>3. SUFFICES ASSUME NEW l \in Levels, NEW i \in Slots, i > count'[l]
                 PROVE  slot'[l][i] = Empty
    BY <2>1 DEF BehindIsEmpty
  <2>4. i > count[l] => slot[l][i] = Empty
    BY DEF OrderInv, BehindIsEmpty
  <2>5. CASE l = below
    <3>1. i # n /\ i > count[l]
      BY <1>1, <2>2, <2>3, <2>5 DEF Slots
    <3>2. QED
      BY <1>1, <2>2, <2>4, <2>5, <3>1
  <2>6. CASE l = top_queue
    <3>1. i = c \/ (i > c /\ i # 1)
      BY <1>1, <1>5, <2>2, <2>3, <2>6 DEF Slots
    <3>2. QED
      BY <1>1, <2>2, <2>4, <2>6, <3>1
  <2>7. CASE l # below /\ l # top_queue
    BY <2>2, <2>3, <2>4, <2>7
  <2>8. QED
    BY <2>5, <2>6, <2>7
<1>8. Distinct'
  <2>1. SUFFICES ASSUME NEW l \in Levels, NEW m \in Levels, NEW i \in Slots, NEW j \in Slots,
                        i <= count'[l], j <= count'[m],
                        slot'[l][i] = slot'[m][j], slot'[l][i] \in Tasks
                 PROVE  l = m /\ i = j
    BY DEF Distinct
  <2>2. FromQueue(l, i) = FromQueue(m, j) /\ FromSlot(l, i) = FromSlot(m, j)
    BY <1>1, <1>3, <2>1, SteppedFrom, SizedByType, Apart DEF Searches
  <2>3. QED
    BY <1>1, <2>1, <2>2, SteppedApart, SizedByType
<1>9. Present'
  <2>1. Booted' = Booted /\ Booted \subseteq Tasks
    BY <1>1, <1>2, BootedTasks DEF Booted
  <2>2. \A t \in Booted : Queued(t)
    BY <1>3 DEF OrderInv, Present
  <2>3. \A t \in Booted : Queued(t)'
    BY <1>1, <2>1, <2>2, SteppedKeeps
  <2>4. QED
    BY <2>1, <2>3 DEF Present
<1>10. \A i \in Slots : i <= count'[Bottom] =>
         \/ below = Bottom /\ i = n /\ slot'[Bottom][i] = first
         \/ i <= count[Bottom] /\ slot'[Bottom][i] = slot[Bottom][i]
  <2>1. SUFFICES ASSUME NEW i \in Slots, i <= count'[Bottom], ~ (below = Bottom /\ i = n)
                 PROVE  i <= count[Bottom] /\ slot'[Bottom][i] = slot[Bottom][i]
    <3>1. below = Bottom => slot'[Bottom][n] = first
      BY <1>1 DEF SteppedDown
    <3>2. QED
      BY <3>1
  <2>2. FromQueue(Bottom, i) = Bottom /\ FromSlot(Bottom, i) = i
    BY <1>1, <2>1 DEF FromQueue, FromSlot
  <2>3. QED
    BY <1>1, <2>1, <2>2, SteppedFrom, SizedByType
<1>11. \A i \in Slots : i <= count[Bottom] => slot[Bottom][i] # first
  BY <1>1, <1>2, <1>3, <1>5, Apart DEF Searches
<1>12. ActiveNames'
  <2>1. SUFFICES ASSUME NEW i \in Slots, NEW t \in Tasks, i <= count'[Bottom],
                        slot'[Bottom][i] = t
                 PROVE  active'[t] = <<Bottom, i>>
    BY DEF ActiveNames, Holds
  <2>2. CASE below = Bottom /\ i = n /\ slot'[Bottom][i] = first
    BY <1>2, <2>1, <2>2
  <2>3. CASE i <= count[Bottom] /\ slot'[Bottom][i] = slot[Bottom][i]
    <3>1. t # first
      BY <1>11, <2>1, <2>3
    <3>2. active[t] = <<Bottom, i>>
      BY <1>3, <2>1, <2>3 DEF OrderInv, ActiveNames, Holds, Searches
    <3>3. QED
      BY <1>2, <3>1, <3>2
  <2>4. QED
    BY <1>10, <2>1, <2>2, <2>3
<1>13. first = Sas =>
         /\ below = Bottom /\ sas = SasStart
         /\ \A i \in Slots : i <= count[Bottom] => slot[Bottom][i] \in Tasks
  <2>1. SUFFICES ASSUME first = Sas
                 PROVE  InQueue(top_queue, Sas)
    BY <1>1 DEF OrderInv, SasAlone, Levels
  <2>2. QED
    BY <1>1, <1>5, <2>1 DEF InQueue, Holds
<1>14. SasAlone'
  <2>1. ASSUME NEW l \in Levels \ {Bottom}, NEW i \in Slots, i <= count'[l], slot'[l][i] = Sas
        PROVE  InQueue(l, Sas) /\ first # Sas
    <3>1. ~ (l = below /\ i = n)
      <4>1. l = below /\ i = n => slot'[l][i] = first
        BY <1>1 DEF SteppedDown
      <4>2. QED
        BY <1>13, <2>1, <4>1
    <3>2. FromQueue(l, i) = l
      BY <3>1 DEF FromQueue
    <3>3. FromSlot(l, i) \in Slots /\ FromSlot(l, i) <= count[l] /\ slot[l][FromSlot(l, i)] = Sas
      BY <1>1, <2>1, <3>2, SteppedFrom, SizedByType
    <3>4. InQueue(l, Sas)
      BY <3>3 DEF InQueue, Holds
    <3>5. ASSUME first = Sas
          PROVE  FALSE
      <4>1. l = top_queue /\ FromSlot(l, i) = 1
        BY <1>1, <1>3, <1>5, <3>3, <3>5, Apart DEF Searches
      <4>2. i < c
        BY <1>1, <2>1, <4>1, SteppedFrom, SizedByType
      <4>3. QED
        BY <1>1, <3>1, <4>1, <4>2 DEF FromSlot, Slots
    <3>6. QED
      BY <3>4, <3>5
  <2>2. ASSUME \A i \in Slots : i <= count[Bottom] => slot[Bottom][i] \in Tasks
        PROVE  \A i \in Slots : i <= count'[Bottom] => slot'[Bottom][i] \in Tasks
    BY <1>2, <1>10, <2>2
  <2>3. ASSUME NEW l \in Levels \ {Bottom}, InQueue(l, Sas)'
        PROVE  /\ l = Bottom - 1 /\ sas' = SasStart /\ current_task' # Sas
               /\ \A i \in Slots : i <= count'[Bottom] => slot'[Bottom][i] \in Tasks
    <3>1. InQueue(l, Sas) /\ first # Sas
      BY <2>1, <2>3 DEF InQueue, Holds
    <3>2. /\ l = Bottom - 1 /\ sas = SasStart
          /\ \A i \in Slots : i <= count[Bottom] => slot[Bottom][i] \in Tasks
      BY <3>1 DEF OrderInv, SasAlone, Searches
    <3>3. QED
      BY <1>2, <2>2, <3>1, <3>2, DispatchedSas
  <2>4. ASSUME current_task' = Sas
        PROVE  /\ sas'.pc = "scan" /\ sas'.at = 1 /\ count'[Bottom] >= 1
               /\ \A i \in Slots : i <= count'[Bottom] => slot'[Bottom][i] \in Tasks
    <3>1. /\ below = Bottom /\ sas = SasStart
          /\ \A i \in Slots : i <= count[Bottom] => slot[Bottom][i] \in Tasks
      BY <1>2, <1>13, <2>4
    <3>2. sas' = SasStart
      BY <3>1, DispatchedSas
    <3>3. count'[Bottom] = n
      BY <1>1, <3>1 DEF SteppedDown
    <3>4. count'[Bottom] >= 1
      BY <1>1, <3>3 DEF Slots
    <3>5. QED
      BY <2>2, <3>1, <3>2, <3>4 DEF SasStart
  <2>5. QED
    BY <1>4, <2>3, <2>4 DEF SasAlone, Searches
<1>15. SasKnows'
  <2>1. sas'.highest # None => sas'.highest \in Tasks \ {Sas}
    BY DispatchedSas DEF OrderInv, SasKnows
  <2>2. ASSUME sas'.highest # None
        PROVE  InQueue(Bottom, sas.highest)'
    <3> DEFINE h == sas.highest
    <3>1. InQueue(Bottom, h)
      BY <1>3, <2>2, DispatchedSas DEF OrderInv, SasKnows, Searches
    <3>2. PICK i \in Slots : i <= count[Bottom] /\ slot[Bottom][i] = h
      BY <3>1 DEF InQueue, Holds
    <3>3. i <= count'[Bottom] /\ slot'[Bottom][i] = h
      BY <1>1, <3>2, SteppedKeeps
    <3>4. slot'[Bottom][i] = sas'.highest
      BY <3>3, DispatchedSas
    <3>5. QED
      BY <3>3, <3>4 DEF InQueue, Holds
  <2>3. sas'.pc \in {"look", "age"} => sas'.at <= count'[Bottom]
    <3>1. SUFFICES ASSUME sas.pc \in {"look", "age"}
                   PROVE  sas.at <= count'[Bottom]
      BY <1>4, DispatchedSas
    <3>2. sas.at \in Slots /\ sas.at <= count[Bottom]
      BY <3>1 DEF OrderInv, IInv, SasOK, SasKnows
    <3>3. QED
      BY <1>1, <3>2, SteppedKeeps
  <2>4. sas'.pc = "age" => slot'[Bottom][sas'.at] \in Tasks
    <3>1. SUFFICES ASSUME sas.pc = "age"
                   PROVE  slot'[Bottom][sas.at] \in Tasks
      BY <1>4, DispatchedSas
    <3>2. sas.at \in Slots /\ sas.at <= count[Bottom] /\ slot[Bottom][sas.at] \in Tasks
      BY <3>1 DEF OrderInv, IInv, SasOK, SasKnows
    <3>3. QED
      BY <1>1, <3>2, SteppedKeeps
  <2>5. QED
    BY <1>4, <2>1, <2>2, <2>3, <2>4 DEF SasKnows, Searches
<1>16. QED
  BY <1>6, <1>7, <1>8, <1>9, <1>12, <1>14, <1>15 DEF OrderInv

LEMMA Dispatch_Order == ASSUME OrderInv, Dispatches, Schedule PROVE OrderInv'
<1>1. IInv /\ IInv'
  BY DispatchKeeps DEF OrderInv, Dispatches
<1>2. CASE ScheduleBottom
  BY <1>2, ScheduleBottom_Order
<1>3. CASE ScheduleGeneral \/ ScheduleStepDown
  BY <1>1, <1>3, GeneralIs, SizedByType, SteppedDown_Order
<1>4. CASE ScheduleNoTask
  BY <1>4, ScheduleNoTask_Order
<1>5. QED
  BY <1>2, <1>3, <1>4 DEF Schedule

LEMMA SasStep_Order == ASSUME OrderInv, SasStep PROVE OrderInv'
<1>1. CASE SasYield
  <2>1. Dispatches /\ Schedule
    BY <1>1 DEF SasYield, SasRuns, Dispatches
  <2>2. QED
    BY <2>1, Dispatch_Order
<1>2. CASE ~ SasYield
  BY <1>2, SasLook_Order, SasFindHole_Order, SasFindTask_Order, SasTakeLast_Order,
     SasAge_Order, SasSkip_Order, SasFill_Order, SasClear_Order, SasFollow_Order,
     SasLoad_Order, SasStore_Order, SasWrap_Order, SasEndScan_Order,
     SasVacate_Order, SasVoid_Order, SasLiftBegin_Order, SasLiftExtend_Order,
     SasLiftPlace_Order, SasLiftWord_Order, SasLiftRaise_Order
     DEF SasStep
<1>3. QED
  BY <1>1, <1>2

LEMMA StutterOrder == ASSUME OrderInv, UNCHANGED vars PROVE OrderInv'
<1>1. IInv'
  BY StutterKeeps DEF OrderInv
<1>2. BootOK' /\ BehindIsEmpty' /\ Distinct'
  BY DEF vars, OrderInv, BootOK, BehindIsEmpty, Distinct, Pending, Booted, InQueue, Holds
<1>3. Present' /\ ActiveNames' /\ SasAlone' /\ SasKnows'
  BY DEF vars, OrderInv, Present, ActiveNames, SasAlone, SasKnows, Booted, Lifting, Queued,
     InQueue, Holds
<1>4. QED
  BY <1>1, <1>2, <1>3 DEF OrderInv

(* No step leaves the invariant.                                            *)
LEMMA NextOrder == ASSUME BootWorkload, OrderInv, [Next]_vars PROVE OrderInv'
<1>1. CASE ActivateStep
  BY <1>1, ActivateBegin_Order, ActivateExtend_Order, ActivatePlace_Order,
     ActivateRaise_Order DEF ActivateStep
<1>2. CASE StartTimer
  BY <1>2, StartTimer_Order
<1>3. CASE TimerTick
  <2>1. Dispatches /\ Schedule
    BY <1>3 DEF TimerTick, Dispatches
  <2>2. QED
    BY <2>1, Dispatch_Order
<1>4. CASE SasStep
  BY <1>4, SasStep_Order
<1>5. CASE Halted \/ UNCHANGED vars
  BY <1>5, StutterOrder DEF Halted
<1>6. QED
  BY <1>1, <1>2, <1>3, <1>4, <1>5 DEF Next

-----------------------------------------------------------------------------
(* What the invariant says of the tasks and of their active words.          *)

LEMMA OneSlot ==
  ASSUME BootWorkload, OrderInv, NEW t \in Tasks, WasActivated(t), ~ InFlight(t)
  PROVE  Cardinality(PlacesOf(t)) = 1
<1>1. t \in Booted
  BY DEF WasActivated, Booted, BootWorkload
<1>2. Queued(t)
  BY <1>1 DEF OrderInv, Present, Lifting, InFlight
<1>3. PICK l \in Levels, i \in Slots : i <= count[l] /\ slot[l][i] = t
  BY <1>2 DEF Queued, InQueue, Holds
<1>4. ASSUME NEW m \in Levels, NEW j \in Slots, j <= count[m], slot[m][j] = t
      PROVE  m = l /\ j = i
  <2>1. \/ l = m /\ i = j
        \/ sas.pc = "clear" /\ l = Bottom /\ i \in {sas.at, sas.last}
    BY <1>3, <1>4 DEF OrderInv, Distinct
  <2>2. sas.pc = "clear" => slot[Bottom][sas.at] = slot[Bottom][sas.last]
    BY DEF OrderInv, SasKnows
  <2>3. QED
    BY <1>3, <2>1, <2>2 DEF InFlight
<1>5. PlacesOf(t) = {<<l, i>>}
  <2>1. <<l, i>> \in PlacesOf(t)
    BY <1>3 DEF PlacesOf, Places
  <2>2. ASSUME NEW p \in PlacesOf(t)
        PROVE  p = <<l, i>>
    <3>1. p \in Levels \X Slots /\ p[2] <= count[p[1]] /\ slot[p[1]][p[2]] = t
      BY DEF PlacesOf, Places
    <3>2. p[1] = l /\ p[2] = i
      BY <1>4, <3>1
    <3>3. QED
      BY <3>1, <3>2
  <2>3. QED
    BY <2>1, <2>2
<1>6. QED
  BY <1>5, FS_Singleton

LEMMA BottomNamed ==
  ASSUME OrderInv, NEW t \in Tasks, ~ InFlight(t), ~ (sas.pc = "follow" /\ At = t),
         NEW p \in PlacesOf(t), p[1] = Bottom
  PROVE  active[t] = p
<1>1. p \in Levels \X Slots /\ p[2] <= count[p[1]] /\ slot[p[1]][p[2]] = t
  BY DEF PlacesOf, Places
<1>2. Holds(Bottom, p[2], t)
  BY <1>1 DEF Holds
<1>3. active[t] = <<Bottom, p[2]>>
  BY <1>1, <1>2 DEF OrderInv, ActiveNames, InFlight, At
<1>4. QED
  BY <1>1, <1>3

(* The invariant holds of every boot workload.                              *)
THEOREM RunQueueOrder == ASSUME BootWorkload PROVE Spec => []OrderInv
<1>1. Init => OrderInv
  BY InitOrder
<1>2. OrderInv /\ [Next]_vars => OrderInv'
  BY NextOrder
<1>3. QED
  BY <1>1, <1>2, PTL DEF Spec

(* No dispatch, lift or erased hole loses a task of the boot workload or    *)
(* queues it twice, wherever the timer interrupts.                          *)
THEOREM TasksQueuedOnce == ASSUME BootWorkload PROVE Spec => []QueuedOnce
<1>1. OrderInv => QueuedOnce
  BY OneSlot DEF QueuedOnce
<1>2. QED
  BY <1>1, RunQueueOrder, PTL

(* Scheduler_t and SAS_void_eraser_t keep task_t.active of every task in    *)
(* the bottom queue naming that task's own slot.                            *)
THEOREM ActiveWordsNameSlots == ASSUME BootWorkload PROVE Spec => []ActiveNamesBottomSlot
<1>1. OrderInv => ActiveNamesBottomSlot
  BY BottomNamed DEF ActiveNamesBottomSlot
<1>2. QED
  BY <1>1, RunQueueOrder, PTL

-----------------------------------------------------------------------------
(* The holes.                                                               *)

(* Once the maintenance task runs it is in the first slot for good.         *)
LEMMA SasFirst ==
  ASSUME OrderInv, HolesInv, SasRuns
  PROVE  /\ timer_on /\ count[Bottom] \in Nat /\ count[Bottom] >= 1 /\ 1 \in Slots
         /\ slot[Bottom][1] = Sas /\ ~ Hole(1)
         /\ \A i, j \in Slots : Hole(i) /\ Hole(j) => i = j
<1> USE LevelFacts, NameFacts
<1>1. timer_on /\ 1 \in Slots /\ count[Bottom] \in Nat /\ Bottom - 1 \in Levels \ {Bottom}
  BY ShapeAssumption DEF SasRuns, Slots, OrderInv, IInv, TypeOK, Levels, Bottom
<1>2. ~ InQueue(Bottom - 1, Sas)
  BY <1>1, SasRunsAtBottom
<1>3. ~ Holds(Bottom - 1, 1, Sas)
  BY <1>1, <1>2 DEF InQueue
<1>4. count[Bottom] >= 1
  BY <1>1, <1>3 DEF HolesInv, SasHasFirst
<1>5. slot[Bottom][1] = Sas
  BY <1>4 DEF HolesInv, SasHasFirst
<1>6. ~ Hole(1)
  BY <1>5 DEF Hole
<1>7. QED
  BY <1>1, <1>4, <1>5, <1>6 DEF HolesInv, OneHole

LEMMA FirstKept ==
  ASSUME timer_on', count'[Bottom] \in Nat, count'[Bottom] >= 1, slot'[Bottom][1] = Sas
  PROVE  SasHasFirst'
<1>1. /\ (count[Bottom] >= 1 => slot[Bottom][1] = Sas)'
      /\ ~ (timer_on /\ count[Bottom] = 0)'
      /\ timer_on'
  OBVIOUS
<1>2. QED
  BY <1>1 DEF SasHasFirst

(* The steps that leave the bottom queue as it is.                          *)
LEMMA QuietHoles ==
  ASSUME OrderInv, HolesInv, SasRuns, UNCHANGED timer_on,
         \A i \in Slots : slot'[Bottom][i] = slot[Bottom][i], count'[Bottom] = count[Bottom],
         sas'.pc \in Lifts => sas'.at = 1,
         \A i \in Slots : Hole(i) =>
           /\ sas'.pc \in {"scan", "look", "yield"} => i >= sas'.at
           /\ sas'.pc = "age" => i > sas'.at
           /\ sas'.pc \in {"hole", "fill", "clear"} => i = sas'.at
           /\ sas'.pc \in {"follow", "load", "store"} => i = count[Bottom]
           /\ sas'.pc \notin {"wrap", "end", "vacate", "void"}
  PROVE  HolesInv'
<1>1. SasHasFirst'
  BY SasFirst, FirstKept
<1>2. \A i \in Slots : Hole(i)' <=> Hole(i)
  BY DEF Hole
<1>3. OneHole'
  BY <1>2, SasFirst DEF OneHole
<1>4. LiftsAtStart'
  BY DEF LiftsAtStart
<1>5. QED
  BY <1>1, <1>3, <1>4 DEF HolesInv

LEMMA ScanHoles ==
  ASSUME OrderInv, HolesInv, SasLook \/ SasFindTask \/ SasAge \/ SasSkip PROVE HolesInv'
<1> USE LevelFacts, NameFacts DEF Lifts
<1>1. /\ SasRuns /\ UNCHANGED <<timer_on, count, slot>>
      /\ sas.at \in Nat /\ count[Bottom] \in Nat
  BY SasFirst DEF SasLook, SasFindTask, SasAge, SasSkip, queueVars, OrderInv, IInv, TypeOK
<1>2. CASE SasLook
  <2>1. /\ sas.pc = "scan" /\ sas'.at = sas.at
        /\ sas'.pc = (IF sas.at <= count[Bottom] THEN "look" ELSE "end")
    BY <1>2, SasIs DEF SasLook, Scanning, OrderInv
  <2>2. \A i \in Slots : Hole(i) => i >= sas.at /\ i <= count[Bottom]
    BY <2>1 DEF HolesInv, OneHole, Hole
  <2>3. ~ (sas.at <= count[Bottom]) => \A i \in Slots : ~ Hole(i)
    BY <1>1, <2>2 DEF Slots
  <2>4. QED
    BY <1>1, <2>1, <2>2, <2>3, QuietHoles
<1>3. CASE SasFindTask
  <2>1. sas.pc = "look" /\ sas'.pc = "age" /\ sas'.at = sas.at /\ ~ IsVoid(At)
    BY <1>3, SasIs DEF SasFindTask, OrderInv
  <2>2. At \in Tasks
    BY <2>1, ScannedSlot DEF OrderInv, IInv, SlotsOK, At, IsVoid
  <2>3. \A i \in Slots : Hole(i) => i >= sas.at /\ i # sas.at
    BY <2>1, <2>2 DEF HolesInv, OneHole, Hole, At
  <2>4. \A i \in Slots : Hole(i) => i > sas.at
    BY <1>1, <2>3 DEF Slots
  <2>5. QED
    BY <1>1, <2>1, <2>4, QuietHoles
<1>4. CASE SasAge \/ SasSkip
  <2>1. sas.pc = "age" /\ sas'.pc = "yield" /\ sas'.at = sas.at + 1
    BY <1>4, SasIs DEF SasAge, SasSkip, OrderInv
  <2>2. \A i \in Slots : Hole(i) => i > sas.at
    BY <2>1 DEF HolesInv, OneHole
  <2>3. \A i \in Slots : Hole(i) => i >= sas.at + 1
    BY <1>1, <2>2 DEF Slots
  <2>4. QED
    BY <1>1, <2>1, <2>3, QuietHoles
<1>5. QED
  BY <1>2, <1>3, <1>4

LEMMA FindHoles ==
  ASSUME OrderInv, HolesInv, SasFindHole \/ SasTakeLast PROVE HolesInv'
<1> USE LevelFacts, NameFacts DEF Lifts
<1>1. SasRuns /\ UNCHANGED <<timer_on, count, slot>>
  BY DEF SasFindHole, SasTakeLast, queueVars
<1>2. CASE SasFindHole
  <2>1. sas.pc = "look" /\ sas'.pc = "hole" /\ sas'.at = sas.at /\ IsVoid(At)
    BY <1>2, SasIs DEF SasFindHole, OrderInv
  <2>2. sas.at \in Slots /\ sas.at <= count[Bottom] /\ At \notin Tasks
    BY <2>1, ScannedSlot DEF IsVoid, OrderInv, IInv, TypeOK, SasKnows
  <2>3. Hole(sas.at)
    BY <2>2 DEF Hole, At
  <2>4. \A i \in Slots : Hole(i) => i = sas.at
    BY <1>1, <2>2, <2>3, SasFirst
  <2>5. QED
    BY <1>1, <2>1, <2>4, QuietHoles
<1>3. CASE SasTakeLast
  <2>1. sas.pc = "hole" /\ sas'.pc = "fill" /\ sas'.at = sas.at
    BY <1>3, SasIs DEF SasTakeLast, OrderInv
  <2>2. \A i \in Slots : Hole(i) => i = sas.at
    BY <2>1 DEF HolesInv, OneHole
  <2>3. QED
    BY <1>1, <2>1, <2>2, QuietHoles
<1>4. QED
  BY <1>2, <1>3

LEMMA FillHoles == ASSUME OrderInv, HolesInv, SasFill PROVE HolesInv'
<1> USE LevelFacts, NameFacts
<1>1. /\ sas.pc = "fill" /\ sas'.pc = "clear" /\ sas'.at = sas.at
      /\ SasRuns /\ UNCHANGED <<timer_on, count>>
  BY SasIs DEF SasFill, OrderInv
<1>2. /\ sas.at \in Slots /\ sas.last \in Slots /\ sas.last = count[Bottom]
      /\ sas.at <= count[Bottom] /\ slot[Bottom][sas.at] \notin Tasks
  BY <1>1, Fields DEF OrderInv, IInv, SasOK, SasKnows, Erases, Slots
<1>3. \A i \in Slots :
        slot'[Bottom][i] = IF i = sas.at THEN slot[Bottom][sas.last] ELSE slot[Bottom][i]
  <2>1. slot \in [Levels -> [Slots -> Entries]]
    BY DEF OrderInv, IInv, TypeOK
  <2>2. slot' = [slot EXCEPT ![Bottom][sas.at] = slot[Bottom][sas.last]]
    BY DEF SasFill
  <2>3. QED
    BY <1>2, <2>1, <2>2
<1>4. \A i \in Slots : Hole(i) => i = sas.at
  BY <1>1 DEF HolesInv, OneHole
<1>5. sas.at # 1
  BY <1>1, <1>2, SasFirst
<1>6. SasHasFirst'
  BY <1>1, <1>3, <1>5, SasFirst, FirstKept
<1>7. \A i \in Slots : Hole(i)' => i = sas.at
  BY <1>1, <1>3, <1>4 DEF Hole
<1>8. OneHole' /\ LiftsAtStart'
  BY <1>1, <1>7 DEF OneHole, LiftsAtStart, Lifts
<1>9. QED
  BY <1>6, <1>8 DEF HolesInv

LEMMA ClearHoles == ASSUME OrderInv, HolesInv, SasClear PROVE HolesInv'
<1> USE LevelFacts, NameFacts
<1>1. /\ sas.pc = "clear" /\ sas'.pc = "follow" /\ SasRuns /\ UNCHANGED <<timer_on, count>>
  BY SasIs DEF SasClear, OrderInv
<1>2. /\ sas.at \in Slots /\ sas.last \in Slots /\ sas.last = count[Bottom]
      /\ sas.at <= count[Bottom] /\ slot[Bottom][sas.at] = slot[Bottom][sas.last]
      /\ sas.at = sas.last => slot[Bottom][sas.at] \notin Tasks
  BY <1>1, Fields DEF OrderInv, IInv, SasOK, SasKnows, Erases, Slots
<1>3. \A i \in Slots : slot'[Bottom][i] = IF i = sas.last THEN Empty ELSE slot[Bottom][i]
  <2>1. slot \in [Levels -> [Slots -> Entries]]
    BY DEF OrderInv, IInv, TypeOK
  <2>2. slot' = [slot EXCEPT ![Bottom][sas.last] = Empty]
    BY DEF SasClear
  <2>3. QED
    BY <1>2, <2>1, <2>2
<1>4. \A i \in Slots : Hole(i) => i = sas.last
  <2>1. \A i \in Slots : Hole(i) => i = sas.at
    BY <1>1 DEF HolesInv, OneHole
  <2>2. Hole(sas.at) => Hole(sas.last)
    BY <1>2, LevelFacts DEF Hole, Slots
  <2>3. QED
    BY <1>2, <2>1, <2>2
<1>5. sas.last # 1
  <2>1. sas.last = 1 => sas.at = sas.last
    BY <1>2 DEF Slots
  <2>2. QED
    BY <1>1, <1>2, <2>1, SasFirst
<1>6. SasHasFirst'
  BY <1>1, <1>3, <1>5, SasFirst, FirstKept
<1>7. \A i \in Slots : Hole(i)' => i = count'[Bottom]
  BY <1>1, <1>2, <1>3, <1>4 DEF Hole
<1>8. OneHole' /\ LiftsAtStart'
  BY <1>1, <1>7 DEF OneHole, LiftsAtStart, Lifts
<1>9. QED
  BY <1>6, <1>8 DEF HolesInv

LEMMA StoreHoles == ASSUME OrderInv, HolesInv, SasStore PROVE HolesInv'
<1> USE LevelFacts, NameFacts
<1>1. /\ sas.pc = "store" /\ sas'.pc = "wrap" /\ SasRuns /\ UNCHANGED <<timer_on, slot>>
      /\ sas.last = count[Bottom]
  BY SasIs DEF SasStore, OrderInv, SasKnows
<1>2. count'[Bottom] = count[Bottom] - 1
  BY <1>1 DEF SasStore, OrderInv, IInv, TypeOK
<1>3. count[Bottom] # 1
  <2>1. count[Bottom] = 1 => slot[Bottom][1] = Empty
    BY <1>1, SasFirst DEF OrderInv, BehindIsEmpty, Pending
  <2>2. QED
    BY <1>1, <2>1, SasFirst
<1>4. SasHasFirst'
  BY <1>1, <1>2, <1>3, SasFirst, FirstKept
<1>5. \A i \in Slots : ~ Hole(i)'
  <2>1. \A i \in Slots : Hole(i) => i = count[Bottom]
    BY <1>1 DEF HolesInv, OneHole
  <2>2. count[Bottom] \in Nat
    BY <1>1, SasFirst
  <2>3. QED
    BY <1>1, <1>2, <2>1, <2>2 DEF Hole, Slots
<1>6. OneHole' /\ LiftsAtStart'
  BY <1>1, <1>5 DEF OneHole, LiftsAtStart, Lifts
<1>7. QED
  BY <1>4, <1>6 DEF HolesInv

LEMMA EraseHoles ==
  ASSUME OrderInv, HolesInv,
         SasFollow \/ SasLoad \/ SasWrap \/ SasEndScan \/ SasVacate
  PROVE  HolesInv'
<1> USE LevelFacts, NameFacts DEF Lifts
<1>1. SasRuns /\ UNCHANGED <<timer_on, count, slot>>
  BY DEF SasFollow, SasLoad, SasWrap, SasEndScan, SasVacate, queueVars
<1>2. CASE SasFollow \/ SasLoad
  <2>1. sas.pc \in {"follow", "load"} /\ sas'.pc \in {"load", "store"}
    BY <1>2, SasIs DEF SasFollow, SasLoad, OrderInv
  <2>2. \A i \in Slots : Hole(i) => i = count[Bottom]
    BY <2>1 DEF HolesInv, OneHole
  <2>3. QED
    BY <1>1, <2>1, <2>2, QuietHoles
<1>3. CASE SasWrap \/ SasEndScan \/ SasVacate
  <2>1. /\ sas.pc \in {"wrap", "end", "vacate"}
        /\ sas'.pc \in {"yield", "vacate", "void"}
        /\ sas'.pc = "vacate" => sas'.at = 1
        /\ sas'.pc = "void" => sas.pc = "vacate" /\ sas'.at = sas.at
    BY <1>3, SasIs DEF SasWrap, SasEndScan, SasVacate, OrderInv
  <2>2. \A i \in Slots : ~ Hole(i)
    BY <2>1 DEF HolesInv, OneHole
  <2>3. sas'.pc \in Lifts => sas'.at = 1
    BY <2>1 DEF HolesInv, LiftsAtStart
  <2>4. QED
    BY <1>1, <2>1, <2>2, <2>3, QuietHoles
<1>4. QED
  BY <1>2, <1>3

LEMMA VoidHoles == ASSUME OrderInv, HolesInv, SasVoid PROVE HolesInv'
<1> USE LevelFacts, NameFacts
<1>1. /\ sas.pc = "void" /\ sas'.pc = "begin" /\ sas'.at = sas.at
      /\ SasRuns /\ UNCHANGED <<timer_on, count>>
  BY SasIs DEF SasVoid, OrderInv
<1>2. sas.highest \in Tasks /\ sas.highest # Sas /\ InQueue(Bottom, sas.highest)
  BY <1>1 DEF OrderInv, SasKnows, IInv, SasOK, Lifts, Lifting
<1>3. PICK k \in Slots : k <= count[Bottom] /\ slot[Bottom][k] = sas.highest
  BY <1>2 DEF InQueue, Holds
<1>4. sas.place = <<Bottom, k>>
  BY <1>1, <1>2, <1>3 DEF OrderInv, ActiveNames, SasKnows, Holds
<1>5. \A i \in Slots : slot'[Bottom][i] = IF i = k THEN void ELSE slot[Bottom][i]
  <2>1. slot \in [Levels -> [Slots -> Entries]]
    BY DEF OrderInv, IInv, TypeOK
  <2>2. sas.place # None
    BY <1>1 DEF OrderInv, IInv, SasOK
  <2>3. slot' = [slot EXCEPT ![Bottom][k] = void]
    BY <1>4, <2>2 DEF SasVoid
  <2>4. QED
    BY <2>1, <2>3
<1>6. k # 1
  BY <1>1, <1>2, <1>3, SasFirst
<1>7. SasHasFirst'
  BY <1>1, <1>5, <1>6, SasFirst, FirstKept
<1>8. \A i \in Slots : ~ Hole(i)
  BY <1>1 DEF HolesInv, OneHole
<1>9. \A i \in Slots : Hole(i)' => i = k
  BY <1>1, <1>5, <1>8 DEF Hole
<1>10. OneHole'
  BY <1>1, <1>9 DEF OneHole
<1>11. LiftsAtStart'
  BY <1>1 DEF HolesInv, LiftsAtStart, Lifts
<1>12. QED
  BY <1>7, <1>10, <1>11 DEF HolesInv

(* The queue that a lift goes to is not the bottom queue.                   *)
LEMMA LiftHoles ==
  ASSUME OrderInv, HolesInv,
         SasLiftBegin \/ SasLiftExtend \/ SasLiftPlace \/ SasLiftWord \/ SasLiftRaise
  PROVE  HolesInv'
<1> USE LevelFacts, NameFacts
<1>1. LiftQueue # Bottom
  BY ShapeAssumption DEF LiftQueue, Bottom
<1>2. count \in [Levels -> 0..PAGE] /\ slot \in [Levels -> [Slots -> Entries]]
  BY DEF OrderInv, IInv, TypeOK
<1>3. SasRuns /\ UNCHANGED timer_on
  BY DEF SasLiftBegin, SasLiftExtend, SasLiftPlace, SasLiftWord, SasLiftRaise
<1>4. count'[Bottom] = count[Bottom]
  BY <1>1, <1>2 DEF SasLiftBegin, SasLiftExtend, SasLiftPlace, SasLiftWord, SasLiftRaise, queueVars
<1>5. \A i \in Slots : slot'[Bottom][i] = slot[Bottom][i]
  <2>1. CASE SasLiftPlace
    <3>1. slot' = [slot EXCEPT ![LiftQueue][count[LiftQueue]] = sas.highest]
      BY <2>1 DEF SasLiftPlace
    <3>2. QED
      BY <1>1, <1>2, <3>1
  <2>2. CASE ~ SasLiftPlace
    BY <2>2 DEF SasLiftBegin, SasLiftExtend, SasLiftWord, SasLiftRaise, queueVars
  <2>3. QED
    BY <2>1, <2>2
<1>6. /\ sas.pc \in {"begin", "extend", "place", "word", "raise"} /\ sas'.at = sas.at
      /\ sas'.pc \in {"extend", "place", "word", "raise", "yield"}
  BY SasIs DEF SasLiftBegin, SasLiftExtend, SasLiftPlace, SasLiftWord, SasLiftRaise, OrderInv
<1>7. sas.at = 1
  BY <1>6 DEF HolesInv, LiftsAtStart, Lifts
<1>8. \A i \in Slots : i >= 1
  BY DEF Slots
<1>9. QED
  BY <1>3, <1>4, <1>5, <1>6, <1>7, <1>8, QuietHoles

LEMMA DispatchHoles == ASSUME OrderInv, HolesInv, Dispatches, Schedule PROVE HolesInv'
<1> USE LevelFacts, NameFacts
<1>1. /\ sas'.at = sas.at /\ timer_on
      /\ sas'.pc = sas.pc \/ (sas.pc = "yield" /\ sas'.pc = "scan")
  BY DispatchedSas DEF Dispatches
<1>2. LiftsAtStart'
  BY <1>1 DEF HolesInv, LiftsAtStart, Lifts
<1>3. CASE ScheduleBottom \/ ScheduleNoTask
  <2>1. UNCHANGED <<count, slot, timer_on>>
    BY <1>3 DEF ScheduleBottom, ScheduleNoTask, queueVars, DispatchFrame
  <2>2. SasHasFirst'
    BY <1>1, <2>1 DEF HolesInv, SasHasFirst, Holds
  <2>3. \A i \in Slots : Hole(i)' <=> Hole(i)
    BY <2>1 DEF Hole
  <2>4. OneHole'
    BY <1>1, <2>1, <2>3 DEF HolesInv, OneHole
  <2>5. QED
    BY <1>2, <2>2, <2>4 DEF HolesInv
<1>4. CASE ScheduleGeneral \/ ScheduleStepDown
  <2> DEFINE below == top_queue + 1
             n == count[below] + 1
             first == slot[top_queue][1]
  <2>1. IInv /\ SteppedDown
    BY <1>4, GeneralIs, SizedByType DEF OrderInv
  <2>2. /\ top_queue \in Levels /\ below \in Levels /\ below # top_queue /\ top_queue # Bottom
        /\ 1 \in Slots /\ n \in Slots /\ \A k \in Levels : count[k] \in Nat
        /\ Bottom - 1 \in Levels
    BY <2>1, SteppedTypes, SizedByType, ShapeAssumption DEF Levels, Bottom
  <2>3. /\ first \in Tasks /\ UNCHANGED timer_on
        /\ count'[Bottom] = IF below = Bottom THEN n ELSE count[Bottom]
        /\ below = Bottom => slot'[Bottom][n] = first
        /\ \A i \in Slots : i # n \/ below # Bottom => slot'[Bottom][i] = slot[Bottom][i]
    BY <2>1, <2>2 DEF SteppedDown
  <2>4. /\ sas.pc \in {"scan", "look", "age", "yield"}
        /\ sas'.pc \in {"scan", "look", "age", "yield"}
    BY <1>1, <2>2 DEF OrderInv, SasAlone, Searches
  <2>5. \A i \in Slots : Hole(i)' => Hole(i)
    <3>1. SUFFICES ASSUME NEW i \in Slots, i <= count'[Bottom], slot'[Bottom][i] \notin Tasks
                   PROVE  i <= count[Bottom] /\ slot[Bottom][i] \notin Tasks
      BY DEF Hole
    <3>2. i # n \/ below # Bottom
      BY <2>3, <3>1
    <3>3. i <= count[Bottom]
      BY <2>2, <2>3, <3>1, <3>2 DEF Slots
    <3>4. QED
      BY <2>3, <3>1, <3>2, <3>3
  <2>6. OneHole'
    BY <1>1, <2>4, <2>5 DEF HolesInv, OneHole
  <2>7. count[Bottom] >= 1 => slot'[Bottom][1] = Sas
    BY <2>1, <2>2, SteppedKeeps DEF HolesInv, SasHasFirst
  <2>8. ASSUME ~ (count[Bottom] >= 1)
        PROVE  /\ count'[Bottom] >= 1 => slot'[Bottom][1] = Sas
               /\ count'[Bottom] = 0 => 1 <= count'[Bottom - 1] /\ slot'[Bottom - 1][1] = Sas
    <3>1. count[Bottom] = 0 /\ 1 <= count[Bottom - 1] /\ slot[Bottom - 1][1] = Sas
      BY <1>1, <2>2, <2>8 DEF HolesInv, SasHasFirst, Holds
    <3>2. CASE below = Bottom
      <4>1. n = 1 /\ top_queue = Bottom - 1 /\ count'[Bottom] = 1
        BY <2>2, <2>3, <3>1, <3>2 DEF Levels
      <4>2. QED
        BY <2>3, <3>1, <3>2, <4>1
    <3>3. CASE below # Bottom
      <4>1. count'[Bottom] = 0 /\ top_queue # Bottom - 1
        BY <2>2, <2>3, <3>1, <3>3 DEF Levels
      <4>2. /\ count'[Bottom - 1] = IF Bottom - 1 = below THEN n ELSE count[Bottom - 1]
            /\ ~ (Bottom - 1 = below /\ n = 1) => slot'[Bottom - 1][1] = slot[Bottom - 1][1]
        BY <2>1, <2>2, <4>1 DEF SteppedDown
      <4>3. Bottom - 1 = below => n # 1 /\ 1 <= n
        BY <2>2, <3>1
      <4>4. QED
        BY <3>1, <4>1, <4>2, <4>3
    <3>4. QED
      BY <3>2, <3>3
  <2>9. count[Bottom] >= 1 => count'[Bottom] # 0
    BY <2>2, <2>3
  <2>10. SasHasFirst'
    BY <1>1, <2>3, <2>7, <2>8, <2>9 DEF SasHasFirst, Holds
  <2>11. QED
    BY <1>2, <2>6, <2>10 DEF HolesInv
<1>5. QED
  BY <1>3, <1>4 DEF Schedule

(* Before the timer starts the maintenance task is in the queue above the   *)
(* bottom, where it was the first to be placed.                             *)
LEMMA BootFirst ==
  ASSUME BootWorkload, OrderInv, ~ timer_on, Sas \in Booted
  PROVE  \E i \in Slots : i <= count[Bottom - 1] /\ slot[Bottom - 1][i] = Sas
<1> USE LevelFacts, NameFacts
<1>1. Queued(Sas)
  <2>1. ~ Lifting
    BY BootThread DEF Lifting
  <2>2. QED
    BY <2>1 DEF OrderInv, Present
<1>2. PICK l \in Levels, i \in Slots : i <= count[l] /\ slot[l][i] = Sas
  BY <1>1 DEF Queued, InQueue, Holds
<1>3. ~ (act.pc = "place" /\ l = QueueOf(act.task) /\ i = count[l])
  BY <1>2 DEF OrderInv, BehindIsEmpty, Pending
<1>4. l = QueueOf(Sas)
  BY <1>2, <1>3 DEF OrderInv, BootOK
<1>5. QueueOf(Sas) = Bottom - 1
  BY DEF BootWorkload, QueueOf, Bottom
<1>6. QED
  BY <1>2, <1>4, <1>5

LEMMA FirstPlaced ==
  ASSUME BootWorkload, OrderInv, act.pc = "place", QueueOf(act.task) = Bottom - 1,
         count[Bottom - 1] = 1
  PROVE  act.task = Sas
<1> USE LevelFacts, NameFacts
<1>1. /\ ~ timer_on /\ act.task \in Tasks /\ booted + 1 \in 1..Len(BootOrder)
      /\ act.task = BootOrder[booted + 1] /\ booted \in 0..Len(BootOrder)
      /\ Len(BootOrder) \in Nat
  BY BootThread, ActivatedOnce, LenFact DEF OrderInv, BootOK, IInv, TypeOK
<1>2. Priority[act.task] = 1
  <2>1. Priority[act.task] \in 1..TOTAL_QUEUES
    BY <1>1, ShapeAssumption
  <2>2. QED
    BY <2>1 DEF QueueOf, Bottom
<1>3. PICK k \in 1..Len(BootOrder) :
        BootOrder[k] = Sas /\ \A j \in 1..(k - 1) : Priority[BootOrder[j]] # 1
  BY DEF BootWorkload
<1>4. booted + 1 >= k
  <2>1. ~ (booted + 1 \in 1..(k - 1))
    BY <1>1, <1>2, <1>3
  <2>2. QED
    BY <1>1, <1>3, <2>1
<1>5. Sas \notin Booted
  <2>1. Bottom - 1 \in Levels
    BY ShapeAssumption DEF Bottom, Levels
  <2>2. \A i \in Slots : i <= count[Bottom - 1] => slot[Bottom - 1][i] = Empty
    <3>1. \A i \in Slots : i <= count[Bottom - 1] => i = count[Bottom - 1]
      BY DEF Slots
    <3>2. QED
      BY <2>1, <3>1 DEF OrderInv, BehindIsEmpty, Pending
  <2>3. QED
    BY <1>1, <2>2, BootFirst
<1>6. ~ (k <= booted)
  <2>1. k <= booted => k \in 1..booted
    BY <1>1, <1>3
  <2>2. QED
    BY <1>3, <1>5, <2>1 DEF Booted
<1>7. booted + 1 = k
  BY <1>1, <1>3, <1>4, <1>6
<1>8. QED
  BY <1>1, <1>3, <1>7

LEMMA ActivateHoles ==
  ASSUME BootWorkload, OrderInv, HolesInv, OrderInv', ActivateStep PROVE HolesInv'
<1> USE LevelFacts, NameFacts
<1> DEFINE q == QueueOf(act.task)
<1>1. /\ ~ timer_on /\ timer_on' = timer_on /\ sas' = sas /\ sas.pc = "scan"
      /\ Bottom - 1 \in Levels /\ Bottom - 1 # Bottom
      /\ count[Bottom] = 0 /\ \A l \in Levels : count[l] \in 0..PAGE
  <2>1. ~ timer_on /\ timer_on' = timer_on /\ sas' = sas
    BY BootThread DEF ActivateStep, ActivateBegin, ActivateExtend, ActivatePlace, ActivateRaise
  <2>2. sas.pc = "scan" /\ count[Bottom] = 0
    BY <2>1, BootThread DEF HolesInv, SasHasFirst
  <2>3. Bottom - 1 \in Levels /\ Bottom - 1 # Bottom
    BY ShapeAssumption DEF Bottom, Levels
  <2>4. QED
    BY <2>1, <2>2, <2>3 DEF OrderInv, IInv, TypeOK
<1>2. /\ act.pc # "idle" => act.task \in Tasks /\ q \in Levels /\ q # Bottom
      /\ \A l \in Levels : ~ (act.pc = "place" /\ l = q) => ~ Pending(l, 1)
  BY <1>1, QueueAboveBottom DEF OrderInv, IInv, ActOK, Pending
<1>3. count[Bottom - 1] >= 1 /\ ~ Pending(Bottom - 1, 1) => slot[Bottom - 1][1] = Sas
  BY <1>1 DEF HolesInv, SasHasFirst
<1>4. /\ count'[Bottom] = 0
      /\ count'[Bottom - 1] >= 1 /\ ~ Pending(Bottom - 1, 1)' => slot'[Bottom - 1][1] = Sas
  <2>1. CASE \E t \in Tasks : ActivateBegin(t)
    <3>1. UNCHANGED <<count, slot>> /\ act.pc = "idle"
      BY <2>1 DEF ActivateBegin, queueVars
    <3>2. ~ Pending(Bottom - 1, 1)
      BY <1>1, <3>1 DEF Pending
    <3>3. QED
      BY <1>1, <1>3, <3>1, <3>2
  <2>2. CASE ActivateExtend
    <3>1. /\ act.pc = "extend" /\ act'.pc = "place" /\ act'.task = act.task /\ slot' = slot
          /\ act.n = count[q]
      BY <2>2 DEF ActivateExtend, OrderInv, IInv, TypeOK, BootOK
    <3>2. \A l \in Levels : count'[l] = IF l = q THEN count[l] + 1 ELSE count[l]
      BY <1>1, <1>2, <2>2, <3>1 DEF ActivateExtend, OrderInv, IInv, TypeOK
    <3>3. ~ Pending(Bottom - 1, 1)
      BY <1>1, <3>1 DEF Pending
    <3>4. Pending(Bottom - 1, 1)' <=> Bottom - 1 = q /\ count'[Bottom - 1] = 1
      BY <1>1, <3>1 DEF Pending, QueueOf
    <3>5. count'[Bottom - 1] >= 1 /\ ~ Pending(Bottom - 1, 1)' => count[Bottom - 1] >= 1
      BY <1>1, <3>2, <3>4
    <3>6. count'[Bottom] = 0
      BY <1>1, <1>2, <3>1, <3>2
    <3>7. QED
      BY <1>3, <3>1, <3>3, <3>5, <3>6
  <2>3. CASE ActivatePlace
    <3>1. /\ act.pc = "place" /\ UNCHANGED count /\ count[q] \in Slots
          /\ slot' = [slot EXCEPT ![q][count[q]] = act.task]
      BY <2>3 DEF ActivatePlace
    <3>2. 1 \in Slots
      BY DEF Slots
    <3>3. slot'[Bottom - 1][1] = IF q = Bottom - 1 /\ count[q] = 1 THEN act.task
                                 ELSE slot[Bottom - 1][1]
      <4>1. slot \in [Levels -> [Slots -> Entries]]
        BY DEF OrderInv, IInv, TypeOK
      <4>2. QED
        BY <1>1, <1>2, <3>1, <3>2, <4>1
    <3>4. CASE q = Bottom - 1 /\ count[q] = 1
      <4>1. slot'[Bottom - 1][1] = Sas
        BY <3>1, <3>3, <3>4, FirstPlaced
      <4>2. QED
        BY <1>1, <3>1, <4>1
    <3>5. CASE ~ (q = Bottom - 1 /\ count[q] = 1)
      <4>1. ~ Pending(Bottom - 1, 1)
        BY <1>1, <3>5 DEF Pending
      <4>2. QED
        BY <1>1, <1>3, <3>1, <3>3, <3>5, <4>1
    <3>6. QED
      BY <3>4, <3>5
  <2>4. CASE ActivateRaise
    <3>1. UNCHANGED <<count, slot>> /\ act.pc = "raise"
      BY <2>4 DEF ActivateRaise
    <3>2. ~ Pending(Bottom - 1, 1)
      BY <1>1, <3>1 DEF Pending
    <3>3. QED
      BY <1>1, <1>3, <3>1, <3>2
  <2>5. QED
    BY <2>1, <2>2, <2>3, <2>4 DEF ActivateStep
<1>5. SasHasFirst'
  BY <1>1, <1>4 DEF SasHasFirst
<1>6. \A i \in Slots : ~ Hole(i)'
  BY <1>4 DEF Hole, Slots
<1>7. OneHole' /\ LiftsAtStart'
  BY <1>1, <1>6 DEF OneHole, LiftsAtStart, Lifts
<1>8. QED
  BY <1>5, <1>7 DEF HolesInv

LEMMA StartHoles ==
  ASSUME BootWorkload, OrderInv, HolesInv, StartTimer PROVE HolesInv'
<1> USE LevelFacts, NameFacts
<1>1. /\ ~ timer_on /\ timer_on' /\ act.pc = "idle" /\ booted = Len(BootOrder)
      /\ sas.pc = "scan" /\ UNCHANGED <<count, slot, sas>>
  BY BootThread DEF StartTimer, queueVars
<1>2. /\ count[Bottom] = 0
      /\ count[Bottom - 1] >= 1 /\ ~ Pending(Bottom - 1, 1) => slot[Bottom - 1][1] = Sas
  BY <1>1 DEF HolesInv, SasHasFirst
<1>3. Sas \in Booted
  BY <1>1 DEF BootWorkload, Booted
<1>4. PICK k \in Slots : k <= count[Bottom - 1] /\ slot[Bottom - 1][k] = Sas
  BY <1>1, <1>3, BootFirst
<1>5. 1 <= count[Bottom - 1]
  <2>1. Bottom - 1 \in Levels
    BY ShapeAssumption DEF Bottom, Levels
  <2>2. count \in [Levels -> 0..PAGE] /\ 0..PAGE \subseteq Nat
    BY DEF OrderInv, IInv, TypeOK
  <2>3. count[Bottom - 1] \in Nat
    BY <2>1, <2>2
  <2>4. QED
    BY <1>4, <2>3 DEF Slots
<1>6. Bottom - 1 # Bottom /\ ~ Pending(Bottom - 1, 1)
  BY <1>1 DEF Pending, Bottom
<1>7. SasHasFirst'
  BY <1>1, <1>2, <1>5, <1>6 DEF SasHasFirst, Holds
<1>8. \A i \in Slots : ~ Hole(i)'
  BY <1>1, <1>2 DEF Hole, Slots
<1>9. OneHole' /\ LiftsAtStart'
  BY <1>1, <1>8 DEF OneHole, LiftsAtStart, Lifts
<1>10. QED
  BY <1>7, <1>9 DEF HolesInv

LEMMA InitHoles == ASSUME Init PROVE HolesInv
<1> USE LevelFacts, NameFacts
<1>1. \A l \in Levels : count[l] = 0
  BY DEF Init
<1>2. ~ timer_on /\ sas.pc = "scan"
  BY DEF Init
<1>3. Bottom - 1 \in Levels
  BY ShapeAssumption DEF Bottom, Levels
<1>4. SasHasFirst
  BY <1>1, <1>2, <1>3 DEF SasHasFirst
<1>5. \A i \in Slots : ~ Hole(i)
  BY <1>1 DEF Hole, Slots
<1>6. OneHole /\ LiftsAtStart
  BY <1>2, <1>5 DEF OneHole, LiftsAtStart, Lifts
<1>7. QED
  BY <1>4, <1>6 DEF HolesInv

LEMMA NextHoles ==
  ASSUME BootWorkload, OrderInv, OrderInv', HolesInv, [Next]_vars PROVE HolesInv'
<1>1. CASE ActivateStep
  BY <1>1, ActivateHoles
<1>2. CASE StartTimer
  BY <1>2, StartHoles
<1>3. CASE TimerTick
  <2>1. Dispatches /\ Schedule
    BY <1>3 DEF TimerTick, Dispatches
  <2>2. QED
    BY <2>1, DispatchHoles
<1>4. CASE SasYield
  <2>1. Dispatches /\ Schedule
    BY <1>4 DEF SasYield, SasRuns, Dispatches
  <2>2. QED
    BY <2>1, DispatchHoles
<1>5. CASE SasStep /\ ~ SasYield
  BY <1>5, ScanHoles, FindHoles, FillHoles, ClearHoles, StoreHoles, EraseHoles, VoidHoles,
     LiftHoles
     DEF SasStep
<1>6. CASE Halted \/ UNCHANGED vars
  BY <1>6 DEF Halted, vars, HolesInv, SasHasFirst, OneHole, LiftsAtStart, Hole, Holds, Pending
<1>7. QED
  BY <1>1, <1>2, <1>3, <1>4, <1>5, <1>6 DEF Next

LEMMA HolesAreFew ==
  ASSUME OrderInv, HolesInv, timer_on
  PROVE  Cardinality(BottomHoles) <= 1 /\ 1 \notin BottomHoles
<1> USE LevelFacts, NameFacts
<1>1. void \notin Tasks
  BY DEF OrderInv, IInv, TypeOK
<1>2. \A i \in BottomHoles : i \in Slots /\ Hole(i)
  BY <1>1 DEF BottomHoles, Hole, IsVoid
<1>3. 1 \notin BottomHoles
  BY <1>2 DEF HolesInv, SasHasFirst, Hole
<1>4. CASE BottomHoles = {}
  BY <1>3, <1>4, FS_EmptySet
<1>5. CASE BottomHoles # {}
  <2>1. PICK i : i \in BottomHoles
    BY <1>5
  <2>2. BottomHoles = {i}
    BY <1>2, <2>1 DEF HolesInv, OneHole
  <2>3. Cardinality(BottomHoles) = 1
    BY <2>2, FS_Singleton
  <2>4. QED
    BY <1>3, <2>3
<1>6. QED
  BY <1>4, <1>5

(* The maintenance task erases the hole of one lift before it makes the     *)
(* next, and always holds the first slot: Scheduler_t never meets two holes *)
(* nor one in the first slot, with any number of tasks in the bottom queue. *)
THEOREM HolesStayHarmless == ASSUME BootWorkload PROVE Spec => []HolesHarmless
<1>1. Init => HolesInv
  BY InitHoles
<1>2. OrderInv /\ OrderInv' /\ HolesInv /\ [Next]_vars => HolesInv'
  BY NextHoles
<1>3. OrderInv /\ HolesInv => HolesHarmless
  BY HolesAreFew DEF HolesHarmless
<1>4. QED
  BY <1>1, <1>2, <1>3, RunQueueOrder, PTL DEF Spec
=============================================================================
