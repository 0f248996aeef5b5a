--------------------------- MODULE RunQueueProofs ---------------------------
(* Proofs about RunQueue, for any number of levels, slots and tasks and any *)
(* priorities, boot order and late activations.                             *)
EXTENDS RunQueue, TLAPS

(* The levels that the code computes are levels.                            *)
LEMMA LevelFacts ==
  /\ TOTAL_QUEUES \in Nat /\ PAGE \in Nat /\ PAGE >= 1
  /\ Bottom \in Levels /\ LiftQueue \in Levels /\ LiftQueue < Bottom
  /\ \A t \in Tasks : QueueOf(t) \in Levels
  /\ \A l \in Levels : l # Bottom => l + 1 \in Levels
  BY ShapeAssumption DEF Bottom, Levels, LiftQueue, QueueOf

LEMMA NameFacts ==
  /\ Sas \in Tasks /\ Boot \notin Tasks /\ None \notin Tasks /\ None \notin Places
  /\ Empty \notin Tasks /\ Garbage \notin Tasks
  /\ VoidReads \subseteq {Empty, Garbage}
  BY NamesAssumption

LEMMA LenFact == Len(BootOrder) \in Nat
  BY ShapeAssumption

(* A function stays one of its type when one of its values is replaced.     *)
LEMMA Updated ==
  ASSUME NEW S, NEW T, NEW f \in [S -> T], NEW x \in S, NEW y \in T
  PROVE  [f EXCEPT ![x] = y] \in [S -> T]
  OBVIOUS

(* The types of what Scheduler_t writes.                                    *)
QueuesTyped ==
  /\ count \in [Levels -> 0..PAGE]
  /\ slot \in [Levels -> [Slots -> Entries]]
  /\ top_queue \in Levels
  /\ bottom_task \in 1..(PAGE + 1)
  /\ current_task \in Tasks \cup {Boot}
  /\ active \in [Tasks -> Places \cup {None}]
  /\ halted \in BOOLEAN

(* The types of what it leaves alone.                                       *)
OthersTyped ==
  /\ tokens \in [Tasks -> Nat]
  /\ timer_on \in BOOLEAN
  /\ booted \in 0..Len(BootOrder)
  /\ act \in [pc : {"idle", "extend", "place", "raise"},
              task : Tasks \cup {None}, n : 0..PAGE]
  /\ void \in VoidReads

SasTyped ==
  sas \in [pc : {"scan", "look", "hole", "age", "fill", "clear", "follow",
                 "load", "store", "wrap", "yield", "end", "vacate",
                 "void", "begin", "extend", "place", "word", "raise"},
           at : 1..(PAGE + 1), last : 0..PAGE, place : Places \cup {None},
           highest : Tasks \cup {None}, highestTokens : Nat]

LEMMA InitIInv == Init => IInv
<1> SUFFICES ASSUME Init PROVE IInv
  OBVIOUS
<1> USE LevelFacts, NameFacts, LenFact
<1>1. TypeOK
  <2>1. count \in [Levels -> 0..PAGE] /\ top_queue \in Levels /\ bottom_task \in 1..(PAGE + 1)
    BY DEF Init
  <2>2. slot \in [Levels -> [Slots -> Entries]]
    BY DEF Init, Entries
  <2>3. active \in [Tasks -> Places \cup {None}] /\ current_task \in Tasks \cup {Boot}
    BY DEF Init
  <2>4. tokens \in [Tasks -> Nat]
    BY ShapeAssumption DEF Init
  <2>5. timer_on \in BOOLEAN /\ halted \in BOOLEAN /\ void \in VoidReads
    BY DEF Init
  <2>8. booted \in 0..Len(BootOrder)
    BY LenFact DEF Init
  <2>6. act \in [pc : {"idle", "extend", "place", "raise"},
                 task : Tasks \cup {None}, n : 0..PAGE]
    BY DEF Init
  <2>7. SasTyped
    BY DEF Init, SasTyped
  <2> QED
    BY <2>1, <2>2, <2>3, <2>4, <2>5, <2>6, <2>7, <2>8 DEF TypeOK, SasTyped
<1>2. SlotsOK
  BY DEF Init, SlotsOK
<1>3. ActOK /\ SasOK
  BY DEF Init, ActOK, SasOK, Erases, Lifts
<1> QED
  BY <1>1, <1>2, <1>3 DEF IInv

-----------------------------------------------------------------------------
(* Scheduler_t                                                              *)

(* What a step of the dispatcher leaves behind for the others.              *)
ScheduleResult ==
  /\ QueuesTyped'
  /\ \A l \in Levels : \A i \in Slots : slot'[l][i] \in Tasks \cup {Empty, void}
  /\ count'[Bottom] >= count[Bottom]
  /\ \A t \in Tasks : active[t] # None => active'[t] # None

LEMMA BottomResult == ASSUME IInv, ScheduleBottom PROVE ScheduleResult
<1> USE LevelFacts, NameFacts
<1>1. PICK i \in Slots :
        /\ slot[Bottom][i] \in Tasks
        /\ current_task' = slot[Bottom][i]
        /\ active' = [active EXCEPT ![slot[Bottom][i]] = <<Bottom, i>>]
        /\ bottom_task' = AfterHit(i)
  BY DEF ScheduleBottom
<1>2. UNCHANGED <<count, slot, top_queue, halted>>
  BY DEF ScheduleBottom
<1>3. bottom_task' \in 1..(PAGE + 1)
  BY <1>1 DEF IInv, TypeOK, AfterHit, Advanced, Slots
<1>4. <<Bottom, i>> \in Places /\ <<Bottom, i>> # None
  BY DEF Places
<1>5. active' \in [Tasks -> Places \cup {None}]
      /\ \A t \in Tasks : active[t] # None => active'[t] # None
  BY <1>1, <1>4 DEF IInv, TypeOK
<1>6. QueuesTyped'
  BY <1>1, <1>2, <1>3, <1>5 DEF IInv, TypeOK, QueuesTyped
<1>7. count'[Bottom] >= count[Bottom]
  BY <1>2 DEF IInv, TypeOK
<1>8. \A l \in Levels : \A j \in Slots : slot'[l][j] \in Tasks \cup {Empty, void}
  BY <1>2 DEF IInv, SlotsOK
<1> QED
  BY <1>5, <1>6, <1>7, <1>8 DEF ScheduleResult

LEMMA StepDownResult ==
  ASSUME IInv, top_queue # Bottom, count[top_queue] >= 1,
         NEW rest \in [Slots -> Tasks \cup {Empty, void}],
         StepFirstDown(rest), top_queue' \in {top_queue, top_queue + 1}
  PROVE  ScheduleResult
<1> USE LevelFacts, NameFacts
<1> DEFINE below == top_queue + 1
           first == slot[top_queue][1]
           n == count[below] + 1
<1>1. /\ first \in Tasks /\ n \in Slots
      /\ count' = [count EXCEPT ![top_queue] = @ - 1, ![below] = n]
      /\ slot' = [slot EXCEPT ![below][n] = first, ![top_queue] = rest]
      /\ current_task' = first
      /\ active' = [active EXCEPT ![first] = <<below, n>>]
      /\ UNCHANGED <<bottom_task, halted>>
  BY DEF StepFirstDown
<1>2. top_queue \in Levels /\ below \in Levels /\ below # top_queue
  <2>1. top_queue \in Levels
    BY DEF IInv, TypeOK
  <2>2. top_queue + 1 # top_queue
    BY <2>1 DEF Levels
  <2> QED
    BY <2>1, <2>2
<1>3. count \in [Levels -> 0..PAGE] /\ slot \in [Levels -> [Slots -> Entries]]
      /\ active \in [Tasks -> Places \cup {None}]
  BY DEF IInv, TypeOK
<1>4. count' \in [Levels -> 0..PAGE] /\ count'[Bottom] >= count[Bottom]
  <2> HIDE DEF below, first, n
  <2>1. n \in 0..PAGE /\ count[top_queue] - 1 \in 0..PAGE
    BY <1>1, <1>2, <1>3 DEF Slots
  <2> DEFINE one == [count EXCEPT ![top_queue] = count[top_queue] - 1]
  <2>2. count' \in [Levels -> 0..PAGE]
    <3>1. one \in [Levels -> 0..PAGE]
      BY <1>2, <1>3, <2>1, Updated
    <3>2. count' = [one EXCEPT ![below] = n]
      BY <1>1
    <3> HIDE DEF one
    <3>3. [one EXCEPT ![below] = n] \in [Levels -> 0..PAGE]
      BY <1>2, <2>1, <3>1, Updated
    <3> QED
      BY <3>2, <3>3
  <2>3. CASE below = Bottom
    <3>1. count'[Bottom] = n
      BY <1>1, <1>2, <1>3, <2>1, <2>3
    <3>2. n = count[Bottom] + 1 /\ count[Bottom] \in 0..PAGE
      BY <1>3, <2>3 DEF n
    <3> QED
      BY <2>2, <3>1, <3>2
  <2>4. CASE below # Bottom
    <3>1. count'[Bottom] = count[Bottom] /\ count[Bottom] \in 0..PAGE
      BY <1>1, <1>2, <1>3, <2>4
    <3> QED
      BY <2>2, <3>1
  <2> QED
    BY <2>2, <2>3, <2>4
<1>5. void \in {Empty, Garbage}
  BY DEF IInv, TypeOK
<1>6. \A l \in Levels : slot'[l] = IF l = top_queue THEN rest
                                   ELSE IF l = below THEN [slot[below] EXCEPT ![n] = first]
                                   ELSE slot[l]
  <2> HIDE DEF below, first, n
  <2> QED
    BY <1>1, <1>2, <1>3
<1>7. \A l \in Levels : \A i \in Slots : slot'[l][i] \in Tasks \cup {Empty, void}
  <2> HIDE DEF below, first, n
  <2> SUFFICES ASSUME NEW l \in Levels, NEW i \in Slots
               PROVE  slot'[l][i] \in Tasks \cup {Empty, void}
    OBVIOUS
  <2>1. \A m \in Levels : slot[m][i] \in Tasks \cup {Empty, void}
    BY DEF IInv, SlotsOK
  <2>2. CASE l = top_queue
    BY <1>6, <2>2
  <2>3. CASE l # top_queue /\ l = below
    <3>1. slot'[l] = [slot[below] EXCEPT ![n] = first] /\ slot[below] \in [Slots -> Entries]
      BY <1>2, <1>3, <1>6, <2>3
    <3> QED
      BY <1>1, <1>2, <2>1, <3>1
  <2>4. CASE l # top_queue /\ l # below
    BY <1>6, <2>1, <2>4
  <2> QED
    BY <2>2, <2>3, <2>4
<1>8. slot' \in [Levels -> [Slots -> Entries]]
  <2> HIDE DEF below, first, n
  <2>1. rest \in [Slots -> Entries]
    BY <1>5 DEF Entries
  <2>2. [slot[below] EXCEPT ![n] = first] \in [Slots -> Entries]
    BY <1>1, <1>2, <1>3 DEF Entries
  <2>3. slot' = [l \in Levels |-> slot'[l]]
    BY <1>1, <1>3
  <2> QED
    BY <1>2, <1>3, <1>6, <2>1, <2>2, <2>3
<1>9. active' \in [Tasks -> Places \cup {None}]
      /\ \A t \in Tasks : active[t] # None => active'[t] # None
  <2>1. <<below, n>> \in Places /\ <<below, n>> # None
    BY <1>1, <1>2 DEF Places
  <2> HIDE DEF below, first, n
  <2> QED
    BY <1>1, <1>3, <2>1
<1>10. top_queue' \in Levels
  BY <1>2
<1>11. QueuesTyped'
  <2> HIDE DEF below, first, n
  <2>1. current_task' \in Tasks \cup {Boot}
    BY <1>1
  <2>2. bottom_task' \in 1..(PAGE + 1) /\ halted' \in BOOLEAN
    BY <1>1 DEF IInv, TypeOK
  <2> QED
    BY <1>4, <1>8, <1>9, <1>10, <2>1, <2>2 DEF QueuesTyped
<1> QED
  BY <1>4, <1>7, <1>9, <1>11 DEF ScheduleResult

LEMMA RestOf ==
  ASSUME IInv
  PROVE  /\ [slot[top_queue] EXCEPT ![1] = Empty]
              \in [Slots -> Tasks \cup {Empty, void}]
         /\ count[top_queue] \in Slots =>
              [slot[top_queue] EXCEPT ![1] = slot[top_queue][count[top_queue]],
                                      ![count[top_queue]] = Empty]
              \in [Slots -> Tasks \cup {Empty, void}]
<1>1. top_queue \in Levels /\ slot[top_queue] \in [Slots -> Entries]
  BY DEF IInv, TypeOK
<1>2. slot[top_queue] \in [Slots -> Tasks \cup {Empty, void}]
  BY <1>1 DEF IInv, SlotsOK
<1> QED
  BY <1>2

LEMMA ScheduleKeeps == ASSUME IInv, Schedule PROVE ScheduleResult
<1> USE LevelFacts
<1>1. CASE ScheduleBottom
  BY <1>1, BottomResult
<1>2. CASE ScheduleGeneral
  <2>1. top_queue # Bottom /\ count[top_queue] \in Slots /\ count[top_queue] >= 1
        /\ top_queue' = top_queue
    BY <1>2 DEF ScheduleGeneral, Slots
  <2> QED
    BY <1>2, <2>1, RestOf, StepDownResult DEF ScheduleGeneral
<1>3. CASE ScheduleStepDown
  <2>1. top_queue # Bottom /\ count[top_queue] >= 1 /\ top_queue' = top_queue + 1
    BY <1>3 DEF ScheduleStepDown
  <2> QED
    BY <1>3, <2>1, RestOf, StepDownResult DEF ScheduleStepDown
<1>4. CASE ScheduleNoTask
  <2>1. /\ UNCHANGED <<count, slot, top_queue, bottom_task, active, current_task, void>>
        /\ halted' = TRUE
    BY <1>4 DEF ScheduleNoTask, queueVars, DispatchFrame
  <2>2. QueuesTyped'
    BY <2>1 DEF QueuesTyped, IInv, TypeOK
  <2>3. \A l \in Levels : \A i \in Slots : slot'[l][i] \in Tasks \cup {Empty, void}
    BY <2>1 DEF IInv, SlotsOK
  <2>4. count'[Bottom] >= count[Bottom]
    BY <2>1 DEF IInv, TypeOK
  <2> QED
    BY <2>1, <2>2, <2>3, <2>4 DEF ScheduleResult
<1> QED
  BY <1>1, <1>2, <1>3, <1>4 DEF Schedule
-----------------------------------------------------------------------------
(* The two steps that dispatch.                                             *)
LEMMA DispatchKeeps ==
  ASSUME IInv, Schedule, \/ sas' = sas
                         \/ sas.pc = "yield" /\ sas' = [sas EXCEPT !.pc = "scan"]
  PROVE  IInv'
<1> USE LevelFacts
<1>1. ScheduleResult /\ UNCHANGED <<tokens, timer_on, booted, act, void>>
  BY ScheduleKeeps DEF Schedule, ScheduleBottom, ScheduleGeneral, ScheduleStepDown,
     ScheduleNoTask, StepFirstDown, DispatchFrame
<1>2. TypeOK'
  BY <1>1 DEF IInv, TypeOK, ScheduleResult, QueuesTyped
<1>3. SlotsOK' /\ ActOK'
  BY <1>1 DEF IInv, SlotsOK, ActOK, ScheduleResult
<1>4. SasOK'
  <2>1. CASE sas' = sas
    <3>1. count[Bottom] \in Nat /\ count'[Bottom] \in Nat /\ count'[Bottom] >= count[Bottom]
      BY <1>1 DEF IInv, TypeOK, ScheduleResult, QueuesTyped
    <3> QED
      BY <1>1, <2>1, <3>1 DEF IInv, SasOK, ScheduleResult, Erases, Lifts
  <2>2. CASE sas.pc = "yield" /\ sas' = [sas EXCEPT !.pc = "scan"]
    <3>1. sas'.pc = "scan"
      BY <2>2 DEF IInv, TypeOK
    <3> QED
      BY <3>1 DEF SasOK, Erases, Lifts
  <2> QED
    BY <2>1, <2>2
<1> QED
  BY <1>2, <1>3, <1>4 DEF IInv

(* The fields of the two unfinished operations, one by one.                 *)
LEMMA Fields ==
  ASSUME IInv
  PROVE  /\ count \in [Levels -> 0..PAGE] /\ tokens \in [Tasks -> Nat] /\ SasTyped
         /\ act.task \in Tasks \cup {None} /\ act.n \in 0..PAGE
         /\ sas.at \in 1..(PAGE + 1) /\ sas.last \in 0..PAGE
         /\ sas.place \in Places \cup {None}
         /\ sas.highest \in Tasks \cup {None} /\ sas.highestTokens \in Nat
  BY DEF IInv, TypeOK, SasTyped

(* The slot that the scan looks at or fills.                                *)
LEMMA ScannedSlot ==
  ASSUME IInv, sas.pc \in Erases \cup {"look", "age"}
  PROVE  sas.at \in Slots /\ sas.at + 1 \in 1..(PAGE + 1)
<1>1. sas.at \in Slots
  BY DEF IInv, SasOK
<1> QED
  BY <1>1, LevelFacts DEF Slots

(* A step of the maintenance task that writes none of the shared words.     *)
LEMMA LocalKeeps ==
  ASSUME IInv,
         UNCHANGED <<queueVars, current_task, tokens, timer_on, booted, act, void, halted>>,
         SasTyped', SasOK'
  PROVE  IInv'
<1>1. QueuesTyped' /\ OthersTyped'
  BY DEF IInv, TypeOK, QueuesTyped, OthersTyped, queueVars
<1>2. SlotsOK' /\ ActOK'
  BY DEF IInv, SlotsOK, ActOK, queueVars
<1> QED
  BY <1>1, <1>2 DEF IInv, TypeOK, QueuesTyped, OthersTyped, SasTyped

LEMMA ActivateExtend_IInv == ASSUME IInv, ActivateExtend PROVE IInv'
<1> USE LevelFacts, NameFacts
<1>1. QueuesTyped'
  <2>1. count \in [Levels -> 0..PAGE] /\ (act.n + 1) \in 0..PAGE /\ QueueOf(act.task) \in Levels
    <3>1. act.n < PAGE /\ act.task \in Tasks
      BY DEF IInv, ActOK, ActivateExtend
    <3> QED
      BY <3>1, Fields
  <2>2. count' = [count EXCEPT ![QueueOf(act.task)] = (act.n + 1)]
    BY DEF ActivateExtend
  <2>3. count' \in [Levels -> 0..PAGE]
    BY <2>1, <2>2, Updated
  <2> QED
    BY <2>3 DEF QueuesTyped, IInv, TypeOK, ActivateExtend
<1>2. OthersTyped'
  BY ShapeAssumption DEF OthersTyped, IInv, TypeOK, ActivateExtend, ActivatorRuns
<1>3. SasTyped'
  BY DEF SasTyped, IInv, TypeOK, ActivateExtend, ActivatorRuns, Slots
<1>4. SlotsOK'
  BY DEF IInv, TypeOK, SlotsOK, ActivateExtend, ActivatorRuns, Slots
<1>5. ActOK'
  BY DEF IInv, TypeOK, ActOK, ActivateExtend, ActivatorRuns
<1>6. SasOK'
  BY DEF IInv, TypeOK, SasOK, ActivateExtend, ActivatorRuns, Slots, Places, Erases, Lifts
<1> QED
  BY <1>1, <1>2, <1>3, <1>4, <1>5, <1>6
  DEF IInv, TypeOK, QueuesTyped, OthersTyped, SasTyped

LEMMA ActivatePlace_IInv == ASSUME IInv, ActivatePlace PROVE IInv'
<1> USE LevelFacts, NameFacts
<1>1. QueuesTyped'
  BY DEF QueuesTyped, IInv, TypeOK, ActivatePlace, ActivatorRuns, Slots, Entries,
     Places, SasOK, ActOK
<1>2. OthersTyped'
  BY ShapeAssumption DEF OthersTyped, IInv, TypeOK, ActivatePlace, ActivatorRuns,
     ActOK
<1>3. SasTyped'
  BY DEF SasTyped, IInv, TypeOK, ActivatePlace, ActivatorRuns, Slots
<1>4. SlotsOK'
  <2>1. act.task \in Tasks /\ slot \in [Levels -> [Slots -> Entries]]
    BY DEF IInv, TypeOK, ActOK, ActivatePlace
  <2> DEFINE l == QueueOf(act.task)
             n == count[l]
  <2>2. l \in Levels /\ n \in Slots
    BY <2>1 DEF ActivatePlace
  <2>3. UNCHANGED void /\ slot' = [slot EXCEPT ![l][n] = act.task]
    BY DEF ActivatePlace
  <2> HIDE DEF l, n
  <2> QED
    BY <2>1, <2>2, <2>3 DEF IInv, SlotsOK
<1>5. ActOK'
  BY DEF IInv, TypeOK, ActOK, ActivatePlace, ActivatorRuns
<1>6. SasOK'
  BY DEF IInv, TypeOK, SasOK, ActivatePlace, ActivatorRuns, Slots, Places, Erases, Lifts
<1> QED
  BY <1>1, <1>2, <1>3, <1>4, <1>5, <1>6
  DEF IInv, TypeOK, QueuesTyped, OthersTyped, SasTyped

LEMMA ActivateRaise_IInv == ASSUME IInv, ActivateRaise PROVE IInv'
<1> USE LevelFacts, NameFacts
<1>1. QueuesTyped'
  BY DEF QueuesTyped, IInv, TypeOK, ActivateRaise, ActivatorRuns, RaiseTop,
     Slots, Entries, Places, SasOK, ActOK
<1>2. OthersTyped'
  <2>1. booted' \in 0..Len(BootOrder)
    BY LenFact DEF IInv, TypeOK, ActivateRaise, SasOK, ActOK
  <2>2. tokens' \in [Tasks -> Nat]
    <3>1. act.task \in Tasks
      BY DEF IInv, ActOK, ActivateRaise
    <3>2. Priority[act.task] \in Nat
      BY <3>1, ShapeAssumption
    <3> QED
      BY <3>1, <3>2, Fields DEF ActivateRaise
  <2> QED
    BY <2>1, <2>2 DEF OthersTyped, IInv, TypeOK, ActivateRaise
<1>3. SasTyped'
  BY DEF SasTyped, IInv, TypeOK, ActivateRaise, ActivatorRuns, RaiseTop, Slots
<1>4. SlotsOK'
  BY DEF IInv, TypeOK, SlotsOK, ActivateRaise, ActivatorRuns, RaiseTop, Slots
<1>5. ActOK'
  BY DEF IInv, TypeOK, ActOK, ActivateRaise, ActivatorRuns, RaiseTop
<1>6. SasOK'
  BY DEF IInv, TypeOK, SasOK, ActivateRaise, ActivatorRuns, RaiseTop, Slots, Places, Erases, Lifts
<1> QED
  BY <1>1, <1>2, <1>3, <1>4, <1>5, <1>6
  DEF IInv, TypeOK, QueuesTyped, OthersTyped, SasTyped

LEMMA StartTimer_IInv == ASSUME IInv, StartTimer PROVE IInv'
<1> USE LevelFacts, NameFacts
<1>1. QueuesTyped'
  BY DEF QueuesTyped, IInv, TypeOK, StartTimer, queueVars, Slots, Entries, Places
<1>2. OthersTyped'
  BY ShapeAssumption DEF OthersTyped, IInv, TypeOK, StartTimer, queueVars
<1>3. SasTyped'
  BY DEF SasTyped, IInv, TypeOK, StartTimer, queueVars, Slots
<1>4. SlotsOK'
  BY DEF IInv, TypeOK, SlotsOK, StartTimer, queueVars, Slots
<1>5. ActOK'
  BY DEF IInv, TypeOK, ActOK, StartTimer, queueVars
<1>6. SasOK'
  BY DEF IInv, TypeOK, SasOK, StartTimer, queueVars, Slots, Places, Erases, Lifts
<1> QED
  BY <1>1, <1>2, <1>3, <1>4, <1>5, <1>6
  DEF IInv, TypeOK, QueuesTyped, OthersTyped, SasTyped

LEMMA SasLook_IInv == ASSUME IInv, SasLook PROVE IInv'
<1>1. PICK pc \in {"look", "end"} :
        sas' = [sas EXCEPT !.pc = pc] /\ (pc = "look" => Scanning)
  BY DEF SasLook
<1>2. UNCHANGED <<queueVars, current_task, tokens, timer_on, booted, act, void, halted>>
  BY DEF SasLook
<1>3. SasTyped'
  BY <1>1, Fields DEF SasTyped
<1>4. SasOK'
  <2>1. sas'.pc = pc /\ sas'.at = sas.at
    BY <1>1, Fields DEF SasTyped
  <2>2. CASE pc = "look"
    <3>1. sas.at \in Slots /\ count'[Bottom] >= 1
      BY <1>1, <1>2, <2>2, Fields, LevelFacts DEF Scanning, Slots, queueVars
    <3> QED
      BY <2>1, <2>2, <3>1 DEF SasOK, Erases, Lifts
  <2>3. CASE pc = "end"
    BY <2>1, <2>3 DEF SasOK, Erases, Lifts
  <2> QED
    BY <2>2, <2>3
<1> QED
  BY <1>2, <1>3, <1>4, LocalKeeps

LEMMA SasFindHole_IInv == ASSUME IInv, SasFindHole PROVE IInv'
<1>1. sas' = [sas EXCEPT !.pc = "hole"] /\ sas.pc = "look"
  BY DEF SasFindHole
<1>2. UNCHANGED <<queueVars, current_task, tokens, timer_on, booted, act, void, halted>>
  BY DEF SasFindHole
<1>3. SasTyped'
  BY <1>1, Fields DEF SasTyped
<1>4. SasOK'
  <2>1. sas'.pc = "hole" /\ sas'.at = sas.at
    BY <1>1, Fields DEF SasTyped
  <2> QED
    BY <1>1, <1>2, <2>1 DEF IInv, SasOK, Erases, Lifts, queueVars
<1> QED
  BY <1>2, <1>3, <1>4, LocalKeeps

LEMMA SasFindTask_IInv == ASSUME IInv, SasFindTask PROVE IInv'
<1>1. sas' = [sas EXCEPT !.pc = "age"] /\ sas.pc = "look"
  BY DEF SasFindTask
<1>2. UNCHANGED <<queueVars, current_task, tokens, timer_on, booted, act, void, halted>>
  BY DEF SasFindTask
<1>3. SasTyped'
  BY <1>1, Fields DEF SasTyped
<1>4. SasOK'
  <2>1. sas'.pc = "age" /\ sas'.at = sas.at
    BY <1>1, Fields DEF SasTyped
  <2> QED
    BY <1>1, <2>1 DEF IInv, SasOK, Erases, Lifts
<1> QED
  BY <1>2, <1>3, <1>4, LocalKeeps

LEMMA SasTakeLast_IInv == ASSUME IInv, SasTakeLast PROVE IInv'
<1>1. sas' = [sas EXCEPT !.pc = "fill", !.last = count[Bottom]] /\ sas.pc = "hole"
  BY DEF SasTakeLast
<1>2. UNCHANGED <<queueVars, current_task, tokens, timer_on, booted, act, void, halted>>
  BY DEF SasTakeLast
<1>3. SasTyped'
  BY <1>1, Fields, LevelFacts DEF SasTyped
<1>4. SasOK'
  <2>1. sas'.pc = "fill" /\ sas'.at = sas.at /\ sas'.last = count[Bottom]
    BY <1>1, Fields DEF SasTyped
  <2> QED
    BY <1>1, <1>2, <2>1 DEF IInv, SasOK, Erases, Lifts, queueVars
<1> QED
  BY <1>2, <1>3, <1>4, LocalKeeps

LEMMA SasAge_IInv == ASSUME IInv, SasAge PROVE IInv'
<1> USE LevelFacts, NameFacts
<1>1. QueuesTyped'
  BY DEF QueuesTyped, IInv, TypeOK, SasAge, SasRuns, Scanning, IsVoid, At,
     queueVars, Slots, Entries, Places
<1>2. OthersTyped'
  <2>1. At \in Tasks /\ tokens[At] + 1 \in Nat /\ tokens \in [Tasks -> Nat]
    BY Fields DEF SasAge
  <2>2. tokens' \in [Tasks -> Nat]
    BY <2>1 DEF SasAge
  <2> QED
    BY <2>2 DEF OthersTyped, IInv, TypeOK, SasAge
<1>3. SasTyped'
  <2>1. /\ At \in Tasks /\ tokens[At] \in Nat
        /\ sas.at \in 1..(PAGE + 1) /\ sas.at + 1 \in 1..(PAGE + 1)
        /\ SasTyped
    BY ScannedSlot, Fields DEF SasAge
  <2> DEFINE h == IF tokens[At] > sas.highestTokens THEN At ELSE sas.highest
             ht == IF tokens[At] > sas.highestTokens THEN tokens[At] ELSE sas.highestTokens
  <2>2. h \in Tasks \cup {None} /\ ht \in Nat
    BY <2>1 DEF SasTyped
  <2>3. sas' = [sas EXCEPT !.pc = "yield", !.at = sas.at + 1, !.highest = h, !.highestTokens = ht]
    BY DEF SasAge
  <2> HIDE DEF h, ht
  <2> QED
    BY <2>1, <2>2, <2>3 DEF SasTyped
<1>4. SlotsOK'
  BY DEF IInv, TypeOK, SlotsOK, SasAge, SasRuns, Scanning, IsVoid, At, queueVars,
     Slots
<1>5. ActOK'
  BY DEF IInv, TypeOK, ActOK, SasAge, SasRuns, Scanning, IsVoid, At, queueVars
<1>6. SasOK'
  BY DEF IInv, TypeOK, SasOK, SasAge, SasRuns, Scanning, IsVoid, At, queueVars,
     Slots, Places, Erases, Lifts
<1> QED
  BY <1>1, <1>2, <1>3, <1>4, <1>5, <1>6
  DEF IInv, TypeOK, QueuesTyped, OthersTyped, SasTyped

LEMMA SasSkip_IInv == ASSUME IInv, SasSkip PROVE IInv'
<1>1. sas' = [sas EXCEPT !.pc = "yield", !.at = sas.at + 1] /\ sas.pc = "age"
  BY DEF SasSkip
<1>2. UNCHANGED <<queueVars, current_task, tokens, timer_on, booted, act, void, halted>>
  BY DEF SasSkip
<1>3. SasTyped'
  BY <1>1, Fields, ScannedSlot DEF SasTyped
<1>4. SasOK'
  <2>1. sas'.pc = "yield"
    BY <1>1, Fields DEF SasTyped
  <2> QED
    BY <2>1 DEF SasOK, Erases, Lifts
<1> QED
  BY <1>2, <1>3, <1>4, LocalKeeps

LEMMA SasFill_IInv == ASSUME IInv, SasFill PROVE IInv'
<1> USE LevelFacts, NameFacts
<1>1. QueuesTyped'
  <2>1. /\ Bottom \in Levels /\ sas.at \in Slots /\ sas.last \in Slots
        /\ slot \in [Levels -> [Slots -> Entries]]
    BY DEF IInv, TypeOK, SasFill, Slots, SasOK, Erases
  <2>2. slot' \in [Levels -> [Slots -> Entries]]
    BY <2>1 DEF SasFill
  <2> QED
    BY <2>2 DEF QueuesTyped, IInv, TypeOK, SasFill
<1>2. OthersTyped'
  BY ShapeAssumption DEF OthersTyped, IInv, TypeOK, SasFill, SasRuns
<1>3. SasTyped'
  BY DEF SasTyped, IInv, TypeOK, SasFill, SasRuns, Slots
<1>4. SlotsOK'
  <2>3. sas.at \in Slots /\ sas.last >= 1
    BY DEF IInv, SasOK, SasFill, Erases
  <2>4. sas.last \in Slots
    BY <2>3, Fields DEF Slots
  <2>1. /\ Bottom \in Levels /\ sas.at \in Slots /\ sas.last \in Slots
        /\ slot \in [Levels -> [Slots -> Entries]]
        /\ slot[Bottom][sas.last] \in Tasks \cup {Empty, void}
    BY <2>3, <2>4 DEF IInv, TypeOK, SlotsOK
  <2>2. UNCHANGED void /\ slot' = [slot EXCEPT ![Bottom][sas.at] = slot[Bottom][sas.last]]
    BY DEF SasFill
  <2> QED
    BY <2>1, <2>2 DEF IInv, SlotsOK
<1>5. ActOK'
  BY DEF IInv, TypeOK, ActOK, SasFill, SasRuns
<1>6. SasOK'
  BY DEF IInv, TypeOK, SasOK, SasFill, SasRuns, Slots, Places, Erases, Lifts
<1> QED
  BY <1>1, <1>2, <1>3, <1>4, <1>5, <1>6
  DEF IInv, TypeOK, QueuesTyped, OthersTyped, SasTyped

LEMMA SasClear_IInv == ASSUME IInv, SasClear PROVE IInv'
<1> USE LevelFacts, NameFacts
<1>1. QueuesTyped'
  <2>1. Bottom \in Levels /\ sas.last \in 0..PAGE
        /\ slot \in [Levels -> [Slots -> Entries]]
    BY Fields DEF IInv, TypeOK
  <2>2. slot' \in [Levels -> [Slots -> Entries]]
    BY <2>1 DEF SasClear, Entries
  <2> QED
    BY <2>2 DEF QueuesTyped, IInv, TypeOK, SasClear
<1>2. OthersTyped'
  BY ShapeAssumption DEF OthersTyped, IInv, TypeOK, SasClear, SasRuns
<1>3. SasTyped'
  BY DEF SasTyped, IInv, TypeOK, SasClear, SasRuns, Slots
<1>4. SlotsOK'
  <2>1. slot' = [slot EXCEPT ![Bottom][sas.last] = Empty] /\ UNCHANGED void
    BY DEF SasClear
  <2>2. slot \in [Levels -> [Slots -> Entries]]
    BY DEF IInv, TypeOK
  <2>3. \A l \in Levels : \A i \in Slots : slot'[l][i] \in {slot[l][i], Empty}
    BY <2>1, <2>2
  <2>4. \A l \in Levels : \A i \in Slots : slot[l][i] \in Tasks \cup {Empty, void}
    BY DEF IInv, SlotsOK
  <2> QED
    BY <2>1, <2>3, <2>4 DEF SlotsOK
<1>5. ActOK'
  <2>1. UNCHANGED <<act, timer_on, booted>> /\ ActOK
    BY DEF SasClear, IInv
  <2> QED
    BY <2>1 DEF ActOK
<1>6. SasOK'
  BY DEF IInv, TypeOK, SasOK, SasClear, SasRuns, Slots, Places, Erases, Lifts
<1> QED
  BY <1>1, <1>2, <1>3, <1>4, <1>5, <1>6
  DEF IInv, TypeOK, QueuesTyped, OthersTyped, SasTyped

LEMMA SasFollow_IInv == ASSUME IInv, SasFollow PROVE IInv'
<1> USE LevelFacts, NameFacts
<1>1. /\ sas' = [sas EXCEPT !.pc = "load"] /\ sas.pc = "follow"
      /\ UNCHANGED <<count, slot, top_queue, bottom_task, current_task, tokens,
                     timer_on, booted, act, void>>
  BY DEF SasFollow
<1>2. active' \in [Tasks -> Places \cup {None}] /\ halted' \in BOOLEAN
  <2>1. CASE At \in Tasks
    <3>1. <<Bottom, sas.at>> \in Places
      BY <1>1, ScannedSlot DEF Places, Erases
    <3>2. active' = [active EXCEPT ![At] = <<Bottom, sas.at>>] /\ UNCHANGED halted
      BY <2>1 DEF SasFollow
    <3> QED
      BY <2>1, <3>1, <3>2 DEF IInv, TypeOK
  <2>2. CASE At \notin Tasks
    BY <2>2 DEF SasFollow, IInv, TypeOK
  <2> QED
    BY <2>1, <2>2
<1>3. QueuesTyped' /\ OthersTyped'
  BY <1>1, <1>2 DEF QueuesTyped, OthersTyped, IInv, TypeOK
<1>4. SasTyped'
  BY <1>1, Fields DEF SasTyped
<1>5. SlotsOK' /\ ActOK'
  BY <1>1 DEF IInv, SlotsOK, ActOK
<1>6. SasOK'
  <2>1. sas'.pc = "load" /\ sas'.at = sas.at
    BY <1>1, Fields DEF SasTyped
  <2> QED
    BY <1>1, <2>1 DEF IInv, SasOK, Erases, Lifts
<1> QED
  BY <1>3, <1>4, <1>5, <1>6
  DEF IInv, TypeOK, QueuesTyped, OthersTyped, SasTyped

LEMMA SasLoad_IInv == ASSUME IInv, SasLoad PROVE IInv'
<1> USE LevelFacts, NameFacts
<1>1. QueuesTyped'
  BY DEF QueuesTyped, IInv, TypeOK, SasLoad, SasRuns, queueVars, Slots, Entries,
     Places
<1>2. OthersTyped'
  BY ShapeAssumption DEF OthersTyped, IInv, TypeOK, SasLoad, SasRuns, queueVars
<1>3. SasTyped'
  BY DEF SasTyped, IInv, TypeOK, SasLoad, SasRuns, queueVars, Slots
<1>4. SlotsOK'
  BY DEF IInv, TypeOK, SlotsOK, SasLoad, SasRuns, queueVars, Slots
<1>5. ActOK'
  BY DEF IInv, TypeOK, ActOK, SasLoad, SasRuns, queueVars
<1>6. SasOK'
  BY DEF IInv, TypeOK, SasOK, SasLoad, SasRuns, queueVars, Slots, Places, Erases, Lifts
<1> QED
  BY <1>1, <1>2, <1>3, <1>4, <1>5, <1>6
  DEF IInv, TypeOK, QueuesTyped, OthersTyped, SasTyped

LEMMA SasStore_IInv == ASSUME IInv, SasStore PROVE IInv'
<1> USE LevelFacts, NameFacts
<1>1. QueuesTyped'
  <2>1. count \in [Levels -> 0..PAGE] /\ (sas.last - 1) \in 0..PAGE /\ Bottom \in Levels
    <3>1. sas.last >= 1
      BY DEF IInv, SasOK, SasStore
    <3> QED
      BY <3>1, Fields
  <2>2. count' = [count EXCEPT ![Bottom] = (sas.last - 1)]
    BY DEF SasStore
  <2>3. count' \in [Levels -> 0..PAGE]
    BY <2>1, <2>2, Updated
  <2> QED
    BY <2>3 DEF QueuesTyped, IInv, TypeOK, SasStore
<1>2. OthersTyped'
  BY ShapeAssumption DEF OthersTyped, IInv, TypeOK, SasStore, SasRuns
<1>3. SasTyped'
  BY DEF SasTyped, IInv, TypeOK, SasStore, SasRuns, Slots
<1>4. SlotsOK'
  BY DEF IInv, TypeOK, SlotsOK, SasStore, SasRuns, Slots
<1>5. ActOK'
  BY DEF IInv, TypeOK, ActOK, SasStore, SasRuns
<1>6. SasOK'
  BY DEF IInv, TypeOK, SasOK, SasStore, SasRuns, Slots, Places, Erases, Lifts
<1> QED
  BY <1>1, <1>2, <1>3, <1>4, <1>5, <1>6
  DEF IInv, TypeOK, QueuesTyped, OthersTyped, SasTyped

LEMMA SasWrap_IInv == ASSUME IInv, SasWrap PROVE IInv'
<1> USE LevelFacts, NameFacts
<1>1. QueuesTyped'
  <2>1. bottom_task' \in 1..(PAGE + 1)
    BY DEF IInv, TypeOK, SasWrap
  <2>2. UNCHANGED <<count, slot, top_queue, current_task, active, halted>>
    BY DEF SasWrap
  <2> QED
    BY <2>1, <2>2 DEF QueuesTyped, IInv, TypeOK
<1>2. OthersTyped'
  BY ShapeAssumption DEF OthersTyped, IInv, TypeOK, SasWrap, SasRuns
<1>3. SasTyped'
  <2>1. sas.at + 1 \in 1..(PAGE + 1) /\ SasTyped
    BY ScannedSlot, Fields DEF SasWrap, Erases
  <2>2. sas' = [sas EXCEPT !.pc = "yield", !.at = sas.at + 1]
    BY DEF SasWrap
  <2> QED
    BY <2>1, <2>2 DEF SasTyped
<1>4. SlotsOK'
  BY DEF IInv, TypeOK, SlotsOK, SasWrap, SasRuns, Slots
<1>5. ActOK'
  BY DEF IInv, TypeOK, ActOK, SasWrap, SasRuns
<1>6. SasOK'
  BY DEF IInv, TypeOK, SasOK, SasWrap, SasRuns, Slots, Places, Erases, Lifts
<1> QED
  BY <1>1, <1>2, <1>3, <1>4, <1>5, <1>6
  DEF IInv, TypeOK, QueuesTyped, OthersTyped, SasTyped

LEMMA SasEndScan_IInv == ASSUME IInv, SasEndScan PROVE IInv'
<1> USE LevelFacts, NameFacts
<1>1. QueuesTyped'
  BY DEF QueuesTyped, IInv, TypeOK, SasEndScan, SasRuns, Scanning, queueVars,
     Slots, Entries, Places
<1>2. OthersTyped'
  <2>1. tokens' \in [Tasks -> Nat]
    <3>1. CASE tokens' = tokens
      BY <3>1 DEF IInv, TypeOK
    <3>2. CASE sas.highest # None
               /\ tokens' = [tokens EXCEPT ![sas.highest] = Priority[sas.highest]]
      <4>1. sas.highest \in Tasks
        BY <3>2 DEF IInv, TypeOK
      <4>2. Priority[sas.highest] \in Nat
        BY <4>1, ShapeAssumption
      <4> QED
        BY <3>2, <4>1, <4>2 DEF IInv, TypeOK
    <3> QED
      BY <3>1, <3>2 DEF SasEndScan
  <2> QED
    BY <2>1 DEF OthersTyped, IInv, TypeOK, SasEndScan, queueVars
<1>3. SasTyped'
  <2>1. SasTyped
    BY DEF IInv, TypeOK, SasTyped
  <2>2. PICK pc \in {"vacate", "yield"} :
          sas' = [sas EXCEPT !.pc = pc, !.at = 1, !.highestTokens = 0]
    BY DEF SasEndScan
  <2>3. sas' \in [pc : {"vacate", "yield"}, at : {1}, last : 0..PAGE,
                  place : Places \cup {None}, highest : Tasks \cup {None}, highestTokens : {0}]
    BY <2>1, <2>2 DEF SasTyped
  <2> QED
    BY <2>3 DEF SasTyped
<1>4. SlotsOK'
  BY DEF IInv, TypeOK, SlotsOK, SasEndScan, SasRuns, Scanning, queueVars, Slots
<1>5. ActOK'
  BY DEF IInv, TypeOK, ActOK, SasEndScan, SasRuns, Scanning, queueVars
<1>6. SasOK'
  BY DEF IInv, TypeOK, SasOK, SasEndScan, SasRuns, Scanning, queueVars, Slots,
     Places, Erases, Lifts
<1> QED
  BY <1>1, <1>2, <1>3, <1>4, <1>5, <1>6
  DEF IInv, TypeOK, QueuesTyped, OthersTyped, SasTyped

LEMMA SasVacate_IInv == ASSUME IInv, SasVacate PROVE IInv'
<1>1. /\ sas' = [sas EXCEPT !.pc = "void", !.place = active[sas.highest]]
      /\ sas.highest \in Tasks /\ active[sas.highest] # None
      /\ active[sas.highest] \in Places \cup {None}
  BY DEF SasVacate, IInv, TypeOK, SasOK, Lifts
<1>2. UNCHANGED <<queueVars, current_task, tokens, timer_on, booted, act, void, halted>>
  BY DEF SasVacate
<1>3. SasTyped'
  BY <1>1, Fields DEF SasTyped
<1>4. SasOK'
  <2>1. /\ sas'.pc = "void" /\ sas'.highest = sas.highest
        /\ sas'.place = active[sas.highest]
    BY <1>1, Fields DEF SasTyped
  <2> QED
    BY <1>1, <1>2, <2>1 DEF SasOK, Erases, Lifts, queueVars
<1> QED
  BY <1>2, <1>3, <1>4, LocalKeeps

LEMMA SasVoid_IInv == ASSUME IInv, SasVoid PROVE IInv'
<1> USE LevelFacts, NameFacts
<1>0. PICK l \in Levels, i \in Slots : sas.place = <<l, i>>
  <2>1. sas.place \in Levels \X Slots
    BY Fields DEF IInv, SasOK, SasVoid, Places
  <2> QED
    BY <2>1
<1>1. /\ sas.pc = "void" /\ sas' = [sas EXCEPT !.pc = "begin", !.place = None]
      /\ slot' = [slot EXCEPT ![l][i] = void]
      /\ UNCHANGED <<count, top_queue, bottom_task, active, current_task, tokens,
                     timer_on, booted, act, void, halted>>
  BY <1>0 DEF SasVoid, IInv, SasOK
<1>2. QueuesTyped'
  <2>1. slot \in [Levels -> [Slots -> Entries]] /\ void \in Entries
    BY DEF IInv, TypeOK, Entries
  <2>2. slot' \in [Levels -> [Slots -> Entries]]
    BY <1>1, <2>1
  <2> QED
    BY <1>1, <2>2 DEF QueuesTyped, IInv, TypeOK
<1>3. OthersTyped' /\ ActOK'
  BY <1>1 DEF OthersTyped, ActOK, IInv, TypeOK
<1>4. SasTyped'
  BY <1>1, Fields DEF SasTyped
<1>5. SlotsOK'
  BY <1>1 DEF IInv, TypeOK, SlotsOK
<1>6. SasOK'
  <2>1. sas'.pc = "begin" /\ sas'.highest = sas.highest
    BY <1>1, Fields DEF SasTyped
  <2> QED
    BY <1>1, <2>1 DEF IInv, SasOK, Erases, Lifts
<1> QED
  BY <1>2, <1>3, <1>4, <1>5, <1>6
  DEF IInv, TypeOK, QueuesTyped, OthersTyped, SasTyped

LEMMA SasLiftBegin_IInv == ASSUME IInv, SasLiftBegin PROVE IInv'
<1> USE LevelFacts, NameFacts
<1>1. QueuesTyped'
  BY DEF QueuesTyped, IInv, TypeOK, SasLiftBegin, SasRuns, queueVars, Slots,
     Entries, Places
<1>2. OthersTyped'
  BY ShapeAssumption DEF OthersTyped, IInv, TypeOK, SasLiftBegin, SasRuns, queueVars
<1>3. SasTyped'
  BY DEF SasTyped, IInv, TypeOK, SasLiftBegin, SasRuns, queueVars, Slots
<1>4. SlotsOK'
  BY DEF IInv, TypeOK, SlotsOK, SasLiftBegin, SasRuns, queueVars, Slots
<1>5. ActOK'
  BY DEF IInv, TypeOK, ActOK, SasLiftBegin, SasRuns, queueVars
<1>6. SasOK'
  BY DEF IInv, TypeOK, SasOK, SasLiftBegin, SasRuns, queueVars, Slots, Places, Erases, Lifts
<1> QED
  BY <1>1, <1>2, <1>3, <1>4, <1>5, <1>6
  DEF IInv, TypeOK, QueuesTyped, OthersTyped, SasTyped

LEMMA SasLiftExtend_IInv == ASSUME IInv, SasLiftExtend PROVE IInv'
<1> USE LevelFacts, NameFacts
<1>1. QueuesTyped'
  <2>1. count \in [Levels -> 0..PAGE] /\ (sas.last + 1) \in 0..PAGE /\ LiftQueue \in Levels
    BY Fields DEF SasLiftExtend
  <2>2. count' = [count EXCEPT ![LiftQueue] = (sas.last + 1)]
    BY DEF SasLiftExtend
  <2>3. count' \in [Levels -> 0..PAGE]
    BY <2>1, <2>2, Updated
  <2> QED
    BY <2>3 DEF QueuesTyped, IInv, TypeOK, SasLiftExtend
<1>2. OthersTyped'
  BY ShapeAssumption DEF OthersTyped, IInv, TypeOK, SasLiftExtend, SasRuns
<1>3. SasTyped'
  BY DEF SasTyped, IInv, TypeOK, SasLiftExtend, SasRuns, Slots
<1>4. SlotsOK'
  BY DEF IInv, TypeOK, SlotsOK, SasLiftExtend, SasRuns, Slots
<1>5. ActOK'
  BY DEF IInv, TypeOK, ActOK, SasLiftExtend, SasRuns
<1>6. SasOK'
  BY DEF IInv, TypeOK, SasOK, SasLiftExtend, SasRuns, Slots, Places, Erases, Lifts
<1> QED
  BY <1>1, <1>2, <1>3, <1>4, <1>5, <1>6
  DEF IInv, TypeOK, QueuesTyped, OthersTyped, SasTyped

LEMMA SasLiftPlace_IInv == ASSUME IInv, SasLiftPlace PROVE IInv'
<1> USE LevelFacts, NameFacts
<1>1. QueuesTyped'
  BY DEF QueuesTyped, IInv, TypeOK, SasLiftPlace, SasRuns, Slots, Entries,
     Places, SasOK, Lifts
<1>2. OthersTyped'
  BY ShapeAssumption DEF OthersTyped, IInv, TypeOK, SasLiftPlace, SasRuns
<1>3. SasTyped'
  <2>1. PICK p \in Places : sas' = [sas EXCEPT !.pc = "word", !.place = p]
    BY DEF SasLiftPlace
  <2> QED
    BY <2>1, Fields DEF SasTyped
<1>4. SlotsOK'
  <2>1. slot' = [slot EXCEPT ![LiftQueue][count[LiftQueue]] = sas.highest]
        /\ UNCHANGED void /\ sas.highest \in Tasks
    BY DEF SasLiftPlace, IInv, SasOK, Lifts
  <2>2. slot \in [Levels -> [Slots -> Entries]]
    BY DEF IInv, TypeOK
  <2>3. \A l \in Levels : \A i \in Slots : slot'[l][i] \in {slot[l][i], sas.highest}
    BY <2>1, <2>2
  <2>4. \A l \in Levels : \A i \in Slots : slot[l][i] \in Tasks \cup {Empty, void}
    BY DEF IInv, SlotsOK
  <2> QED
    BY <2>1, <2>3, <2>4 DEF SlotsOK
<1>5. ActOK'
  BY DEF IInv, TypeOK, ActOK, SasLiftPlace, SasRuns
<1>6. SasOK'
  BY DEF IInv, TypeOK, SasOK, SasLiftPlace, SasRuns, Slots, Places, Erases, Lifts
<1> QED
  BY <1>1, <1>2, <1>3, <1>4, <1>5, <1>6
  DEF IInv, TypeOK, QueuesTyped, OthersTyped, SasTyped

LEMMA SasLiftWord_IInv == ASSUME IInv, SasLiftWord PROVE IInv'
<1> USE LevelFacts, NameFacts
<1>1. /\ sas.pc = "word" /\ sas' = [sas EXCEPT !.pc = "raise", !.place = None]
      /\ active' = [active EXCEPT ![sas.highest] = sas.place]
      /\ UNCHANGED <<count, slot, top_queue, bottom_task, current_task, tokens,
                     timer_on, booted, act, void, halted>>
  BY DEF SasLiftWord
<1>2. sas.highest \in Tasks /\ sas.place # None /\ sas.place \in Places \cup {None}
  BY <1>1, Fields DEF IInv, SasOK, Lifts
<1>3. QueuesTyped' /\ OthersTyped'
  BY <1>1, <1>2 DEF QueuesTyped, OthersTyped, IInv, TypeOK
<1>4. SasTyped'
  BY <1>1, Fields DEF SasTyped
<1>5. SlotsOK' /\ ActOK'
  BY <1>1 DEF IInv, SlotsOK, ActOK
<1>6. SasOK'
  <2>1. sas'.pc = "raise" /\ sas'.highest = sas.highest
    BY <1>1, Fields DEF SasTyped
  <2>2. active'[sas.highest] # None
    BY <1>1, <1>2 DEF IInv, TypeOK
  <2> QED
    BY <1>2, <2>1, <2>2 DEF SasOK, Erases, Lifts
<1> QED
  BY <1>3, <1>4, <1>5, <1>6
  DEF IInv, TypeOK, QueuesTyped, OthersTyped, SasTyped

LEMMA SasLiftRaise_IInv == ASSUME IInv, SasLiftRaise PROVE IInv'
<1> USE LevelFacts, NameFacts
<1>1. QueuesTyped'
  BY DEF QueuesTyped, IInv, TypeOK, SasLiftRaise, SasRuns, RaiseTop, Slots,
     Entries, Places
<1>2. OthersTyped'
  BY ShapeAssumption DEF OthersTyped, IInv, TypeOK, SasLiftRaise, SasRuns, RaiseTop
<1>3. SasTyped'
  BY DEF SasTyped, IInv, TypeOK, SasLiftRaise, SasRuns, RaiseTop, Slots
<1>4. SlotsOK'
  BY DEF IInv, TypeOK, SlotsOK, SasLiftRaise, SasRuns, RaiseTop, Slots
<1>5. ActOK'
  BY DEF IInv, TypeOK, ActOK, SasLiftRaise, SasRuns, RaiseTop
<1>6. SasOK'
  BY DEF IInv, TypeOK, SasOK, SasLiftRaise, SasRuns, RaiseTop, Slots, Places, Erases, Lifts
<1> QED
  BY <1>1, <1>2, <1>3, <1>4, <1>5, <1>6
  DEF IInv, TypeOK, QueuesTyped, OthersTyped, SasTyped

LEMMA ActivateBegin_IInv ==
  ASSUME IInv, NEW t \in Tasks, ActivateBegin(t) PROVE IInv'
<1> USE LevelFacts
<1>1. count[QueueOf(t)] \in 0..PAGE
  BY DEF IInv, TypeOK
<1>2. TypeOK'
  BY <1>1 DEF IInv, TypeOK, ActivateBegin, queueVars
<1>3. SlotsOK' /\ SasOK'
  BY DEF IInv, SlotsOK, SasOK, ActivateBegin, queueVars
<1>4. ActOK'
  <2>1. ~timer_on => booted < Len(BootOrder)
    BY DEF ActivateBegin, MayActivate
  <2> QED
    BY <2>1 DEF ActOK, ActivateBegin
<1> QED
  BY <1>2, <1>3, <1>4 DEF IInv

LEMMA StutterKeeps == ASSUME IInv, UNCHANGED vars PROVE IInv'
  BY DEF IInv, TypeOK, SlotsOK, ActOK, SasOK, vars

(* No step leaves the inductive invariant.                                  *)
LEMMA NextIInv == ASSUME IInv, [Next]_vars PROVE IInv'
<1>1. CASE ActivateStep
  BY <1>1, ActivateBegin_IInv, ActivateExtend_IInv, ActivatePlace_IInv,
     ActivateRaise_IInv DEF ActivateStep
<1>2. CASE StartTimer
  BY <1>2, StartTimer_IInv
<1>3. CASE TimerTick
  BY <1>3, DispatchKeeps DEF TimerTick
<1>4. CASE SasStep
  <2>1. CASE SasYield
    BY <2>1, DispatchKeeps DEF SasYield
  <2>2. CASE SasLook \/ SasFindHole \/ SasFindTask \/ SasTakeLast
    BY <2>2, SasLook_IInv, SasFindHole_IInv, SasFindTask_IInv, SasTakeLast_IInv
  <2>3. CASE SasAge \/ SasSkip
    BY <2>3, SasAge_IInv, SasSkip_IInv
  <2>4. CASE SasFill \/ SasClear \/ SasFollow
    BY <2>4, SasFill_IInv, SasClear_IInv, SasFollow_IInv
  <2>5. CASE SasLoad \/ SasStore \/ SasWrap
    BY <2>5, SasLoad_IInv, SasStore_IInv, SasWrap_IInv
  <2>6. CASE SasEndScan \/ SasVacate \/ SasVoid
    BY <2>6, SasEndScan_IInv, SasVacate_IInv, SasVoid_IInv
  <2>7. CASE SasLiftBegin \/ SasLiftExtend \/ SasLiftPlace
    BY <2>7, SasLiftBegin_IInv, SasLiftExtend_IInv, SasLiftPlace_IInv
  <2>8. CASE SasLiftWord \/ SasLiftRaise
    BY <2>8, SasLiftWord_IInv, SasLiftRaise_IInv
  <2> QED
    BY <1>4, <2>1, <2>2, <2>3, <2>4, <2>5, <2>6, <2>7, <2>8 DEF SasStep
<1>5. CASE UNCHANGED vars
  BY <1>5, StutterKeeps
<1> QED
  BY <1>1, <1>2, <1>3, <1>4, <1>5 DEF Next, Halted

(* The inductive invariant: types, slots that hold a task, a zero or the    *)
(* void word, and what activation and the maintenance task know midway.     *)
THEOREM RunQueueInvariance == Spec => []IInv
  BY InitIInv, NextIInv, PTL DEF Spec

(* Every queue word, count and local of activation and of the maintenance   *)
(* task stays of its type, and no count leaves its page, for any priorities *)
(* and any boot order.                                                      *)
THEOREM RunQueueTypes == Spec => []TypeOK
<1>1. IInv => TypeOK
  BY DEF IInv
<1> QED
  BY <1>1, RunQueueInvariance, PTL

-----------------------------------------------------------------------------
(* Nothing is queued above the top queue.                                   *)

(* A dispatch moves tasks down only, and steps down from an emptied queue.  *)
LEMMA StepDownTop ==
  ASSUME IInv, top_queue # Bottom, NEW rest, StepFirstDown(rest),
         \/ top_queue' = top_queue
         \/ count[top_queue] = 1 /\ top_queue' = top_queue + 1
  PROVE  \A l \in Levels : l < top_queue' =>
           count'[l] = 0 \/ (l < top_queue /\ count'[l] = count[l])
<1> USE LevelFacts
<1>1. /\ top_queue \in Levels /\ top_queue + 1 \in Levels
      /\ count \in [Levels -> 0..PAGE]
  BY DEF IInv, TypeOK
<1>2. \A l \in Levels : count'[l] = IF l = top_queue + 1 THEN count[top_queue + 1] + 1
                                    ELSE IF l = top_queue THEN count[top_queue] - 1
                                    ELSE count[l]
  BY <1>1 DEF StepFirstDown
<1>3. SUFFICES ASSUME NEW l \in Levels, l < top_queue'
               PROVE  count'[l] = 0 \/ (l < top_queue /\ count'[l] = count[l])
  OBVIOUS
<1>4. l \in Int /\ top_queue \in Int
  BY <1>1 DEF Levels
<1>5. CASE l < top_queue
  <2>1. l # top_queue /\ l # top_queue + 1
    BY <1>4, <1>5
  <2> QED
    BY <1>2, <1>5, <2>1
<1>6. CASE ~(l < top_queue)
  <2>1. l = top_queue /\ count[top_queue] = 1 /\ l # top_queue + 1
    BY <1>3, <1>4, <1>6
  <2>2. count'[l] = count[top_queue] - 1
    BY <1>2, <2>1
  <2> QED
    BY <2>1, <2>2
<1> QED
  BY <1>5, <1>6

LEMMA ScheduleTop ==
  ASSUME IInv, Schedule
  PROVE  \A l \in Levels : l < top_queue' =>
           count'[l] = 0 \/ (l < top_queue /\ count'[l] = count[l])
<1>1. CASE ScheduleBottom \/ ScheduleNoTask
  BY <1>1 DEF ScheduleBottom, ScheduleNoTask, queueVars
<1>2. CASE ScheduleGeneral
  BY <1>2, StepDownTop DEF ScheduleGeneral
<1>3. CASE ScheduleStepDown
  BY <1>3, StepDownTop DEF ScheduleStepDown
<1> QED
  BY <1>1, <1>2, <1>3 DEF Schedule

LEMMA TopDispatch ==
  ASSUME IInv, TopIsTopmost, Schedule,
         \/ sas' = sas
         \/ sas.pc = "yield" /\ sas' = [sas EXCEPT !.pc = "scan"]
  PROVE  TopIsTopmost'
<1>1. act' = act
  BY DEF Schedule, ScheduleBottom, ScheduleGeneral, ScheduleStepDown,
     ScheduleNoTask, StepFirstDown, DispatchFrame
<1>2. sas' = sas \/ sas.pc = "yield"
  OBVIOUS
<1> QED
  BY <1>1, <1>2, ScheduleTop DEF TopIsTopmost, QueueOf, LiftQueue

(* A count grows only between the two halves of an insertion that then      *)
(* raises the top queue to its level.                                       *)
LEMMA TopActivate ==
  ASSUME IInv, TopIsTopmost, ActivateStep PROVE TopIsTopmost'
<1> USE LevelFacts
<1>1. CASE \E t \in Tasks : ActivateBegin(t)
  BY <1>1 DEF ActivateBegin, TopIsTopmost, queueVars
<1>2. CASE ActivateExtend
  <2>1. \A l \in Levels : l # QueueOf(act.task) => count'[l] = count[l]
    BY <1>2 DEF ActivateExtend, IInv, TypeOK
  <2>2. /\ act.pc = "extend" /\ act'.pc = "place" /\ act'.task = act.task
        /\ UNCHANGED <<top_queue, sas>>
    BY <1>2 DEF ActivateExtend, IInv, TypeOK
  <2> QED
    BY <2>1, <2>2 DEF TopIsTopmost, QueueOf
<1>3. CASE ActivatePlace
  <2>1. /\ act'.pc = "raise" /\ act'.task = act.task
        /\ UNCHANGED <<top_queue, sas, count>>
    BY <1>3 DEF ActivatePlace, IInv, TypeOK
  <2> QED
    BY <2>1 DEF TopIsTopmost, QueueOf
<1>4. CASE ActivateRaise
  <2>1. /\ UNCHANGED <<sas, count>> /\ act.task \in Tasks
        /\ top_queue' = IF QueueOf(act.task) < top_queue THEN QueueOf(act.task) ELSE top_queue
    BY <1>4 DEF ActivateRaise, IInv, ActOK, RaiseTop
  <2>2. QueueOf(act.task) \in Int /\ top_queue \in Int
    BY <2>1 DEF IInv, TypeOK, Levels
  <2>3. \A l \in Levels : l < top_queue' => l < top_queue /\ l # QueueOf(act.task)
    BY <2>1, <2>2 DEF Levels
  <2> QED
    BY <2>1, <2>3 DEF TopIsTopmost
<1> QED
  BY <1>1, <1>2, <1>3, <1>4 DEF ActivateStep

(* The same for a lift; erasing a hole shrinks the bottom queue, which is   *)
(* never above the top queue.                                               *)
LEMMA TopSas ==
  ASSUME IInv, TopIsTopmost, SasStep PROVE TopIsTopmost'
<1> USE LevelFacts
<1>1. CASE SasYield
  BY <1>1, TopDispatch DEF SasYield
<1>2. CASE \/ SasLook \/ SasFindHole \/ SasFindTask \/ SasTakeLast \/ SasAge
           \/ SasSkip \/ SasFill \/ SasClear \/ SasFollow \/ SasLoad \/ SasWrap
           \/ SasEndScan \/ SasVacate \/ SasVoid \/ SasLiftBegin
  <2>1. UNCHANGED <<count, top_queue, act>> /\ sas.pc \notin {"place", "word", "raise"}
    BY <1>2 DEF SasLook, SasFindHole, SasFindTask, SasTakeLast, SasAge, SasSkip,
       SasFill, SasClear, SasFollow, SasLoad, SasWrap, SasEndScan,
       SasVacate, SasVoid, SasLiftBegin, queueVars
  <2> QED
    BY <2>1 DEF TopIsTopmost, QueueOf
<1>3. CASE SasStore
  <2>1. \A l \in Levels : l # Bottom => count'[l] = count[l]
    BY <1>3 DEF SasStore, IInv, TypeOK
  <2>2. UNCHANGED <<top_queue, act>> /\ sas.pc = "store"
    BY <1>3 DEF SasStore
  <2>3. \A l \in Levels : l < top_queue => l # Bottom
    BY DEF IInv, TypeOK, Levels, Bottom
  <2> QED
    BY <2>1, <2>2, <2>3 DEF TopIsTopmost, QueueOf
<1>4. CASE SasLiftExtend
  <2>1. \A l \in Levels : l # LiftQueue => count'[l] = count[l]
    BY <1>4 DEF SasLiftExtend, IInv, TypeOK
  <2>2. UNCHANGED <<top_queue, act>> /\ sas.pc = "extend" /\ sas'.pc = "place"
    BY <1>4 DEF SasLiftExtend, IInv, TypeOK
  <2> QED
    BY <2>1, <2>2 DEF TopIsTopmost, QueueOf, LiftQueue
<1>5. CASE SasLiftPlace \/ SasLiftWord
  <2>1. /\ UNCHANGED <<count, top_queue, act>>
        /\ sas.pc \in {"place", "word"} /\ sas'.pc \in {"word", "raise"}
    BY <1>5 DEF SasLiftPlace, SasLiftWord, IInv, TypeOK
  <2> QED
    BY <2>1 DEF TopIsTopmost, QueueOf, LiftQueue
<1>6. CASE SasLiftRaise
  <2>1. /\ UNCHANGED <<count, act>>
        /\ top_queue' = IF LiftQueue < top_queue THEN LiftQueue ELSE top_queue
    BY <1>6 DEF SasLiftRaise, RaiseTop
  <2>2. LiftQueue \in Int /\ top_queue \in Int
    BY DEF IInv, TypeOK, Levels
  <2>3. \A l \in Levels : l < top_queue' => l < top_queue /\ l # LiftQueue
    BY <2>1, <2>2 DEF Levels
  <2> QED
    BY <2>1, <2>3 DEF TopIsTopmost, QueueOf
<1> QED
  BY <1>1, <1>2, <1>3, <1>4, <1>5, <1>6 DEF SasStep

LEMMA InitTop == Init => TopIsTopmost
  BY DEF Init, TopIsTopmost

LEMMA NextTop == ASSUME IInv, TopIsTopmost, [Next]_vars PROVE TopIsTopmost'
<1>1. CASE ActivateStep
  BY <1>1, TopActivate
<1>2. CASE StartTimer
  BY <1>2 DEF StartTimer, TopIsTopmost, queueVars, QueueOf
<1>3. CASE TimerTick
  BY <1>3, TopDispatch DEF TimerTick
<1>4. CASE SasStep
  BY <1>4, TopSas
<1>5. CASE UNCHANGED vars
  BY <1>5 DEF vars, TopIsTopmost, QueueOf
<1> QED
  BY <1>1, <1>2, <1>3, <1>4, <1>5 DEF Next, Halted

(* The dispatcher never overlooks a task queued above the level at which it *)
(* starts to look, although activations, lifts and dispatches interleave at *)
(* every access: only the entry of an insertion that has yet to raise the   *)
(* top queue may be above it.                                               *)
THEOREM NothingAboveTop == Spec => []TopIsTopmost
<1>1. Init => TopIsTopmost
  BY InitTop
<1>2. IInv /\ TopIsTopmost /\ [Next]_vars => TopIsTopmost'
  BY NextTop
<1> QED
  BY <1>1, <1>2, RunQueueInvariance, PTL DEF Spec
=============================================================================
