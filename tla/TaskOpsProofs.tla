---------------------------- MODULE TaskOpsProofs ---------------------------
(* Proofs about TaskOps, for any number of levels, slots and tasks and any  *)
(* priorities, boot order, late activations and set of tasks that may kill  *)
(* themselves, wherever in its work a kill() finds the maintenance task.    *)
EXTENDS TaskOps, RunQueueOrderProofs

LEMMA Shape ==
  /\ PAGE \in Nat /\ PAGE >= 1
  /\ Bottom \in Levels /\ LiftQueue \in Levels
  /\ \A t \in Tasks : QueueOf(t) \in Levels
  /\ \A l \in Levels : l # Bottom => l + 1 \in Levels /\ l + 1 # l
  BY ShapeAssumption DEF Bottom, Levels, LiftQueue, QueueOf

LEMMA Names ==
  /\ Sas \in Tasks /\ Ipc \in Tasks /\ Boot \notin Tasks
  /\ None \notin Tasks /\ None \notin Places
  /\ Empty \notin Tasks /\ Garbage \notin Tasks
  /\ VoidReads \subseteq {Empty, Garbage}
  /\ Killers \subseteq Tasks \ {Sas, Ipc}
  BY NamesAssumption, KillersAssumption

LEMMA BootLen == Len(BootOrder) \in Nat
  BY ShapeAssumption

(* A function stays one of its type when one of its values is replaced.     *)
LEMMA Replaced ==
  ASSUME NEW S, NEW T, NEW f \in [S -> T], NEW x \in S, NEW y \in T
  PROVE  [f EXCEPT ![x] = y] \in [S -> T]
  OBVIOUS

-----------------------------------------------------------------------------
(* The inductive invariant.                                                 *)
Upto == 0..PAGE
Words == Tasks \cup {Empty, void}

QueueTypes ==
  /\ count \in [Levels -> Upto]
  /\ slot \in [Levels -> [Slots -> Words]]
  /\ top_queue \in Levels
  /\ bottom_task \in 1..(PAGE + 1)
  /\ current_task \in Tasks \cup {Boot}
  /\ active \in [Tasks -> Places \cup {None}]

FlagTypes ==
  /\ tokens \in [Tasks -> Nat]
  /\ timer_on \in BOOLEAN /\ halted \in BOOLEAN
  /\ booted \in 0..Len(BootOrder)
  /\ void \in VoidReads
  /\ dead \in SUBSET Killers /\ caught \in BOOLEAN

ActTypes ==
  /\ act \in [pc : {"idle", "extend", "place", "raise"},
              task : Tasks \cup {None}, n : Upto]
  /\ act.pc # "idle" => act.task \in Tasks /\ (~timer_on => booted < Len(BootOrder))

Points == {"scan", "look", "age", "yield", "end"} \cup Erases \cup Lifts

SasTypes ==
  /\ sas \in [pc : Points, at : 1..(PAGE + 1), last : Upto,
              place : Places \cup {None}, highest : Tasks \cup {None},
              highestTokens : Nat]
  /\ sas.pc = "clear" => sas.last \in Slots
  /\ sas.pc \in Erases \cup {"look", "age"} => sas.at \in Slots
  /\ sas.pc \in Lifts => sas.highest \in Tasks
  /\ sas.pc = "word" => sas.place \in Places

Typed == QueueTypes /\ FlagTypes /\ ActTypes /\ SasTypes

(* The task that a dispatch has made run owns the slot its word names.      *)
Owns ==
  ~halted /\ current_task \in Tasks \ {Sas, Ipc} =>
    /\ active[current_task] \in Places
    /\ slot[active[current_task][1]][active[current_task][2]] = current_task

OpsInv == Typed /\ Owns

LEMMA InitOpsInv == OpsInit => OpsInv
<1> SUFFICES ASSUME OpsInit PROVE OpsInv
  OBVIOUS
<1> USE Shape, Names, BootLen DEF OpsInit, Init
<1>1. QueueTypes
  BY DEF QueueTypes, Upto, Words
<1>2. FlagTypes
  <2>1. \A t \in Tasks : Priority[t] \in Nat
    BY ShapeAssumption
  <2>2. tokens \in [Tasks -> Nat]
    BY <2>1
  <2>3. booted \in 0..Len(BootOrder)
    <3>1. booted = 0
      OBVIOUS
    <3> QED
      BY <3>1, BootLen
  <2>4. timer_on = FALSE /\ halted = FALSE /\ void \in VoidReads
    OBVIOUS
  <2>5. dead \in SUBSET Killers /\ caught \in BOOLEAN
    OBVIOUS
  <2> QED
    BY <2>2, <2>3, <2>4, <2>5 DEF FlagTypes
<1>3. ActTypes /\ SasTypes
  BY DEF ActTypes, SasTypes, Points, Erases, Lifts, Upto
<1>4. Owns
  BY DEF Owns
<1> QED
  BY <1>1, <1>2, <1>3, <1>4 DEF OpsInv, Typed

(* What the invariant says of each variable.                                *)
LEMMA TypedFacts ==
  ASSUME Typed
  PROVE  /\ \A l \in Levels : count[l] \in 0..PAGE
         /\ \A l \in Levels : \A i \in Slots : slot[l][i] \in Words
         /\ \A t \in Tasks : active[t] \in Places \cup {None}
         /\ act.n \in 0..PAGE /\ act.task \in Tasks \cup {None}
         /\ sas.at \in 1..(PAGE + 1) /\ sas.last \in 0..PAGE
         /\ sas.highest \in Tasks \cup {None} /\ sas.highestTokens \in Nat
         /\ sas.place \in Places \cup {None}
  BY Shape DEF Typed, QueueTypes, ActTypes, SasTypes, Upto

-----------------------------------------------------------------------------
(* Scheduler_t                                                              *)

(* What the dispatcher leaves behind.                                       *)
Dispatched ==
  /\ QueueTypes' /\ Owns' /\ halted' \in BOOLEAN
  /\ UNCHANGED <<tokens, timer_on, booted, act, void>>

LEMMA BottomDispatches == ASSUME Typed, ScheduleBottom PROVE Dispatched
<1> USE Shape, Names
<1>1. PICK i \in Slots :
        /\ slot[Bottom][i] \in Tasks
        /\ current_task' = slot[Bottom][i]
        /\ active' = [active EXCEPT ![slot[Bottom][i]] = <<Bottom, i>>]
        /\ bottom_task' = AfterHit(i)
  BY DEF ScheduleBottom
<1>2. UNCHANGED <<count, slot, top_queue, halted, tokens, timer_on, booted, act, void>>
  BY DEF ScheduleBottom, DispatchFrame
<1>3. /\ count \in [Levels -> Upto] /\ slot \in [Levels -> [Slots -> Words]]
      /\ top_queue \in Levels /\ halted \in BOOLEAN /\ bottom_task \in 1..(PAGE + 1)
      /\ active \in [Tasks -> Places \cup {None}]
  BY DEF Typed, QueueTypes, FlagTypes
<1>4. bottom_task' \in 1..(PAGE + 1)
  <2>1. count[Bottom] \in 0..PAGE
    BY TypedFacts
  <2>2. Advanced \in 1..(PAGE + 1)
    BY <1>3, <2>1 DEF Advanced
  <2> QED
    BY <1>1, <2>2 DEF AfterHit, Slots
<1>5. <<Bottom, i>> \in Places
  BY DEF Places
<1>6. active' \in [Tasks -> Places \cup {None}]
      /\ active'[slot[Bottom][i]] = <<Bottom, i>>
  BY <1>1, <1>3, <1>5
<1>7. QueueTypes'
  <2>1. slot' \in [Levels -> [Slots -> Words']]
    BY <1>2, <1>3 DEF Words
  <2> QED
    BY <1>1, <1>2, <1>3, <1>4, <1>6, <2>1 DEF QueueTypes
<1>8. Owns'
  BY <1>1, <1>2, <1>5, <1>6 DEF Owns
<1> QED
  BY <1>2, <1>3, <1>7, <1>8, TypedFacts DEF Dispatched

LEMMA StepDownDispatches ==
  ASSUME Typed, top_queue # Bottom, count[top_queue] >= 1,
         NEW rest \in [Slots -> Words],
         StepFirstDown(rest), top_queue' \in {top_queue, top_queue + 1}
  PROVE  Dispatched
<1> USE Shape, Names
<1> DEFINE below == top_queue + 1
           first == slot[top_queue][1]
           n == count[below] + 1
<1>1. /\ first \in Tasks /\ n \in Slots
      /\ count' = [count EXCEPT ![top_queue] = count[top_queue] - 1, ![below] = n]
      /\ slot' = [slot EXCEPT ![below][n] = first, ![top_queue] = rest]
      /\ current_task' = first
      /\ active' = [active EXCEPT ![first] = <<below, n>>]
      /\ UNCHANGED <<bottom_task, halted, tokens, timer_on, booted, act, void>>
  BY DEF StepFirstDown, DispatchFrame
<1>2. /\ count \in [Levels -> Upto] /\ slot \in [Levels -> [Slots -> Words]]
      /\ top_queue \in Levels /\ halted \in BOOLEAN /\ bottom_task \in 1..(PAGE + 1)
      /\ active \in [Tasks -> Places \cup {None}]
  BY DEF Typed, QueueTypes, FlagTypes
<1>3. below \in Levels /\ below # top_queue
  BY <1>2
<1>4. count[below] \in 0..PAGE /\ count[top_queue] \in 0..PAGE
  BY <1>2, <1>3, TypedFacts
<1> HIDE DEF below, first, n
<1>7. count' \in [Levels -> Upto]
  <2>1. n \in Upto /\ count[top_queue] - 1 \in Upto
    BY <1>1, <1>4 DEF Upto, Slots
  <2>2. [count EXCEPT ![top_queue] = count[top_queue] - 1] \in [Levels -> Upto]
    BY <1>2, <2>1, Replaced
  <2> QED
    BY <1>1, <1>3, <2>1, <2>2, Replaced
<1>8. \A l \in Levels : slot'[l] = IF l = top_queue THEN rest
                                   ELSE IF l = below THEN [slot[below] EXCEPT ![n] = first]
                                   ELSE slot[l]
  BY <1>1, <1>2
<1>9. slot' \in [Levels -> [Slots -> Words']]
  <2>1. Words' = Words
    BY <1>1 DEF Words
  <2>2. [slot[below] EXCEPT ![n] = first] \in [Slots -> Words]
    BY <1>1, <1>2, <1>3 DEF Words
  <2>3. slot' = [l \in Levels |-> slot'[l]]
    BY <1>1, <1>2
  <2> QED
    BY <1>2, <1>3, <1>8, <2>1, <2>2, <2>3
<1>10. <<below, n>> \in Places
  BY <1>1, <1>3 DEF Places
<1>11. active' \in [Tasks -> Places \cup {None}] /\ active'[first] = <<below, n>>
  BY <1>1, <1>2, <1>10
<1>12. QueueTypes'
  <2>1. top_queue' \in Levels
    BY <1>2
  <2> QED
    BY <1>1, <1>2, <1>7, <1>9, <1>11, <2>1 DEF QueueTypes
<1>13. Owns'
  <2>1. slot'[below][n] = first
    <3>1. slot'[below] = [slot[below] EXCEPT ![n] = first]
      BY <1>3, <1>8
    <3>2. slot[below] \in [Slots -> Words]
      BY <1>2, <1>3
    <3> QED
      BY <1>1, <3>1, <3>2
  <2> QED
    BY <1>1, <1>10, <1>11, <2>1 DEF Owns
<1> QED
  BY <1>1, <1>2, <1>12, <1>13 DEF Dispatched

(* The queue that the first task has left.                                  *)
LEMMA Rests ==
  ASSUME Typed
  PROVE  /\ [slot[top_queue] EXCEPT ![1] = Empty] \in [Slots -> Words]
         /\ count[top_queue] \in Slots =>
              [slot[top_queue] EXCEPT ![1] = slot[top_queue][count[top_queue]],
                                      ![count[top_queue]] = Empty]
              \in [Slots -> Words]
<1>1. slot[top_queue] \in [Slots -> Words]
  BY DEF Typed, QueueTypes
<1>2. Empty \in Words
  BY DEF Words
<1> QED
  BY <1>1, <1>2

LEMMA ScheduleDispatches == ASSUME Typed, Schedule PROVE Dispatched
<1> USE Shape
<1>1. CASE ScheduleBottom
  BY <1>1, BottomDispatches
<1>2. CASE ScheduleGeneral
  <2>1. top_queue # Bottom /\ count[top_queue] \in Slots /\ count[top_queue] >= 1
        /\ top_queue' = top_queue
    BY <1>2 DEF ScheduleGeneral, Slots
  <2> QED
    BY <1>2, <2>1, Rests, StepDownDispatches DEF ScheduleGeneral
<1>3. CASE ScheduleStepDown
  <2>1. top_queue # Bottom /\ count[top_queue] >= 1 /\ top_queue' = top_queue + 1
    BY <1>3 DEF ScheduleStepDown
  <2> QED
    BY <1>3, <2>1, Rests, StepDownDispatches DEF ScheduleStepDown
<1>4. CASE ScheduleNoTask
  <2>1. /\ UNCHANGED <<count, slot, top_queue, bottom_task, active, current_task,
                       tokens, timer_on, booted, act, void>>
        /\ halted' = TRUE
    BY <1>4 DEF ScheduleNoTask, queueVars, DispatchFrame
  <2>2. QueueTypes'
    <3>1. Words' = Words
      BY <2>1 DEF Words
    <3> QED
      BY <2>1, <3>1 DEF QueueTypes, Typed
  <2>3. Owns'
    BY <2>1 DEF Owns
  <2> QED
    BY <2>1, <2>2, <2>3, TypedFacts DEF Dispatched
<1> QED
  BY <1>1, <1>2, <1>3, <1>4 DEF Schedule

(* The two steps that dispatch: the timer, and the end of a pass of the     *)
(* maintenance task.                                                        *)
LEMMA ScheduleKeepsOps ==
  ASSUME OpsInv, Schedule, UNCHANGED <<dead, caught>>,
         \/ sas' = sas
         \/ sas.pc = "yield" /\ sas' = [sas EXCEPT !.pc = "scan"]
  PROVE  OpsInv'
<1>1. Dispatched
  BY ScheduleDispatches DEF OpsInv
<1>2. QueueTypes' /\ FlagTypes' /\ ActTypes'
  BY <1>1 DEF Dispatched, OpsInv, Typed, FlagTypes, ActTypes
<1>3. SasTypes'
  BY DEF OpsInv, Typed, SasTypes, Points, Erases, Lifts
<1> QED
  BY <1>1, <1>2, <1>3 DEF OpsInv, Typed, Dispatched

-----------------------------------------------------------------------------
(* Everything else but kill() is done by the activating thread or by the    *)
(* maintenance task, and dispatches nothing.                                *)
LEMMA OthersOwnNothing ==
  ASSUME UNCHANGED current_task, OpsInv,
         current_task \in {Sas, Ipc, Boot} \/ UNCHANGED <<active, slot, halted>>
  PROVE  Owns'
<1>1. CASE current_task \in {Sas, Ipc, Boot}
  BY <1>1, Names DEF Owns
<1>2. CASE UNCHANGED <<active, slot, halted>>
  BY <1>2 DEF OpsInv, Owns
<1> QED
  BY <1>1, <1>2

(* The steps of an activation.                                              *)
LEMMA BeginKeeps ==
  ASSUME OpsInv, NEW t \in Tasks, ActivateBegin(t), UNCHANGED <<dead, caught>>
  PROVE  OpsInv'
<1> USE Shape
<1>1. /\ act' = [pc |-> "extend", task |-> t, n |-> count[QueueOf(t)]]
      /\ UNCHANGED <<queueVars, current_task, tokens, timer_on, booted, sas, void, halted>>
      /\ ~timer_on => booted < Len(BootOrder)
  BY DEF ActivateBegin, MayActivate
<1>2. count[QueueOf(t)] \in Upto
  BY DEF OpsInv, Typed, QueueTypes
<1>3. QueueTypes' /\ FlagTypes' /\ SasTypes'
  BY <1>1 DEF OpsInv, Typed, QueueTypes, FlagTypes, SasTypes, queueVars, Words
<1>4. ActTypes'
  BY <1>1, <1>2 DEF ActTypes
<1>5. Owns'
  BY <1>1, OthersOwnNothing DEF queueVars
<1> QED
  BY <1>3, <1>4, <1>5 DEF OpsInv, Typed

LEMMA ExtendKeeps ==
  ASSUME OpsInv, ActivateExtend, UNCHANGED <<dead, caught>> PROVE OpsInv'
<1> USE Shape
<1> DEFINE l == QueueOf(act.task)
<1>1. /\ act.n < PAGE /\ act.pc = "extend"
      /\ count' = [count EXCEPT ![l] = act.n + 1]
      /\ act' = [act EXCEPT !.pc = "place"]
      /\ UNCHANGED <<slot, top_queue, bottom_task, active, current_task, tokens,
                     timer_on, booted, sas, void, halted>>
  BY DEF ActivateExtend
<1>2. act.task \in Tasks /\ l \in Levels /\ count \in [Levels -> Upto]
  BY <1>1 DEF OpsInv, Typed, ActTypes, QueueTypes
<1>3. act.n \in Int /\ act.n + 1 \in Upto
  BY <1>1, TypedFacts DEF OpsInv, Upto
<1> HIDE DEF l
<1>4. QueueTypes'
  <2>1. count' \in [Levels -> Upto]
    BY <1>1, <1>2, <1>3, Replaced
  <2> QED
    BY <1>1, <2>1 DEF OpsInv, Typed, QueueTypes, Words
<1>5. FlagTypes' /\ ActTypes' /\ SasTypes'
  BY <1>1 DEF OpsInv, Typed, FlagTypes, ActTypes, SasTypes
<1>6. Owns'
  BY <1>1, OthersOwnNothing
<1> QED
  BY <1>4, <1>5, <1>6 DEF OpsInv, Typed, FlagTypes

LEMMA PlaceKeeps ==
  ASSUME OpsInv, ActivatePlace, UNCHANGED <<dead, caught>> PROVE OpsInv'
<1> USE Shape
<1> DEFINE l == QueueOf(act.task)
           n == count[l]
<1>1. /\ n \in Slots /\ act.pc = "place"
      /\ slot' = [slot EXCEPT ![l][n] = act.task]
      /\ active' = [active EXCEPT ![act.task] = <<l, n>>]
      /\ act' = [act EXCEPT !.pc = "raise"]
      /\ UNCHANGED <<count, top_queue, bottom_task, current_task, tokens, timer_on,
                     booted, sas, void, halted>>
      /\ current_task \in {Ipc, Boot}
  BY DEF ActivatePlace, ActivatorRuns
<1>2. act.task \in Tasks /\ l \in Levels
  BY <1>1 DEF OpsInv, Typed, ActTypes
<1> HIDE DEF l, n
<1>3. QueueTypes'
  <2>1. slot \in [Levels -> [Slots -> Words]] /\ active \in [Tasks -> Places \cup {None}]
    BY DEF OpsInv, Typed, QueueTypes
  <2>2. slot' \in [Levels -> [Slots -> Words']]
    <3>1. act.task \in Words /\ Words' = Words
      BY <1>1, <1>2 DEF Words
    <3> QED
      BY <1>1, <1>2, <2>1, <3>1
  <2>3. <<l, n>> \in Places
    BY <1>1, <1>2 DEF Places
  <2>4. active' \in [Tasks -> Places \cup {None}]
    BY <1>1, <1>2, <2>1, <2>3
  <2> QED
    BY <1>1, <2>2, <2>4 DEF OpsInv, Typed, QueueTypes
<1>4. FlagTypes' /\ ActTypes' /\ SasTypes'
  BY <1>1 DEF OpsInv, Typed, FlagTypes, ActTypes, SasTypes
<1>5. Owns'
  BY <1>1, OthersOwnNothing
<1> QED
  BY <1>3, <1>4, <1>5 DEF OpsInv, Typed

LEMMA RaiseKeeps ==
  ASSUME OpsInv, ActivateRaise, UNCHANGED <<dead, caught>> PROVE OpsInv'
<1> USE Shape, BootLen
<1>1. /\ act.pc = "raise" /\ RaiseTop(QueueOf(act.task))
      /\ tokens' = [tokens EXCEPT ![act.task] = Priority[act.task]]
      /\ booted' = IF timer_on THEN booted ELSE booted + 1
      /\ act' = [pc |-> "idle", task |-> None, n |-> 0]
      /\ UNCHANGED <<count, slot, bottom_task, active, current_task, timer_on, sas,
                     void, halted>>
  BY DEF ActivateRaise
<1>2. act.task \in Tasks /\ (~timer_on => booted < Len(BootOrder))
  BY <1>1 DEF OpsInv, Typed, ActTypes
<1>3. QueueTypes'
  <2>1. top_queue' \in Levels
    BY <1>1, <1>2 DEF RaiseTop, OpsInv, Typed, QueueTypes
  <2> QED
    BY <1>1, <2>1 DEF OpsInv, Typed, QueueTypes, Words
<1>4. FlagTypes'
  <2>1. Priority[act.task] \in Nat
    BY <1>2, ShapeAssumption
  <2>2. tokens' \in [Tasks -> Nat]
    BY <1>1, <1>2, <2>1 DEF OpsInv, Typed, FlagTypes
  <2>3. booted' \in 0..Len(BootOrder)
    BY <1>1, <1>2 DEF OpsInv, Typed, FlagTypes
  <2> QED
    BY <1>1, <2>2, <2>3 DEF OpsInv, Typed, FlagTypes
<1>5. ActTypes' /\ SasTypes'
  BY <1>1 DEF OpsInv, Typed, ActTypes, SasTypes, Upto
<1>6. Owns'
  BY <1>1, OthersOwnNothing
<1> QED
  BY <1>3, <1>4, <1>5, <1>6 DEF OpsInv, Typed

LEMMA StartKeeps ==
  ASSUME OpsInv, StartTimer, UNCHANGED <<dead, caught>> PROVE OpsInv'
<1>1. /\ timer_on' = TRUE
      /\ UNCHANGED <<queueVars, current_task, tokens, booted, act, sas, void, halted>>
  BY DEF StartTimer
<1>2. QueueTypes' /\ FlagTypes' /\ ActTypes' /\ SasTypes'
  BY <1>1 DEF OpsInv, Typed, QueueTypes, FlagTypes, ActTypes, SasTypes, queueVars, Words
<1>3. Owns'
  BY <1>1 DEF OpsInv, Owns, queueVars
<1> QED
  BY <1>2, <1>3 DEF OpsInv, Typed

-----------------------------------------------------------------------------
(* The steps of the maintenance task.                                       *)
LEMMA SasFrame ==
  ASSUME OpsInv, SasRuns,
         UNCHANGED <<current_task, timer_on, booted, act, void, dead, caught>>,
         QueueTypes', SasTypes', tokens' \in [Tasks -> Nat], halted' \in BOOLEAN
  PROVE  OpsInv'
<1>1. FlagTypes' /\ ActTypes'
  BY DEF OpsInv, Typed, FlagTypes, ActTypes
<1>2. Owns'
  BY OthersOwnNothing DEF SasRuns
<1> QED
  BY <1>1, <1>2 DEF OpsInv, Typed

(* The slot that the scan has come to.                                      *)
LEMMA Scanned ==
  ASSUME OpsInv, sas.pc \in Erases \cup {"look", "age"}
  PROVE  /\ sas.at \in Slots /\ sas.at + 1 \in 1..(PAGE + 1)
         /\ At \in Words
<1>1. sas.at \in Slots
  BY DEF OpsInv, Typed, SasTypes
<1>2. slot[Bottom][sas.at] \in Words
  BY <1>1, Shape, TypedFacts DEF OpsInv
<1> QED
  BY <1>1, <1>2, Shape DEF Slots, At

(* The steps that change the locals of the maintenance task, and tokens.    *)
SasOnly ==
  /\ SasRuns /\ UNCHANGED <<queueVars, current_task, timer_on, booted, act, void, halted>>
  /\ UNCHANGED <<dead, caught>>

LEMMA OnlyKeeps ==
  ASSUME OpsInv, SasOnly, SasTypes', tokens' \in [Tasks -> Nat]
  PROVE  OpsInv'
<1>1. QueueTypes' /\ halted' \in BOOLEAN
  BY DEF SasOnly, OpsInv, Typed, QueueTypes, FlagTypes, queueVars, Words
<1> QED
  BY <1>1, SasFrame DEF SasOnly

(* A step to another point of the pass.                                     *)
LEMMA GoneKeeps ==
  ASSUME OpsInv, SasOnly, UNCHANGED tokens,
         NEW pc \in Points \ {"clear", "word"}, sas' = [sas EXCEPT !.pc = pc],
         pc \in Erases \cup {"look", "age"} => sas.at \in Slots,
         pc \in Lifts => sas.highest \in Tasks
  PROVE  OpsInv'
<1>1. sas'.pc = pc /\ sas'.at = sas.at /\ sas'.highest = sas.highest
  BY DEF OpsInv, Typed, SasTypes
<1>2. SasTypes'
  BY <1>1 DEF OpsInv, Typed, SasTypes
<1>3. tokens' \in [Tasks -> Nat]
  BY DEF OpsInv, Typed, FlagTypes
<1> QED
  BY <1>2, <1>3, OnlyKeeps

LEMMA LookKeeps ==
  ASSUME OpsInv, SasLook, UNCHANGED <<dead, caught>> PROVE OpsInv'
<1> DEFINE pc == IF Scanning THEN "look" ELSE "end"
<1>1. /\ SasOnly /\ UNCHANGED tokens /\ sas' = [sas EXCEPT !.pc = pc]
  BY DEF SasLook, SasOnly
<1>2. pc \in Points \ {"clear", "word"} /\ pc \notin Erases \cup Lifts \cup {"age"}
  BY DEF Points, Erases, Lifts
<1>3. pc = "look" => sas.at \in Slots
  <2>1. count[Bottom] \in 0..PAGE /\ sas.at \in 1..(PAGE + 1)
    BY Shape, TypedFacts DEF OpsInv
  <2> QED
    BY <2>1, Shape DEF Slots, Scanning
<1> HIDE DEF pc
<1> QED
  BY <1>1, <1>2, <1>3, GoneKeeps

LEMMA FindKeeps ==
  ASSUME OpsInv, SasFindHole \/ SasFindTask, UNCHANGED <<dead, caught>> PROVE OpsInv'
<1>1. SasOnly /\ UNCHANGED tokens /\ sas.pc = "look"
  BY DEF SasFindHole, SasFindTask, SasOnly
<1>2. \/ sas' = [sas EXCEPT !.pc = "hole"]
      \/ sas' = [sas EXCEPT !.pc = "age"]
  BY DEF SasFindHole, SasFindTask
<1>3. sas.at \in Slots
  BY <1>1, Scanned
<1>4. /\ "hole" \in Points \ {"clear", "word"} /\ "hole" \notin Lifts
      /\ "age" \in Points \ {"clear", "word"} /\ "age" \notin Lifts
  BY DEF Points, Erases, Lifts
<1> QED
  BY <1>1, <1>2, <1>3, <1>4, GoneKeeps

LEMMA TakeLastKeeps ==
  ASSUME OpsInv, SasTakeLast, UNCHANGED <<dead, caught>> PROVE OpsInv'
<1>1. SasOnly /\ tokens' \in [Tasks -> Nat]
  BY DEF SasTakeLast, SasOnly, OpsInv, Typed, FlagTypes
<1>2. sas.pc = "hole" /\ sas' = [sas EXCEPT !.pc = "fill", !.last = count[Bottom]]
  BY DEF SasTakeLast
<1>3. count[Bottom] \in Upto
  BY Shape DEF OpsInv, Typed, QueueTypes
<1>4. SasTypes'
  BY <1>2, <1>3 DEF OpsInv, Typed, SasTypes, Points, Erases, Lifts
<1> QED
  BY <1>1, <1>4, OnlyKeeps

LEMMA AgeKeeps ==
  ASSUME OpsInv, SasAge, UNCHANGED <<dead, caught>> PROVE OpsInv'
<1> DEFINE h == IF tokens[At] > sas.highestTokens THEN At ELSE sas.highest
           ht == IF tokens[At] > sas.highestTokens THEN tokens[At] ELSE sas.highestTokens
<1>1. /\ SasOnly /\ tokens' = [tokens EXCEPT ![At] = tokens[At] + 1]
      /\ sas' = [sas EXCEPT !.pc = "yield", !.at = sas.at + 1,
                            !.highest = h, !.highestTokens = ht]
  BY DEF SasAge, SasOnly
<1>2. At \in Tasks /\ sas.at + 1 \in 1..(PAGE + 1)
  BY Scanned DEF SasAge
<1>3. tokens \in [Tasks -> Nat] /\ tokens[At] \in Nat
  BY <1>2 DEF OpsInv, Typed, FlagTypes
<1>4. h \in Tasks \cup {None} /\ ht \in Nat
  BY <1>2, <1>3, TypedFacts DEF OpsInv
<1> HIDE DEF h, ht
<1>5. SasTypes'
  BY <1>1, <1>2, <1>4 DEF OpsInv, Typed, SasTypes, Points, Erases, Lifts
<1>6. tokens' \in [Tasks -> Nat]
  BY <1>1, <1>2, <1>3
<1> QED
  BY <1>1, <1>5, <1>6, OnlyKeeps

(* The pass goes on to the next slot.                                       *)
LEMMA AdvanceKeeps ==
  ASSUME OpsInv, SasSkip, UNCHANGED <<dead, caught>> PROVE OpsInv'
<1>1. SasOnly /\ tokens' \in [Tasks -> Nat]
  BY DEF SasSkip, SasOnly, OpsInv, Typed, FlagTypes
<1>2. sas' = [sas EXCEPT !.pc = "yield", !.at = sas.at + 1]
  BY DEF SasSkip
<1>3. sas.at + 1 \in 1..(PAGE + 1)
  BY Scanned DEF SasSkip
<1>4. SasTypes'
  BY <1>2, <1>3 DEF OpsInv, Typed, SasTypes, Points, Erases, Lifts
<1> QED
  BY <1>1, <1>4, OnlyKeeps

(* The loads of the two counts.                                             *)
LEMMA LoadKeeps ==
  ASSUME OpsInv, SasLoad, UNCHANGED <<dead, caught>> PROVE OpsInv'
<1>1. SasOnly /\ tokens' \in [Tasks -> Nat]
  BY DEF SasLoad, SasOnly, OpsInv, Typed, FlagTypes
<1>2. sas.pc = "load" /\ sas' = [sas EXCEPT !.pc = "store", !.last = count[Bottom]]
  BY DEF SasLoad
<1>3. count[Bottom] \in Upto
  BY Shape DEF OpsInv, Typed, QueueTypes
<1>4. SasTypes'
  BY <1>2, <1>3 DEF OpsInv, Typed, SasTypes, Points, Erases, Lifts
<1> QED
  BY <1>1, <1>4, OnlyKeeps

LEMMA LiftBeginKeeps ==
  ASSUME OpsInv, SasLiftBegin, UNCHANGED <<dead, caught>> PROVE OpsInv'
<1>1. SasOnly /\ tokens' \in [Tasks -> Nat]
  BY DEF SasLiftBegin, SasOnly, OpsInv, Typed, FlagTypes
<1>2. sas.pc = "begin" /\ sas' = [sas EXCEPT !.pc = "extend", !.last = count[LiftQueue]]
  BY DEF SasLiftBegin
<1>3. count[LiftQueue] \in Upto
  BY Shape DEF OpsInv, Typed, QueueTypes
<1>4. SasTypes'
  BY <1>2, <1>3 DEF OpsInv, Typed, SasTypes, Points, Erases, Lifts
<1> QED
  BY <1>1, <1>4, OnlyKeeps

LEMMA EndScanKeeps ==
  ASSUME OpsInv, SasEndScan, UNCHANGED <<dead, caught>> PROVE OpsInv'
<1> DEFINE lift == sas.highest # None /\ active[sas.highest] # None
<1>1. /\ SasOnly
      /\ sas' = [sas EXCEPT !.pc = IF lift THEN "vacate" ELSE "yield",
                            !.at = 1, !.highestTokens = 0]
      /\ tokens' = IF lift THEN [tokens EXCEPT ![sas.highest] = Priority[sas.highest]]
                           ELSE tokens
  BY DEF SasEndScan, SasOnly
<1>2. lift => sas.highest \in Tasks
  BY TypedFacts DEF OpsInv
<1> HIDE DEF lift
<1>3. tokens' \in [Tasks -> Nat]
  <2>1. tokens \in [Tasks -> Nat]
    BY DEF OpsInv, Typed, FlagTypes
  <2>2. lift => Priority[sas.highest] \in Nat
    BY <1>2, ShapeAssumption
  <2> QED
    BY <1>1, <1>2, <2>1, <2>2
<1>4. SasTypes'
  <2> DEFINE pc == IF lift THEN "vacate" ELSE "yield"
  <2>1. sas' = [sas EXCEPT !.pc = pc, !.at = 1, !.highestTokens = 0]
    BY <1>1
  <2>2. pc \in {"vacate", "yield"} /\ (pc = "vacate" => sas.highest \in Tasks)
    BY <1>2
  <2>3. 1 \in 1..(PAGE + 1)
    BY Shape
  <2> HIDE DEF pc
  <2>4. sas'.pc = pc /\ sas'.highest = sas.highest
    BY <2>1 DEF OpsInv, Typed, SasTypes
  <2>5. sas' \in [pc : {"vacate", "yield"}, at : 1..(PAGE + 1), last : Upto,
                  place : Places \cup {None}, highest : Tasks \cup {None}, highestTokens : Nat]
    BY <2>1, <2>2, <2>3 DEF OpsInv, Typed, SasTypes
  <2> QED
    BY <2>2, <2>4, <2>5 DEF SasTypes, Points, Erases, Lifts
<1> QED
  BY <1>1, <1>3, <1>4, OnlyKeeps

(* The steps that write to the queues.                                      *)
LEMMA FillKeeps ==
  ASSUME OpsInv, SasFill, ~CountWraps, UNCHANGED <<dead, caught>> PROVE OpsInv'
<1>1. /\ SasRuns /\ sas.pc = "fill"
      /\ slot' = [slot EXCEPT ![Bottom][sas.at] = slot[Bottom][sas.last]]
      /\ sas' = [sas EXCEPT !.pc = "clear"]
      /\ UNCHANGED <<count, top_queue, bottom_task, active, current_task, tokens,
                     timer_on, booted, act, void, halted>>
  BY DEF SasFill
<1>2. sas.at \in Slots /\ sas.last \in Slots
  <2>1. sas.last # 0 /\ sas.last \in 0..PAGE
    BY <1>1, TypedFacts DEF OpsInv, CountWraps
  <2> QED
    BY <1>1, <2>1, Scanned, Shape DEF Slots, Erases
<1>3. QueueTypes'
  <2>1. slot \in [Levels -> [Slots -> Words]] /\ Words' = Words
    BY <1>1 DEF OpsInv, Typed, QueueTypes, Words
  <2>2. slot' \in [Levels -> [Slots -> Words']]
    BY <1>1, <1>2, <2>1, Shape
  <2> QED
    BY <1>1, <2>2 DEF OpsInv, Typed, QueueTypes
<1>4. SasTypes'
  BY <1>1, <1>2 DEF OpsInv, Typed, SasTypes, Points, Erases, Lifts
<1>5. tokens' \in [Tasks -> Nat] /\ halted' \in BOOLEAN
  BY <1>1 DEF OpsInv, Typed, FlagTypes
<1> QED
  BY <1>1, <1>3, <1>4, <1>5, SasFrame

LEMMA ClearKeeps ==
  ASSUME OpsInv, SasClear, UNCHANGED <<dead, caught>> PROVE OpsInv'
<1>1. /\ SasRuns /\ sas.pc = "clear"
      /\ slot' = [slot EXCEPT ![Bottom][sas.last] = Empty]
      /\ sas' = [sas EXCEPT !.pc = "follow"]
      /\ UNCHANGED <<count, top_queue, bottom_task, active, current_task, tokens,
                     timer_on, booted, act, void, halted>>
  BY DEF SasClear
<1>2. sas.last \in Slots
  BY <1>1 DEF OpsInv, Typed, SasTypes
<1>3. QueueTypes'
  <2>1. /\ slot \in [Levels -> [Slots -> Words]]
        /\ Words' = Words /\ Empty \in Words
    BY <1>1 DEF OpsInv, Typed, QueueTypes, Words
  <2>2. slot' \in [Levels -> [Slots -> Words']]
    BY <1>1, <1>2, <2>1, Shape
  <2> QED
    BY <1>1, <2>2 DEF OpsInv, Typed, QueueTypes
<1>4. SasTypes'
  BY <1>1 DEF OpsInv, Typed, SasTypes, Points, Erases, Lifts
<1>5. tokens' \in [Tasks -> Nat] /\ halted' \in BOOLEAN
  BY <1>1 DEF OpsInv, Typed, FlagTypes
<1> QED
  BY <1>1, <1>3, <1>4, <1>5, SasFrame

LEMMA FollowKeeps ==
  ASSUME OpsInv, SasFollow, UNCHANGED <<dead, caught>> PROVE OpsInv'
<1>1. /\ SasRuns /\ sas.pc = "follow"
      /\ \/ /\ At \in Tasks
            /\ active' = [active EXCEPT ![At] = <<Bottom, sas.at>>]
            /\ UNCHANGED halted
         \/ At \notin Tasks /\ halted' = TRUE /\ UNCHANGED active
      /\ sas' = [sas EXCEPT !.pc = "load"]
      /\ UNCHANGED <<count, slot, top_queue, bottom_task, current_task, tokens,
                     timer_on, booted, act, void>>
  BY DEF SasFollow
<1>2. <<Bottom, sas.at>> \in Places
  BY <1>1, Scanned, Shape DEF Places, Erases
<1>3. QueueTypes'
  <2>1. active \in [Tasks -> Places \cup {None}]
    BY DEF OpsInv, Typed, QueueTypes
  <2>2. active' \in [Tasks -> Places \cup {None}]
    BY <1>1, <1>2, <2>1
  <2> QED
    BY <1>1, <2>2 DEF OpsInv, Typed, QueueTypes, Words
<1>4. SasTypes'
  BY <1>1 DEF OpsInv, Typed, SasTypes, Points, Erases, Lifts
<1>5. tokens' \in [Tasks -> Nat] /\ halted' \in BOOLEAN
  BY <1>1 DEF OpsInv, Typed, FlagTypes
<1> QED
  BY <1>1, <1>3, <1>4, <1>5, SasFrame

LEMMA StoreKeeps ==
  ASSUME OpsInv, SasStore, ~CountWraps, UNCHANGED <<dead, caught>> PROVE OpsInv'
<1>1. /\ SasRuns /\ sas.pc = "store"
      /\ count' = [count EXCEPT ![Bottom] = sas.last - 1]
      /\ sas' = [sas EXCEPT !.pc = "wrap"]
      /\ UNCHANGED <<slot, top_queue, bottom_task, active, current_task, tokens,
                     timer_on, booted, act, void, halted>>
  BY DEF SasStore
<1>2. sas.last \in 0..PAGE /\ sas.last # 0 /\ count \in [Levels -> Upto]
  BY <1>1, TypedFacts DEF OpsInv, Typed, QueueTypes, CountWraps
<1>3. QueueTypes'
  <2>1. sas.last - 1 \in Upto
    BY <1>2, Shape DEF Upto
  <2>2. count' \in [Levels -> Upto]
    BY <1>1, <1>2, <2>1, Shape, Replaced
  <2> QED
    BY <1>1, <2>2 DEF OpsInv, Typed, QueueTypes, Words
<1>4. SasTypes'
  BY <1>1 DEF OpsInv, Typed, SasTypes, Points, Erases, Lifts
<1>5. tokens' \in [Tasks -> Nat] /\ halted' \in BOOLEAN
  BY <1>1 DEF OpsInv, Typed, FlagTypes
<1> QED
  BY <1>1, <1>3, <1>4, <1>5, SasFrame

LEMMA WrapKeeps ==
  ASSUME OpsInv, SasWrap, UNCHANGED <<dead, caught>> PROVE OpsInv'
<1>1. /\ SasRuns /\ sas.pc = "wrap"
      /\ bottom_task' = IF bottom_task > count[Bottom] THEN 1 ELSE bottom_task
      /\ sas' = [sas EXCEPT !.pc = "yield", !.at = sas.at + 1]
      /\ UNCHANGED <<count, slot, top_queue, active, current_task, tokens, timer_on,
                     booted, act, void, halted>>
  BY DEF SasWrap
<1>2. QueueTypes'
  <2>1. bottom_task' \in 1..(PAGE + 1)
    BY <1>1, Shape DEF OpsInv, Typed, QueueTypes
  <2> QED
    BY <1>1, <2>1 DEF OpsInv, Typed, QueueTypes, Words
<1>3. sas.at + 1 \in 1..(PAGE + 1)
  BY <1>1, Scanned DEF Erases
<1>4. SasTypes'
  BY <1>1, <1>3 DEF OpsInv, Typed, SasTypes, Points, Erases, Lifts
<1>5. tokens' \in [Tasks -> Nat] /\ halted' \in BOOLEAN
  BY <1>1 DEF OpsInv, Typed, FlagTypes
<1> QED
  BY <1>1, <1>2, <1>4, <1>5, SasFrame

LEMMA VacateKeeps ==
  ASSUME OpsInv, SasVacate, UNCHANGED <<dead, caught>> PROVE OpsInv'
<1>1. SasOnly /\ tokens' \in [Tasks -> Nat]
  BY DEF SasVacate, SasOnly, OpsInv, Typed, FlagTypes
<1>2. /\ sas.pc = "vacate"
      /\ sas' = [sas EXCEPT !.pc = "void", !.place = active[sas.highest]]
  BY DEF SasVacate
<1>3. sas.highest \in Tasks /\ active[sas.highest] \in Places \cup {None}
  BY <1>2, TypedFacts DEF OpsInv, Typed, SasTypes, Lifts
<1>4. SasTypes'
  BY <1>2, <1>3 DEF OpsInv, Typed, SasTypes, Points, Erases, Lifts
<1> QED
  BY <1>1, <1>4, OnlyKeeps

LEMMA VoidKeeps ==
  ASSUME OpsInv, SasVoid, UNCHANGED <<dead, caught>> PROVE OpsInv'
<1> DEFINE p == sas.place
<1>1. /\ SasRuns /\ sas.pc = "void"
      /\ slot' = IF p = None THEN slot ELSE [slot EXCEPT ![p[1]][p[2]] = void]
      /\ sas' = [sas EXCEPT !.pc = "begin", !.place = None]
      /\ UNCHANGED <<count, top_queue, bottom_task, active, current_task, tokens,
                     timer_on, booted, act, void, halted>>
  BY DEF SasVoid
<1>2. p \in Places \cup {None}
  BY TypedFacts DEF OpsInv
<1> HIDE DEF p
<1>3. QueueTypes'
  <2>1. slot \in [Levels -> [Slots -> Words]] /\ Words' = Words /\ void \in Words
    BY <1>1 DEF OpsInv, Typed, QueueTypes, Words
  <2>2. slot' \in [Levels -> [Slots -> Words']]
    <3>1. CASE p = None
      BY <1>1, <2>1, <3>1
    <3>2. CASE p # None
      <4>1. p[1] \in Levels /\ p[2] \in Slots
        BY <1>2, <3>2 DEF Places
      <4> QED
        BY <1>1, <2>1, <3>2, <4>1
    <3> QED
      BY <3>1, <3>2
  <2> QED
    BY <1>1, <2>2 DEF OpsInv, Typed, QueueTypes
<1>4. SasTypes'
  BY <1>1 DEF OpsInv, Typed, SasTypes, Points, Erases, Lifts
<1>5. tokens' \in [Tasks -> Nat] /\ halted' \in BOOLEAN
  BY <1>1 DEF OpsInv, Typed, FlagTypes
<1> QED
  BY <1>1, <1>3, <1>4, <1>5, SasFrame

LEMMA LiftExtendKeeps ==
  ASSUME OpsInv, SasLiftExtend, UNCHANGED <<dead, caught>> PROVE OpsInv'
<1>1. /\ SasRuns /\ sas.pc = "extend" /\ sas.last < PAGE
      /\ count' = [count EXCEPT ![LiftQueue] = sas.last + 1]
      /\ sas' = [sas EXCEPT !.pc = "place"]
      /\ UNCHANGED <<slot, top_queue, bottom_task, active, current_task, tokens,
                     timer_on, booted, act, void, halted>>
  BY DEF SasLiftExtend
<1>2. sas.last \in 0..PAGE /\ count \in [Levels -> Upto]
  BY TypedFacts DEF OpsInv, Typed, QueueTypes
<1>3. QueueTypes'
  <2>1. sas.last + 1 \in Upto
    BY <1>1, <1>2, Shape DEF Upto
  <2>2. count' \in [Levels -> Upto]
    BY <1>1, <1>2, <2>1, Shape, Replaced
  <2> QED
    BY <1>1, <2>2 DEF OpsInv, Typed, QueueTypes, Words
<1>4. SasTypes'
  BY <1>1 DEF OpsInv, Typed, SasTypes, Points, Erases, Lifts
<1>5. tokens' \in [Tasks -> Nat] /\ halted' \in BOOLEAN
  BY <1>1 DEF OpsInv, Typed, FlagTypes
<1> QED
  BY <1>1, <1>3, <1>4, <1>5, SasFrame

LEMMA LiftPlaceKeeps ==
  ASSUME OpsInv, SasLiftPlace, UNCHANGED <<dead, caught>> PROVE OpsInv'
<1> DEFINE n == count[LiftQueue]
<1>1. /\ SasRuns /\ sas.pc = "place" /\ <<LiftQueue, n>> \in Places
      /\ slot' = [slot EXCEPT ![LiftQueue][n] = sas.highest]
      /\ sas' = [sas EXCEPT !.pc = "word", !.place = <<LiftQueue, n>>]
      /\ UNCHANGED <<count, top_queue, bottom_task, active, current_task, tokens,
                     timer_on, booted, act, void, halted>>
  BY DEF SasLiftPlace
<1> HIDE DEF n
<1>2. sas.highest \in Tasks /\ n \in Slots
  BY <1>1 DEF OpsInv, Typed, SasTypes, Lifts, Places
<1>3. QueueTypes'
  <2>1. /\ slot \in [Levels -> [Slots -> Words]]
        /\ Words' = Words /\ sas.highest \in Words
    BY <1>1, <1>2 DEF OpsInv, Typed, QueueTypes, Words
  <2>2. slot' \in [Levels -> [Slots -> Words']]
    BY <1>1, <1>2, <2>1, Shape
  <2> QED
    BY <1>1, <2>2 DEF OpsInv, Typed, QueueTypes
<1>4. SasTypes'
  BY <1>1 DEF OpsInv, Typed, SasTypes, Points, Erases, Lifts
<1>5. tokens' \in [Tasks -> Nat] /\ halted' \in BOOLEAN
  BY <1>1 DEF OpsInv, Typed, FlagTypes
<1> QED
  BY <1>1, <1>3, <1>4, <1>5, SasFrame

LEMMA LiftWordKeeps ==
  ASSUME OpsInv, SasLiftWord, UNCHANGED <<dead, caught>> PROVE OpsInv'
<1>1. /\ SasRuns /\ sas.pc = "word"
      /\ active' = [active EXCEPT ![sas.highest] = sas.place]
      /\ sas' = [sas EXCEPT !.pc = "raise", !.place = None]
      /\ UNCHANGED <<count, slot, top_queue, bottom_task, current_task, tokens,
                     timer_on, booted, act, void, halted>>
  BY DEF SasLiftWord
<1>2. sas.highest \in Tasks /\ sas.place \in Places
  BY <1>1 DEF OpsInv, Typed, SasTypes, Lifts
<1>3. QueueTypes'
  <2>1. active' \in [Tasks -> Places \cup {None}]
    BY <1>1, <1>2 DEF OpsInv, Typed, QueueTypes
  <2> QED
    BY <1>1, <2>1 DEF OpsInv, Typed, QueueTypes, Words
<1>4. SasTypes'
  BY <1>1 DEF OpsInv, Typed, SasTypes, Points, Erases, Lifts
<1>5. tokens' \in [Tasks -> Nat] /\ halted' \in BOOLEAN
  BY <1>1 DEF OpsInv, Typed, FlagTypes
<1> QED
  BY <1>1, <1>3, <1>4, <1>5, SasFrame

LEMMA LiftRaiseKeeps ==
  ASSUME OpsInv, SasLiftRaise, UNCHANGED <<dead, caught>> PROVE OpsInv'
<1>1. /\ SasRuns /\ sas.pc = "raise" /\ RaiseTop(LiftQueue)
      /\ sas' = [sas EXCEPT !.pc = "yield", !.highest = None]
      /\ UNCHANGED <<count, slot, bottom_task, active, current_task, tokens, timer_on,
                     booted, act, void, halted>>
  BY DEF SasLiftRaise
<1>2. QueueTypes'
  <2>1. top_queue' \in Levels
    BY <1>1, Shape DEF RaiseTop, OpsInv, Typed, QueueTypes
  <2> QED
    BY <1>1, <2>1 DEF OpsInv, Typed, QueueTypes, Words
<1>3. SasTypes'
  BY <1>1 DEF OpsInv, Typed, SasTypes, Points, Erases, Lifts
<1>4. tokens' \in [Tasks -> Nat] /\ halted' \in BOOLEAN
  BY <1>1 DEF OpsInv, Typed, FlagTypes
<1> QED
  BY <1>1, <1>2, <1>3, <1>4, SasFrame

-----------------------------------------------------------------------------
(* kill()                                                                   *)

(* Task_Remover clears or fills the killed task's slot and shortens its     *)
(* queue, which had a task.                                                 *)
LEMMA RemovedFacts ==
  ASSUME Typed, NEW l \in Levels, NEW i \in Slots, Removed(l, i), UNCHANGED void
  PROVE  /\ slot' \in [Levels -> [Slots -> Words']]
         /\ count[l] >= 1 /\ count' = [count EXCEPT ![l] = count[l] - 1]
         /\ top_queue' \in Levels
<1>1. /\ slot \in [Levels -> [Slots -> Words]] /\ top_queue \in Levels
      /\ Words' = Words /\ Empty \in Words
  BY DEF Typed, QueueTypes, Words
<1>2. CASE RemoveFromUpper(l, i)
  <2>1. /\ count[l] >= 1 /\ count' = [count EXCEPT ![l] = count[l] - 1]
        /\ slot' = [slot EXCEPT ![l][i] = Empty]
        /\ top_queue' \in l..Bottom
    BY <1>2 DEF RemoveFromUpper
  <2>2. top_queue' \in Levels
    BY <2>1, ShapeAssumption DEF Levels, Bottom
  <2> QED
    BY <1>1, <2>1, <2>2
<1>3. CASE RemoveFromBottom(l, i)
  <2> DEFINE e == IF i = count[l] THEN Empty ELSE slot[l][count[l]]
  <2>1. /\ count[l] \in Slots /\ count' = [count EXCEPT ![l] = count[l] - 1]
        /\ slot' = [slot EXCEPT ![l][i] = e]
        /\ top_queue' = top_queue
    BY <1>3 DEF RemoveFromBottom
  <2>2. slot[l][count[l]] \in Words
    BY <1>1, <2>1
  <2>3. e \in Words
    BY <1>1, <2>2
  <2>4. count[l] >= 1
    BY <2>1 DEF Slots
  <2> HIDE DEF e
  <2>5. slot' \in [Levels -> [Slots -> Words']]
    BY <1>1, <2>1, <2>3
  <2> QED
    BY <1>1, <2>1, <2>4, <2>5
<1> QED
  BY <1>2, <1>3 DEF Removed

LEMMA KillKeeps == ASSUME OpsInv, Kill PROVE OpsInv'
<1> DEFINE t == current_task
           l == active[t][1]
           i == active[t][2]
<1>1. /\ ~halted /\ t \in Killers \ dead /\ Removed(l, i)
      /\ active' = [active EXCEPT ![t] = None]
      /\ tokens' = [tokens EXCEPT ![t] = 0]
      /\ dead' = dead \cup {t} /\ caught' = (caught \/ Erasing)
      /\ current_task' = Boot
      /\ UNCHANGED <<bottom_task, timer_on, booted, act, sas, void, halted>>
  BY DEF Kill
<1>2. t \in Tasks \ {Sas, Ipc}
  BY <1>1, Names
<1>3. l \in Levels /\ i \in Slots
  BY <1>1, <1>2 DEF OpsInv, Owns, Places
<1>4. /\ slot' \in [Levels -> [Slots -> Words']]
      /\ count[l] >= 1 /\ count' = [count EXCEPT ![l] = count[l] - 1]
      /\ top_queue' \in Levels
  BY <1>1, <1>3, RemovedFacts DEF OpsInv
<1> HIDE DEF t, l, i
<1>5. count \in [Levels -> Upto] /\ count[l] \in 0..PAGE
  BY <1>3, TypedFacts DEF OpsInv, Typed, QueueTypes
<1>6. QueueTypes'
  <2>1. count[l] - 1 \in Upto
    BY <1>4, <1>5, Shape DEF Upto
  <2>2. count' \in [Levels -> Upto]
    BY <1>3, <1>4, <1>5, <2>1, Replaced
  <2>3. active' \in [Tasks -> Places \cup {None}]
    BY <1>1, <1>2 DEF OpsInv, Typed, QueueTypes
  <2> QED
    BY <1>1, <1>4, <2>2, <2>3 DEF OpsInv, Typed, QueueTypes
<1>7. FlagTypes'
  <2>1. tokens' \in [Tasks -> Nat]
    BY <1>1, <1>2 DEF OpsInv, Typed, FlagTypes
  <2>2. caught' \in BOOLEAN
    BY <1>1 DEF Erasing, OpsInv, Typed, FlagTypes
  <2> QED
    BY <1>1, <2>1, <2>2 DEF OpsInv, Typed, FlagTypes
<1>8. ActTypes' /\ SasTypes'
  BY <1>1 DEF OpsInv, Typed, ActTypes, SasTypes
<1>9. Owns'
  BY <1>1, Names DEF Owns
<1> QED
  BY <1>6, <1>7, <1>8, <1>9 DEF OpsInv, Typed

LEMMA UnchangedKeeps == ASSUME OpsInv, UNCHANGED opsVars PROVE OpsInv'
<1>1. QueueTypes' /\ FlagTypes' /\ ActTypes' /\ SasTypes'
  BY DEF OpsInv, Typed, QueueTypes, FlagTypes, ActTypes, SasTypes, opsVars, vars, Words
<1>2. Owns'
  BY DEF OpsInv, Owns, opsVars, vars
<1> QED
  BY <1>1, <1>2 DEF OpsInv, Typed

(* No step leaves the inductive invariant.                                  *)
LEMMA NextOpsInv == ASSUME OpsInv, [OpsNext]_opsVars PROVE OpsInv'
<1>1. CASE ~Astray /\ Next /\ UNCHANGED <<dead, caught>>
  <2>1. CASE ActivateStep
    BY <1>1, <2>1, BeginKeeps, ExtendKeeps, PlaceKeeps, RaiseKeeps DEF ActivateStep
  <2>2. CASE StartTimer
    BY <1>1, <2>2, StartKeeps
  <2>3. CASE TimerTick
    BY <1>1, <2>3, ScheduleKeepsOps DEF TimerTick
  <2>4. CASE SasStep
    <3>1. CASE SasYield
      BY <1>1, <3>1, ScheduleKeepsOps DEF SasYield
    <3>2. CASE SasLook \/ SasFindHole \/ SasFindTask \/ SasTakeLast \/ SasAge \/ SasSkip
      BY <1>1, <3>2, LookKeeps, FindKeeps, TakeLastKeeps, AgeKeeps, AdvanceKeeps
    <3>3. CASE SasFill \/ SasStore
      BY <1>1, <3>3, FillKeeps, StoreKeeps DEF Astray, CountWraps, SasRuns
    <3>4. CASE SasClear \/ SasFollow \/ SasLoad \/ SasWrap
      BY <1>1, <3>4, ClearKeeps, FollowKeeps, LoadKeeps, WrapKeeps
    <3>5. CASE SasEndScan \/ SasVacate \/ SasVoid \/ SasLiftBegin \/ SasLiftExtend
      BY <1>1, <3>5, EndScanKeeps, VacateKeeps, VoidKeeps, LiftBeginKeeps,
         LiftExtendKeeps
    <3>6. CASE SasLiftPlace \/ SasLiftWord \/ SasLiftRaise
      BY <1>1, <3>6, LiftPlaceKeeps, LiftWordKeeps, LiftRaiseKeeps
    <3> QED
      BY <2>4, <3>1, <3>2, <3>3, <3>4, <3>5, <3>6 DEF SasStep
  <2>5. CASE Halted
    BY <1>1, <2>5, UnchangedKeeps DEF Halted, opsVars
  <2> QED
    BY <1>1, <2>1, <2>2, <2>3, <2>4, <2>5 DEF Next
<1>2. CASE Kill
  BY <1>2, KillKeeps
<1>3. CASE SasLiftsKilled
  <2>1. /\ halted' = TRUE
        /\ UNCHANGED <<queueVars, current_task, tokens, timer_on, booted, act, sas,
                       void, dead, caught>>
    BY <1>3 DEF SasLiftsKilled
  <2>2. QueueTypes' /\ FlagTypes' /\ ActTypes' /\ SasTypes'
    BY <2>1 DEF OpsInv, Typed, QueueTypes, FlagTypes, ActTypes, SasTypes, queueVars, Words
  <2>3. Owns'
    BY <2>1 DEF Owns, queueVars
  <2> QED
    BY <2>2, <2>3 DEF OpsInv, Typed
<1>4. CASE UNCHANGED opsVars
  BY <1>4, UnchangedKeeps
<1> QED
  BY <1>1, <1>2, <1>3, <1>4 DEF OpsNext

(* OpsInv holds however dispatches, activations, passes of the maintenance  *)
(* task and kill() interleave.                                              *)
THEOREM KillInvariant == OpsSpec => []OpsInv
<1>1. OpsInv /\ [OpsNext]_opsVars => OpsInv'
  BY NextOpsInv
<1> QED
  BY <1>1, InitOpsInv, PTL DEF OpsSpec

(* OpsTypeOK: with kill() at any point of any activation, dispatch and pass *)
(* of the maintenance task every count, slot and local has its type, until  *)
(* the core goes astray.                                                    *)
THEOREM KillTypes == OpsSpec => []OpsTypeOK
<1>1. OpsInv => OpsTypeOK
  <2> SUFFICES ASSUME OpsInv PROVE OpsTypeOK
    OBVIOUS
  <2>1. slot \in [Levels -> [Slots -> Entries]]
    <3>1. Words \subseteq Entries
      BY Names DEF OpsInv, Typed, FlagTypes, Words, Entries
    <3> QED
      BY <3>1 DEF OpsInv, Typed, QueueTypes
  <2>2. TypeOK
    BY <2>1 DEF TypeOK, OpsInv, Typed, QueueTypes, FlagTypes, ActTypes, SasTypes, Upto,
                Points, Erases, Lifts
  <2> QED
    BY <2>2 DEF OpsTypeOK, OpsInv, Typed, FlagTypes
<1> QED
  BY <1>1, KillInvariant, PTL

(* RunningTaskOwnsSlot: kill() is never called on a word that is zero or    *)
(* names another task's slot, although active words are left behind by      *)
(* every move of a last task, and even after a kill() has spoilt a count.   *)
THEOREM KillerOwnsItsSlot == OpsSpec => []RunningTaskOwnsSlot
<1>1. OpsInv => RunningTaskOwnsSlot
  BY Names DEF OpsInv, Owns, RunningTaskOwnsSlot
<1> QED
  BY <1>1, KillInvariant, PTL
-----------------------------------------------------------------------------
(* The maintenance task among tasks that kill themselves.                   *)
Uppers == Levels \ {Bottom}
Above(t) == \E l \in Uppers : InQueue(l, t)

(* One task is queued above the bottom, in queue l.                         *)
Alone(l) == \A m \in Uppers : count[m] = IF m = l THEN 1 ELSE 0

(* It has the first slot of the bottom queue, and before it first runs the  *)
(* first of the queue above.                                                *)
SasHeld ==
  /\ \A l \in Levels : \A i \in Slots :
       slot[l][i] = Sas => i = 1 /\ l \in {Bottom - 1, Bottom}
  /\ count[Bottom] = 0 => Holds(Bottom - 1, 1, Sas)
  /\ count[Bottom] # 0 => slot[Bottom][1] = Sas /\ slot[Bottom - 1][1] # Sas

Started ==
  /\ timer_on /\ act.pc = "idle" /\ booted = Len(BootOrder) /\ Sas \in Booted
  /\ \A l \in Levels : \A i \in Slots : slot[l][i] \in Tasks => slot[l][i] \in Booted
  /\ sas.highest # None => sas.highest \in Booted \ {Sas}
  /\ count[Bottom] = 0 => sas = SasStart /\ current_task # Sas /\ top_queue # Bottom

Scans == {"scan", "look", "age", "yield"}
Erasures == {"fill", "clear", "follow", "load", "store"}
Placings == {"place", "word", "raise"}
Liftings == {"begin", "extend"} \cup Placings

(* Above the bottom nothing is behind a count, no task is queued twice and  *)
(* a task that may kill itself is either in the queue that it was activated *)
(* in or there because it has been lifted, and then it is alone.            *)
Upstairs ==
  /\ \A l \in Uppers : l < top_queue =>
       count[l] = 0 \/ (l = LiftQueue /\ sas.pc \in Placings)
  /\ sas.pc \notin Scans => top_queue = Bottom
  /\ \A l \in Uppers : \A i \in Slots :
       i > count[l] \/ (sas.pc = "place" /\ l = LiftQueue) => slot[l][i] = Empty
  /\ \A l, m \in Uppers : \A i, j \in Slots :
       i <= count[l] /\ j <= count[m] /\ slot[l][i] = slot[m][j] /\ slot[l][i] \in Tasks
         => l = m /\ i = j
  /\ \A l \in Uppers : \A i \in Slots :
       l # Bottom - 1 /\ i <= count[l] /\ slot[l][i] \in Killers => Alone(l)

Locals ==
  /\ top_queue # Bottom => sas.highest = None
  /\ current_task = Sas /\ top_queue # Bottom =>
       sas.pc = "yield" \/ (sas.pc \in Scans /\ sas.at = 1)
  /\ sas.pc = "void" =>
       \/ sas.place = None /\ sas.highest \in dead
       \/ \E j \in Slots \ {1} : sas.place = <<Bottom, j>>
  /\ sas.pc = "extend" => sas.last = 0 /\ count[LiftQueue] = 0
  /\ sas.pc \in Placings => count[LiftQueue] = 1
  /\ sas.pc \in {"word", "raise"} => slot[LiftQueue][1] = sas.highest
  /\ sas.pc = "look" => sas.at <= count[Bottom]
  /\ sas.pc \in {"fill", "clear", "store"} => sas.last = count[Bottom]
  /\ sas.pc \in Erasures \cup {"hole"} => sas.at # 1 /\ sas.at <= count[Bottom]
  /\ sas.pc \in {"hole", "fill"} => slot[Bottom][sas.at] \notin Tasks
  /\ sas.pc = "clear" =>
       /\ slot[Bottom][sas.at] = slot[Bottom][sas.last]
       /\ sas.at = sas.last => slot[Bottom][sas.at] \notin Tasks
  /\ sas.pc \in {"follow", "load", "store"} => slot[Bottom][count[Bottom]] = Empty

(* A word that the maintenance task may write through names a slot of the   *)
(* bottom queue that is not its own.                                        *)
NamesBottom(t) == \E j \in Slots \ {1} : active[t] = <<Bottom, j>>

Worded ==
  \A t \in Booted \ {Sas} :
    Above(t) \/ NamesBottom(t) \/ (active[t] = None /\ t \in dead)

(* A running task that may kill itself is alone above the bottom, or it is  *)
(* below, and if it is above as well the maintenance task is lifting it.    *)
Runner ==
  current_task \in Killers =>
    LET p == active[current_task] IN
    /\ p[1] = Bottom /\ Above(current_task) =>
         sas.pc \in {"word", "raise"} /\ sas.highest = current_task
    /\ p[1] # Bottom => p[2] = 1 /\ top_queue = p[1] /\ Alone(p[1])

(* The bottom queue has a slot for each task that is to be found there,     *)
(* whatever words its slots hold, unless a killed task is being lifted: a   *)
(* task that is killed in a slot behind the count takes another one's.      *)
Below == {t \in Booted \ dead : ~Above(t) /\ ~(Lifting /\ sas.highest = t)}
Filled == {i \in Slots : i <= count[Bottom] /\ slot[Bottom][i] \in Tasks}

LiftsDead ==
  \/ sas.pc \in Liftings \cup {"vacate", "void"} /\ sas.highest \in dead
  \/ /\ sas.pc = "yield" /\ current_task = Sas
     /\ top_queue # Bottom /\ slot[top_queue][1] \in dead

Room ==
  /\ Cardinality(Below) <= count[Bottom]
  /\ ~LiftsDead => Cardinality(Below) <= Cardinality(Filled)
  /\ sas.pc = "clear" /\ slot[Bottom][sas.at] \in Tasks =>
       Cardinality(Below) < Cardinality(Filled)
  /\ ~LiftsDead /\ sas.pc \in Liftings => Cardinality(Below) < count[Bottom]

Kept == SasHeld /\ Started /\ Upstairs /\ Locals /\ Worded /\ Runner /\ Room

Live == OpsInv /\ Kept /\ ~halted /\ ~Astray

-----------------------------------------------------------------------------
(* What holds of every state in which the core still works.                 *)
LEMMA LevelsAre ==
  /\ Bottom \in Nat /\ Bottom \in Levels /\ Bottom - 1 \in Uppers /\ LiftQueue \in Uppers
  /\ \A l \in Uppers : l \in Levels /\ l # Bottom /\ l + 1 \in Levels /\ l + 1 # l
  /\ \A l \in Uppers : l \in Nat /\ l < Bottom
  /\ \A l \in Levels : l \in Nat /\ l <= Bottom
  /\ 1 \in Slots /\ Slots \subseteq Nat /\ \A i \in Slots : i >= 1 /\ i <= PAGE
  BY ShapeAssumption DEF Bottom, Levels, LiftQueue, Uppers, Slots

LEMMA LiveFacts ==
  ASSUME Live
  PROVE  /\ \A l \in Levels : count[l] \in Nat /\ count[l] <= PAGE
         /\ \A l \in Levels : \A i \in Slots : slot[l][i] \in Tasks \cup {Empty, void}
         /\ count \in [Levels -> 0..PAGE]
         /\ slot \in [Levels -> [Slots -> Words]]
         /\ active \in [Tasks -> Places \cup {None}]
         /\ top_queue \in Levels /\ bottom_task \in Nat
         /\ Booted \subseteq Tasks /\ dead \subseteq Killers
         /\ Sas \in Booted \ dead /\ Sas \notin Killers
         /\ void \notin Tasks /\ Empty \notin Tasks /\ None \notin Tasks
         /\ timer_on /\ ~halted /\ act.pc = "idle"
         /\ sas.at \in Nat /\ sas.at >= 1 /\ sas.last \in Nat
         /\ sas.highest \in Tasks \cup {None} /\ sas.highest # Sas
<1> USE Names, Shape
<1>1. Booted \subseteq Tasks
  <2>1. booted \in 0..Len(BootOrder)
    BY DEF Live, OpsInv, Typed, FlagTypes
  <2> QED
    BY <2>1, ShapeAssumption, BootLen DEF Booted
<1>2. dead \subseteq Killers /\ void \notin Tasks
  BY DEF Live, OpsInv, Typed, FlagTypes
<1>3. timer_on /\ act.pc = "idle" /\ Sas \in Booted /\ ~halted
  BY DEF Live, Kept, Started
<1>4. sas.highest # Sas
  BY DEF Live, Kept, Started
<1>5. \A l \in Levels : count[l] \in 0..PAGE
  BY TypedFacts DEF Live, OpsInv
<1>6. \A l \in Levels : count[l] \in Nat /\ count[l] <= PAGE
  BY <1>5
<1>7. \A l \in Levels : \A i \in Slots : slot[l][i] \in Tasks \cup {Empty, void}
  BY TypedFacts DEF Live, OpsInv, Words
<1>8. /\ sas.at \in 1..(PAGE + 1) /\ sas.last \in 0..PAGE
      /\ sas.highest \in Tasks \cup {None}
  BY TypedFacts DEF Live, OpsInv
<1>9. /\ top_queue \in Levels /\ bottom_task \in Nat
      /\ count \in [Levels -> 0..PAGE]
      /\ slot \in [Levels -> [Slots -> Words]]
      /\ active \in [Tasks -> Places \cup {None}]
  BY DEF Live, OpsInv, Typed, QueueTypes, Upto
<1> QED
  BY <1>1, <1>2, <1>3, <1>4, <1>6, <1>7, <1>8, <1>9

LEMMA SasRecord ==
  ASSUME Live
  PROVE  sas = [pc |-> sas.pc, at |-> sas.at, last |-> sas.last, place |-> sas.place,
                highest |-> sas.highest, highestTokens |-> sas.highestTokens]
  BY DEF Live, OpsInv, Typed, SasTypes

(* The maintenance task runs from the first slot of the bottom queue.       *)
LEMMA SasHome ==
  ASSUME Live, SasRuns
  PROVE  /\ count[Bottom] # 0 /\ count[Bottom] >= 1 /\ slot[Bottom][1] = Sas
         /\ current_task = Sas /\ current_task \notin Killers
         /\ sas.pc \in Scans \ {"yield"} /\ top_queue # Bottom =>
              sas.at = 1 /\ Scanning /\ At = Sas
<1>1. current_task = Sas /\ count[Bottom] # 0 /\ slot[Bottom][1] = Sas
  BY DEF Live, Kept, Started, SasHeld, SasRuns
<1>2. count[Bottom] >= 1
  BY <1>1, LiveFacts, LevelsAre
<1>3. sas.pc \in Scans \ {"yield"} /\ top_queue # Bottom => sas.at = 1
  BY <1>1 DEF Live, Kept, Locals
<1> QED
  BY <1>1, <1>2, <1>3, LiveFacts DEF Scanning, At

LEMMA UptoFits ==
  ASSUME NEW n \in Nat, NEW S, \A i \in S : i \in 1..n
  PROVE  IsFiniteSet(S) /\ Cardinality(S) <= n
<1>1. IsFiniteSet(1..n) /\ Cardinality(1..n) = n
  <2>1. 1 > n => n = 0
    OBVIOUS
  <2> QED
    BY <2>1, FS_Interval
<1> QED
  BY <1>1, FS_Subset

(* The sets that Room counts are finite.                                    *)
LEMMA Finite ==
  ASSUME Live
  PROVE  /\ IsFiniteSet(Booted) /\ IsFiniteSet(Below) /\ IsFiniteSet(Filled)
         /\ Cardinality(Below) \in Nat /\ Cardinality(Filled) \in Nat
         /\ Cardinality(Filled) <= count[Bottom]
<1>1. booted \in Nat
  BY BootLen DEF Live, OpsInv, Typed, FlagTypes
<1>2. IsFiniteSet(Booted)
  <2> DEFINE f == [k \in 1..booted |-> BootOrder[k]]
  <2>1. f \in Surjection(1..booted, Booted)
    BY DEF Surjection, Booted
  <2>2. IsFiniteSet(1..booted)
    BY <1>1, FS_Interval
  <2> QED
    BY <2>1, <2>2, FS_Surjection
<1>3. Below \in SUBSET Booted
  BY DEF Below
<1>4. count[Bottom] \in Nat
  BY LiveFacts, LevelsAre
<1>5. \A i \in Filled : i \in 1..count[Bottom]
  BY <1>4 DEF Filled, Slots
<1>6. IsFiniteSet(Filled) /\ Cardinality(Filled) <= count[Bottom]
  BY <1>4, <1>5, UptoFits
<1>7. IsFiniteSet(Below) /\ IsFiniteSet(Filled) /\ Cardinality(Filled) <= count[Bottom]
  BY <1>2, <1>3, <1>5, <1>6, FS_Subset
<1> QED
  BY <1>2, <1>7, FS_CardinalityType

-----------------------------------------------------------------------------
(* The steps of the maintenance task that leave the queues alone.           *)
LEMMA SetsStay ==
  ASSUME UNCHANGED <<count, slot, booted, dead>>
  PROVE  /\ Booted' = Booted /\ Filled' = Filled
         /\ \A t : Above(t)' <=> Above(t)
         /\ (Lifting' <=> Lifting) /\ (Lifting => sas'.highest = sas.highest) =>
              Below' = Below
<1>1. Booted' = Booted
  BY DEF Booted
<1>2. Filled' = Filled
  BY DEF Filled
<1>3. \A t : Above(t)' <=> Above(t)
  BY DEF Above, InQueue, Holds
<1>4. ASSUME Lifting' <=> Lifting, Lifting => sas'.highest = sas.highest
      PROVE  Below' = Below
  BY <1>1, <1>3, <1>4 DEF Below
<1> QED
  BY <1>1, <1>2, <1>3, <1>4

LEMMA HeldStays ==
  ASSUME SasHeld, UNCHANGED <<count, slot>> PROVE SasHeld'
  BY DEF SasHeld, Holds

LEMMA QuietKept ==
  ASSUME Live, SasRuns,
         UNCHANGED <<count, slot, top_queue, active, current_task, timer_on, booted, act, dead>>,
         sas.pc \notin Placings, sas'.pc \notin Placings,
         top_queue # Bottom => sas'.pc \in Scans,
         sas'.highest # None => sas'.highest \in Booted \ {Sas},
         Locals', Room'
  PROVE  Kept'
<1> USE SasHome DEF Placings
<1>1. SasHeld'
  BY HeldStays DEF Live, Kept
<1>2. Started'
  BY SetsStay DEF Live, Kept, Started
<1>3. Upstairs'
  BY DEF Live, Kept, Upstairs, Alone
<1>4. Worded'
  BY SetsStay DEF Live, Kept, Worded, NamesBottom
<1>5. Runner'
  BY DEF Runner
<1> QED
  BY <1>1, <1>2, <1>3, <1>4, <1>5 DEF Kept

(* The steps that are not part of a lift nor of the erasure of a hole.      *)
LEMMA QuietRoom ==
  ASSUME Live, SasRuns,
         UNCHANGED <<count, slot, top_queue, booted, dead, current_task>>,
         ~Lifting, ~Lifting', sas'.pc \notin {"clear", "word", "raise"},
         LiftsDead => LiftsDead'
  PROVE  Room'
<1>1. Below' = Below /\ Filled' = Filled
  BY SetsStay
<1>2. sas'.pc \notin Liftings
  BY DEF Lifting, Liftings, Placings
<1> QED
  BY <1>1, <1>2 DEF Live, Kept, Room

(* At the bottom, with nothing above, the maintenance task scans, erases    *)
(* and lifts; it does not know a killed task unless it lifts it.            *)
LEMMA LookKept == ASSUME Live, SasLook, UNCHANGED <<dead, caught>> PROVE Kept'
<1> USE SasHome DEF Scans, Placings
<1>1. /\ SasRuns /\ sas.pc = "scan" /\ sas'.pc \in {"look", "end"}
      /\ sas'.pc = "look" <=> Scanning
      /\ sas'.at = sas.at /\ sas'.highest = sas.highest
      /\ UNCHANGED <<count, slot, top_queue, active, current_task, timer_on, booted, act>>
  BY SasRecord DEF SasLook, queueVars
<1>2. Locals'
  BY <1>1 DEF Live, Kept, Locals, Erasures, Scanning
<1>3. Room'
  BY <1>1, QuietRoom DEF Lifting, LiftsDead, Liftings
<1>4. sas'.highest # None => sas'.highest \in Booted \ {Sas}
  BY <1>1 DEF Live, Kept, Started
<1> QED
  BY <1>1, <1>2, <1>3, <1>4, QuietKept

LEMMA FindHoleKept == ASSUME Live, SasFindHole, UNCHANGED <<dead, caught>> PROVE Kept'
<1> USE SasHome DEF Scans, Placings
<1>1. /\ SasRuns /\ sas.pc = "look" /\ IsVoid(At)
      /\ sas'.pc = "hole" /\ sas'.at = sas.at /\ sas'.highest = sas.highest
      /\ UNCHANGED <<count, slot, top_queue, active, current_task, timer_on, booted, act>>
  BY SasRecord DEF SasFindHole, queueVars
<1>2. At \notin Tasks
  BY <1>1, LiveFacts DEF IsVoid
<1>3. sas.at # 1 /\ top_queue = Bottom
  BY <1>1, <1>2, Names DEF At
<1>4. Locals'
  BY <1>1, <1>2, <1>3 DEF Live, Kept, Locals, At, Erasures
<1>5. Room'
  BY <1>1, QuietRoom DEF Lifting, LiftsDead, Liftings
<1>6. sas'.highest # None => sas'.highest \in Booted \ {Sas}
  BY <1>1 DEF Live, Kept, Started
<1> QED
  BY <1>1, <1>3, <1>4, <1>5, <1>6, QuietKept

LEMMA FindTaskKept == ASSUME Live, SasFindTask, UNCHANGED <<dead, caught>> PROVE Kept'
<1> USE SasHome DEF Scans, Placings
<1>1. /\ SasRuns /\ sas.pc = "look"
      /\ sas'.pc = "age" /\ sas'.at = sas.at /\ sas'.highest = sas.highest
      /\ UNCHANGED <<count, slot, top_queue, active, current_task, timer_on, booted, act>>
  BY SasRecord DEF SasFindTask, queueVars
<1>2. Locals'
  BY <1>1 DEF Live, Kept, Locals, Erasures
<1>3. Room'
  BY <1>1, QuietRoom DEF Lifting, LiftsDead, Liftings
<1>4. sas'.highest # None => sas'.highest \in Booted \ {Sas}
  BY <1>1 DEF Live, Kept, Started
<1> QED
  BY <1>1, <1>2, <1>3, <1>4, QuietKept

LEMMA TakeLastKept == ASSUME Live, SasTakeLast, UNCHANGED <<dead, caught>> PROVE Kept'
<1> USE SasHome DEF Scans, Placings
<1>1. /\ SasRuns /\ sas.pc = "hole"
      /\ sas'.pc = "fill" /\ sas'.at = sas.at /\ sas'.highest = sas.highest
      /\ sas'.last = count[Bottom]
      /\ UNCHANGED <<count, slot, top_queue, active, current_task, timer_on, booted, act>>
  BY SasRecord DEF SasTakeLast, queueVars
<1>2. top_queue = Bottom
  BY <1>1 DEF Live, Kept, Upstairs
<1>3. Locals'
  BY <1>1, <1>2 DEF Live, Kept, Locals, Erasures
<1>4. Room'
  BY <1>1, QuietRoom DEF Lifting, LiftsDead, Liftings
<1>5. sas'.highest # None => sas'.highest \in Booted \ {Sas}
  BY <1>1 DEF Live, Kept, Started
<1> QED
  BY <1>1, <1>2, <1>3, <1>4, <1>5, QuietKept

LEMMA AgeKept == ASSUME Live, SasAge, UNCHANGED <<dead, caught>> PROVE Kept'
<1> USE SasHome DEF Scans, Placings
<1>1. /\ SasRuns /\ sas.pc = "age" /\ At \in Tasks /\ At # Sas
      /\ sas'.pc = "yield" /\ sas'.highest \in {sas.highest, At}
      /\ UNCHANGED <<count, slot, top_queue, active, current_task, timer_on, booted, act>>
  BY SasRecord DEF SasAge, queueVars
<1>2. top_queue = Bottom
  BY <1>1
<1>3. At \in Booted
  <2>1. sas.at \in Slots
    BY <1>1, Scanned DEF Live
  <2> QED
    BY <1>1, <2>1, LevelsAre DEF Live, Kept, Started, At
<1>4. Locals'
  BY <1>1, <1>2 DEF Locals, Erasures
<1>5. Room'
  BY <1>1, <1>2, QuietRoom DEF Lifting, LiftsDead, Liftings
<1>6. sas'.highest # None => sas'.highest \in Booted \ {Sas}
  BY <1>1, <1>3 DEF Live, Kept, Started
<1> QED
  BY <1>1, <1>2, <1>4, <1>5, <1>6, QuietKept

LEMMA SkipKept == ASSUME Live, SasSkip, UNCHANGED <<dead, caught>> PROVE Kept'
<1> USE SasHome DEF Scans, Placings
<1>1. /\ SasRuns /\ sas.pc = "age" /\ At = Sas
      /\ sas'.pc = "yield" /\ sas'.highest = sas.highest
      /\ UNCHANGED <<count, slot, top_queue, active, current_task, timer_on, booted, act>>
  BY SasRecord DEF SasSkip, queueVars
<1>4. Locals'
  BY <1>1 DEF Live, Kept, Locals, Erasures
<1>5. Room'
  BY <1>1, QuietRoom DEF Lifting, LiftsDead, Liftings
<1>6. sas'.highest # None => sas'.highest \in Booted \ {Sas}
  BY <1>1 DEF Live, Kept, Started
<1> QED
  BY <1>1, <1>4, <1>5, <1>6, QuietKept

LEMMA LoadKept == ASSUME Live, SasLoad, UNCHANGED <<dead, caught>> PROVE Kept'
<1> USE SasHome DEF Scans, Placings
<1>1. /\ SasRuns /\ sas.pc = "load" /\ sas'.pc = "store"
      /\ sas'.highest = sas.highest /\ sas'.at = sas.at /\ sas'.last = count[Bottom]
      /\ UNCHANGED <<count, slot, top_queue, active, current_task, timer_on, booted, act>>
  BY SasRecord DEF SasLoad, queueVars
<1>2. top_queue = Bottom
  BY <1>1 DEF Live, Kept, Upstairs
<1>4. Locals'
  BY <1>1, <1>2 DEF Live, Kept, Locals, Erasures
<1>5. Room'
  BY <1>1, QuietRoom DEF Lifting, LiftsDead, Liftings
<1>6. sas'.highest # None => sas'.highest \in Booted \ {Sas}
  BY <1>1 DEF Live, Kept, Started
<1> QED
  BY <1>1, <1>2, <1>4, <1>5, <1>6, QuietKept

LEMMA WrapKept == ASSUME Live, SasWrap, UNCHANGED <<dead, caught>> PROVE Kept'
<1> USE SasHome DEF Scans, Placings
<1>1. /\ SasRuns /\ sas.pc = "wrap" /\ sas'.pc = "yield"
      /\ sas'.highest = sas.highest
      /\ UNCHANGED <<count, slot, top_queue, active, current_task, timer_on, booted, act>>
  BY SasRecord DEF SasWrap
<1>2. top_queue = Bottom
  BY <1>1 DEF Live, Kept, Upstairs
<1>4. Locals'
  BY <1>1, <1>2 DEF Live, Kept, Locals, Erasures
<1>5. Room'
  BY <1>1, <1>2, QuietRoom DEF Lifting, LiftsDead, Liftings
<1>6. sas'.highest # None => sas'.highest \in Booted \ {Sas}
  BY <1>1 DEF Live, Kept, Started
<1> QED
  BY <1>1, <1>2, <1>4, <1>5, <1>6, QuietKept

LEMMA EndScanKept == ASSUME Live, SasEndScan, UNCHANGED <<dead, caught>> PROVE Kept'
<1> USE SasHome DEF Scans, Placings
<1>1. /\ SasRuns /\ sas.pc = "end"
      /\ sas'.pc \in {"vacate", "yield"} /\ sas'.highest = sas.highest
      /\ UNCHANGED <<count, slot, top_queue, active, current_task, timer_on, booted, act>>
  BY SasRecord DEF SasEndScan, queueVars
<1>2. top_queue = Bottom
  BY <1>1 DEF Live, Kept, Upstairs
<1>4. Locals'
  BY <1>1, <1>2 DEF Live, Kept, Locals, Erasures
<1>5. Room'
  BY <1>1, <1>2, QuietRoom DEF Lifting, LiftsDead, Liftings
<1>6. sas'.highest # None => sas'.highest \in Booted \ {Sas}
  BY <1>1 DEF Live, Kept, Started
<1> QED
  BY <1>1, <1>2, <1>4, <1>5, <1>6, QuietKept

LEMMA LiftBeginKept == ASSUME Live, SasLiftBegin, UNCHANGED <<dead, caught>> PROVE Kept'
<1> USE SasHome DEF Scans, Placings
<1>1. /\ SasRuns /\ sas.pc = "begin" /\ sas'.pc = "extend" /\ sas'.highest = sas.highest
      /\ sas'.last = count[LiftQueue]
      /\ UNCHANGED <<count, slot, top_queue, active, current_task, timer_on, booted, act>>
  BY SasRecord DEF SasLiftBegin, queueVars
<1>2. top_queue = Bottom /\ count[LiftQueue] = 0
  BY <1>1, LevelsAre DEF Live, Kept, Upstairs
<1>4. Locals'
  BY <1>1, <1>2 DEF Locals, Erasures
<1>5. Room'
  <2>1. Below' = Below /\ Filled' = Filled
    BY <1>1, SetsStay DEF Lifting
  <2>2. (LiftsDead' <=> LiftsDead) /\ sas.pc \in Liftings
    BY <1>1 DEF LiftsDead, Liftings
  <2> QED
    BY <1>1, <2>1, <2>2 DEF Live, Kept, Room
<1>6. sas'.highest # None => sas'.highest \in Booted \ {Sas}
  BY <1>1 DEF Live, Kept, Started
<1> QED
  BY <1>1, <1>2, <1>4, <1>5, <1>6, QuietKept

-----------------------------------------------------------------------------
(* The steps of the maintenance task that write to the queues.              *)

(* A store to a slot of the bottom queue that is not its own.               *)
LEMMA BottomWritten ==
  ASSUME Live, SasRuns, NEW i \in Slots \ {1}, NEW w,
         w # Sas, w \in Tasks => w \in Booted,
         slot' = [slot EXCEPT ![Bottom][i] = w],
         UNCHANGED <<count, top_queue, current_task, timer_on, booted, act, dead>>,
         sas.pc \notin Placings, sas'.pc \notin Placings,
         top_queue = Bottom, sas'.highest = sas.highest
  PROVE  /\ SasHeld' /\ Started' /\ Upstairs' /\ Runner'
         /\ \A t : Above(t)' <=> Above(t)
         /\ \A j \in Slots : slot'[Bottom][j] = IF j = i THEN w ELSE slot[Bottom][j]
         /\ Booted' = Booted
<1> USE SasHome, LevelsAre DEF Scans
<1>1. \A j \in Slots : slot'[Bottom][j] = IF j = i THEN w ELSE slot[Bottom][j]
  BY LiveFacts
<1>2. \A l \in Uppers : slot'[l] = slot[l]
  BY LiveFacts
<1>3. SasHeld'
  <2>1. \A l \in Levels : \A j \in Slots :
          slot'[l][j] = Sas => j = 1 /\ l \in {Bottom - 1, Bottom}
    BY <1>1, <1>2 DEF Live, Kept, SasHeld, Uppers
  <2> QED
    BY <1>1, <1>2, <2>1 DEF Live, Kept, SasHeld
<1>4. \A t : Above(t)' <=> Above(t)
  BY <1>2 DEF Above, InQueue, Holds
<1>5. Booted' = Booted
  BY DEF Booted
<1>6. Started'
  <2>1. \A l \in Levels : \A j \in Slots : slot'[l][j] \in Tasks => slot'[l][j] \in Booted
    BY <1>1, <1>2 DEF Live, Kept, Started, Uppers
  <2> QED
    BY <1>5, <2>1 DEF Live, Kept, Started
<1>7. Upstairs'
  BY <1>2 DEF Live, Kept, Upstairs, Alone
<1>8. Runner'
  BY DEF Runner
<1> QED
  BY <1>1, <1>3, <1>4, <1>5, <1>6, <1>7, <1>8

LEMMA FillKept == ASSUME Live, SasFill, UNCHANGED <<dead, caught>> PROVE Kept'
<1> USE SasHome DEF Scans, Placings
<1> DEFINE w == slot[Bottom][sas.last]
<1>1. /\ SasRuns /\ sas.pc = "fill" /\ sas'.pc = "clear" /\ sas'.highest = sas.highest
      /\ sas'.at = sas.at /\ sas'.last = sas.last
      /\ slot' = [slot EXCEPT ![Bottom][sas.at] = w]
      /\ UNCHANGED <<count, top_queue, active, current_task, timer_on, booted, act>>
  BY SasRecord DEF SasFill
<1>2. /\ top_queue = Bottom /\ sas.last = count[Bottom] /\ sas.at # 1
      /\ sas.at <= count[Bottom] /\ slot[Bottom][sas.at] \notin Tasks
  BY <1>1 DEF Live, Kept, Upstairs, Locals, Erasures
<1>3. sas.at \in Slots /\ sas.last \in Slots /\ sas.last # 1
  BY <1>1, <1>2, LiveFacts, LevelsAre DEF Live, OpsInv, Typed, SasTypes, Erases, Slots
<1>4. w # Sas /\ (w \in Tasks => w \in Booted)
  BY <1>3, LevelsAre DEF Live, Kept, SasHeld, Started
<1> HIDE DEF w
<1>5. /\ SasHeld' /\ Started' /\ Upstairs' /\ Runner'
      /\ \A t : Above(t)' <=> Above(t)
      /\ \A j \in Slots : slot'[Bottom][j] = IF j = sas.at THEN w ELSE slot[Bottom][j]
      /\ Booted' = Booted
  BY <1>1, <1>2, <1>3, <1>4, BottomWritten
<1>6. slot'[Bottom][sas.at] = slot'[Bottom][sas.last]
      /\ (sas.at = sas.last => slot'[Bottom][sas.at] \notin Tasks)
  BY <1>2, <1>3, <1>5 DEF w
<1>7. Locals'
  BY <1>1, <1>2, <1>6 DEF Locals, Erasures
<1>8. Worded'
  BY <1>1, <1>5 DEF Live, Kept, Worded, NamesBottom
<1>9. Room'
  <2>1. Below' = Below
    BY <1>1, <1>5 DEF Below, Lifting
  <2>2. Filled' = IF w \in Tasks THEN Filled \cup {sas.at} ELSE Filled
    BY <1>1, <1>2, <1>3, <1>5 DEF Filled
  <2>3. sas.at \notin Filled
    BY <1>2 DEF Filled
  <2>4. Cardinality(Filled') = IF w \in Tasks THEN Cardinality(Filled) + 1
                                              ELSE Cardinality(Filled)
    BY <2>2, <2>3, Finite, FS_AddElement
  <2>5. ~LiftsDead /\ sas'.pc \notin Liftings
    BY <1>1 DEF LiftsDead, Liftings
  <2>6. slot'[Bottom][sas.at] = w
    BY <1>3, <1>5
  <2>7. Cardinality(Below) <= Cardinality(Filled) /\ Cardinality(Below) <= count[Bottom]
    BY <2>5 DEF Live, Kept, Room
  <2>8. Cardinality(Below) \in Nat /\ Cardinality(Filled) \in Nat
    BY Finite
  <2>9. Cardinality(Below) <= Cardinality(Filled')
        /\ (w \in Tasks => Cardinality(Below) < Cardinality(Filled'))
    BY <2>4, <2>7, <2>8
  <2> QED
    BY <1>1, <2>1, <2>5, <2>6, <2>7, <2>9 DEF Room
<1> QED
  BY <1>5, <1>7, <1>8, <1>9 DEF Kept

LEMMA ClearKept == ASSUME Live, SasClear, UNCHANGED <<dead, caught>> PROVE Kept'
<1> USE SasHome DEF Scans, Placings
<1>1. /\ SasRuns /\ sas.pc = "clear" /\ sas'.pc = "follow" /\ sas'.highest = sas.highest
      /\ sas'.at = sas.at
      /\ slot' = [slot EXCEPT ![Bottom][sas.last] = Empty]
      /\ UNCHANGED <<count, top_queue, active, current_task, timer_on, booted, act>>
  BY SasRecord DEF SasClear
<1>2. /\ top_queue = Bottom /\ sas.last = count[Bottom] /\ sas.at # 1
      /\ sas.at <= count[Bottom] /\ slot[Bottom][sas.at] = slot[Bottom][sas.last]
      /\ sas.at = sas.last => slot[Bottom][sas.at] \notin Tasks
  BY <1>1 DEF Live, Kept, Upstairs, Locals, Erasures
<1>3. sas.at \in Slots /\ sas.last \in Slots /\ sas.last # 1
  BY <1>1, <1>2, LiveFacts, LevelsAre DEF Live, OpsInv, Typed, SasTypes, Erases
<1>4. Empty # Sas /\ Empty \notin Tasks
  BY Names
<1>5. /\ SasHeld' /\ Started' /\ Upstairs' /\ Runner'
      /\ \A t : Above(t)' <=> Above(t)
      /\ \A j \in Slots : slot'[Bottom][j] = IF j = sas.last THEN Empty ELSE slot[Bottom][j]
      /\ Booted' = Booted
  BY <1>1, <1>2, <1>3, <1>4, BottomWritten
<1>6. slot'[Bottom][count[Bottom]] = Empty
  BY <1>2, <1>3, <1>5
<1>7. Locals'
  BY <1>1, <1>2, <1>6 DEF Locals, Erasures
<1>8. Worded'
  BY <1>1, <1>5 DEF Live, Kept, Worded, NamesBottom
<1>9. Room'
  <2>1. Below' = Below
    BY <1>1, <1>5 DEF Below, Lifting
  <2>2. Filled' = Filled \ {sas.last}
    BY <1>1, <1>2, <1>3, <1>4, <1>5 DEF Filled
  <2>3. ~LiftsDead /\ sas'.pc \notin Liftings /\ sas'.pc # "clear"
    BY <1>1 DEF LiftsDead, Liftings
  <2>4. sas.last \in Filled <=> slot[Bottom][sas.at] \in Tasks
    BY <1>2, <1>3, LiveFacts, LevelsAre DEF Filled
  <2>5. /\ Cardinality(Below) \in Nat /\ Cardinality(Filled) \in Nat
        /\ Cardinality(Filled') = IF sas.last \in Filled THEN Cardinality(Filled) - 1
                                                         ELSE Cardinality(Filled)
    BY <2>2, Finite, FS_RemoveElement
  <2>6. /\ Cardinality(Below) <= Cardinality(Filled) /\ Cardinality(Below) <= count[Bottom]
        /\ sas.last \in Filled => Cardinality(Below) < Cardinality(Filled)
    BY <1>1, <2>3, <2>4 DEF Live, Kept, Room
  <2>7. Cardinality(Below) <= Cardinality(Filled')
    BY <2>5, <2>6
  <2> QED
    BY <1>1, <2>1, <2>3, <2>6, <2>7 DEF Room
<1> QED
  BY <1>5, <1>7, <1>8, <1>9 DEF Kept

LEMMA FollowKept == ASSUME Live, SasFollow, UNCHANGED <<dead, caught>> PROVE Kept'
<1> USE SasHome, LevelsAre DEF Scans, Placings
<1>1. /\ SasRuns /\ sas.pc = "follow" /\ sas'.pc = "load" /\ sas'.highest = sas.highest
      /\ sas'.at = sas.at
      /\ \/ active' = [active EXCEPT ![At] = <<Bottom, sas.at>>]
         \/ UNCHANGED active
      /\ UNCHANGED <<count, slot, top_queue, current_task, timer_on, booted, act>>
  BY SasRecord DEF SasFollow
<1>2. top_queue = Bottom /\ sas.at # 1 /\ sas.at \in Slots
  BY <1>1, Scanned DEF Live, Kept, Upstairs, Locals, Erasures, Erases
<1>3. /\ Booted' = Booted /\ Filled' = Filled /\ Below' = Below
      /\ \A t : Above(t)' <=> Above(t)
  BY <1>1, SetsStay DEF Lifting
<1>4. SasHeld'
  BY <1>1, HeldStays DEF Live, Kept
<1>5. Started'
  BY <1>1, <1>3 DEF Live, Kept, Started
<1>6. Upstairs'
  BY <1>1, <1>2 DEF Live, Kept, Upstairs, Alone
<1>7. Locals'
  BY <1>1, <1>2 DEF Live, Kept, Locals, Erasures
<1>8. Worded'
  <2>1. ASSUME NEW t \in Booted \ {Sas}
        PROVE  Above(t)' \/ NamesBottom(t)' \/ (active'[t] = None /\ t \in dead')
    <3>1. CASE active'[t] = active[t]
      BY <1>3, <3>1 DEF Live, Kept, Worded, NamesBottom
    <3>2. CASE active'[t] = <<Bottom, sas.at>>
      BY <1>2, <3>2 DEF NamesBottom
    <3>3. active'[t] = active[t] \/ active'[t] = <<Bottom, sas.at>>
      BY <1>1, LiveFacts
    <3> QED
      BY <3>1, <3>2, <3>3
  <2> QED
    BY <1>3, <2>1 DEF Worded
<1>9. Runner'
  BY <1>1 DEF Runner
<1>10. Room'
  BY <1>1, QuietRoom DEF Lifting, LiftsDead, Liftings
<1> QED
  BY <1>4, <1>5, <1>6, <1>7, <1>8, <1>9, <1>10 DEF Kept

LEMMA StoreKept == ASSUME Live, SasStore, UNCHANGED <<dead, caught>> PROVE Kept'
<1> USE SasHome, LevelsAre DEF Scans, Placings
<1>1. /\ SasRuns /\ sas.pc = "store" /\ sas'.pc = "wrap" /\ sas'.highest = sas.highest
      /\ count' = [count EXCEPT ![Bottom] = sas.last - 1]
      /\ UNCHANGED <<slot, top_queue, active, current_task, timer_on, booted, act>>
  BY SasRecord DEF SasStore
<1>2. /\ top_queue = Bottom /\ sas.last = count[Bottom] /\ sas.at # 1
      /\ sas.at <= count[Bottom] /\ slot[Bottom][count[Bottom]] = Empty
  BY <1>1 DEF Live, Kept, Upstairs, Locals, Erasures
<1>3. /\ count'[Bottom] = count[Bottom] - 1 /\ count'[Bottom] \in Nat /\ count'[Bottom] # 0
      /\ \A l \in Uppers : count'[l] = count[l]
  BY <1>1, <1>2, LiveFacts
<1>4. \A t : Above(t)' <=> Above(t)
  BY <1>1, <1>3 DEF Above, InQueue, Holds
<1>5. Booted' = Booted
  BY <1>1 DEF Booted
<1>6. SasHeld'
  BY <1>1, <1>3 DEF Live, Kept, SasHeld
<1>7. Started'
  BY <1>1, <1>3, <1>5 DEF Live, Kept, Started
<1>8. Upstairs'
  BY <1>1, <1>3 DEF Live, Kept, Upstairs, Alone
<1>9. Locals'
  BY <1>1, <1>2 DEF Locals, Erasures
<1>10. Worded'
  BY <1>1, <1>4, <1>5 DEF Live, Kept, Worded, NamesBottom
<1>11. Runner'
  BY <1>1 DEF Runner
<1>12. Room'
  <2>1. Below' = Below
    BY <1>1, <1>4, <1>5 DEF Below, Lifting
  <2>2. Filled' = Filled
    <3>1. \A i \in Slots : i <= count[Bottom] /\ slot[Bottom][i] \in Tasks
            => i <= count[Bottom] - 1
      BY <1>2, Names, LiveFacts
    <3>2. \A i \in Slots : i <= count[Bottom] - 1 => i <= count[Bottom]
      BY LiveFacts
    <3> QED
      BY <1>1, <1>3, <3>1, <3>2 DEF Filled
  <2>3. ~LiftsDead /\ sas'.pc \notin Liftings /\ sas'.pc # "clear"
    BY <1>1 DEF LiftsDead, Liftings
  <2>4. Cardinality(Filled) <= count'[Bottom]
    <3>1. \A i \in Filled' : i \in Nat /\ i >= 1 /\ i <= count'[Bottom]
      BY DEF Filled
    <3>2. \A i \in Filled : i \in 1..count'[Bottom]
      BY <1>3, <2>2, <3>1
    <3> QED
      BY <1>3, <3>2, UptoFits
  <2>5. Cardinality(Below) <= Cardinality(Filled)
    BY <2>3 DEF Live, Kept, Room
  <2>6. Cardinality(Below) \in Nat /\ Cardinality(Filled) \in Nat
    BY Finite
  <2>7. Cardinality(Below) <= count'[Bottom]
    BY <1>3, <2>4, <2>5, <2>6
  <2> QED
    BY <2>1, <2>2, <2>3, <2>5, <2>7 DEF Room
<1> QED
  BY <1>6, <1>7, <1>8, <1>9, <1>10, <1>11, <1>12 DEF Kept

(* Before the entry is placed in the upper queue nothing is queued above.   *)
LEMMA NothingAbove ==
  ASSUME Live, sas.pc \in {"vacate", "void", "begin", "extend", "place"}
  PROVE  /\ top_queue = Bottom
         /\ \A l \in Uppers : l # LiftQueue => count[l] = 0
         /\ sas.pc # "place" => count[LiftQueue] = 0
         /\ \A l \in Uppers : \A i \in Slots : i <= count[l] => slot[l][i] = Empty
         /\ \A t \in Tasks : ~Above(t)
<1> USE LevelsAre DEF Scans, Placings
<1>1. top_queue = Bottom
  BY DEF Live, Kept, Upstairs
<1>2. \A l \in Uppers : l # LiftQueue \/ sas.pc # "place" => count[l] = 0
  BY <1>1 DEF Live, Kept, Upstairs
<1>3. \A l \in Uppers : \A i \in Slots : i <= count[l] => slot[l][i] = Empty
  BY <1>2 DEF Live, Kept, Upstairs
<1>4. \A t \in Tasks : ~Above(t)
  BY <1>3, Names DEF Above, InQueue, Holds
<1> QED
  BY <1>1, <1>2, <1>3, <1>4

LEMMA VacateKept == ASSUME Live, SasVacate, UNCHANGED <<dead, caught>> PROVE Kept'
<1> USE SasHome, LevelsAre DEF Scans, Placings
<1>1. /\ SasRuns /\ sas.pc = "vacate" /\ sas'.pc = "void" /\ sas'.highest = sas.highest
      /\ sas'.place = active[sas.highest]
      /\ UNCHANGED <<count, slot, top_queue, active, current_task, timer_on, booted, act>>
  BY SasRecord DEF SasVacate, queueVars
<1>2. top_queue = Bottom /\ \A t \in Tasks : ~Above(t)
  BY <1>1, NothingAbove
<1>3. sas.highest \in Booted \ {Sas} /\ sas.highest \in Tasks
  <2>1. sas.highest \in Tasks
    BY <1>1 DEF Live, OpsInv, Typed, SasTypes, Lifts
  <2> QED
    BY <2>1, Names DEF Live, Kept, Started
<1>4. Locals'
  <2>1. \/ sas'.place = None /\ sas.highest \in dead
        \/ \E j \in Slots \ {1} : sas'.place = <<Bottom, j>>
    BY <1>1, <1>2, <1>3 DEF Live, Kept, Worded, NamesBottom
  <2> QED
    BY <1>1, <1>2, <2>1 DEF Locals, Erasures
<1>5. Room'
  BY <1>1, QuietRoom DEF Lifting, LiftsDead, Liftings
<1> QED
  BY <1>1, <1>2, <1>3, <1>4, <1>5, QuietKept

LEMMA VoidKept == ASSUME Live, SasVoid, UNCHANGED <<dead, caught>> PROVE Kept'
<1> USE SasHome, LevelsAre DEF Scans, Placings
<1> DEFINE p == sas.place
<1>1. /\ SasRuns /\ sas.pc = "void" /\ sas'.pc = "begin" /\ sas'.highest = sas.highest
      /\ slot' = IF p = None THEN slot ELSE [slot EXCEPT ![p[1]][p[2]] = void]
      /\ UNCHANGED <<count, top_queue, active, current_task, timer_on, booted, act>>
  BY SasRecord DEF SasVoid
<1>2. top_queue = Bottom /\ \A t \in Tasks : ~Above(t)
  BY <1>1, NothingAbove
<1>3. sas.highest \in Booted \ {Sas} /\ sas.highest \in Tasks
  <2>1. sas.highest \in Tasks
    BY <1>1 DEF Live, OpsInv, Typed, SasTypes, Lifts
  <2> QED
    BY <2>1, Names DEF Live, Kept, Started
<1>4. \/ p = None /\ sas.highest \in dead
      \/ \E j \in Slots \ {1} : p = <<Bottom, j>>
  BY <1>1 DEF Live, Kept, Locals
<1> HIDE DEF p
<1>5. Locals'
  BY <1>1, <1>2 DEF Locals, Erasures
<1>6. /\ ~Lifting /\ Lifting' /\ sas'.pc \in Liftings /\ sas'.pc # "clear"
      /\ LiftsDead' <=> sas.highest \in dead
      /\ LiftsDead <=> sas.highest \in dead
  BY <1>1 DEF Lifting, LiftsDead, Liftings
<1>7. /\ Cardinality(Below) <= count[Bottom]
      /\ ~LiftsDead => Cardinality(Below) <= Cardinality(Filled)
  BY DEF Live, Kept, Room
<1>8. /\ Cardinality(Below) \in Nat /\ Cardinality(Filled) \in Nat
      /\ count[Bottom] \in Nat
  BY Finite, LiveFacts
<1>9. CASE p = None
  <2>1. slot' = slot /\ sas.highest \in dead
    BY <1>1, <1>4, <1>9, Names DEF Places
  <2>2. /\ Booted' = Booted /\ Filled' = Filled /\ \A t : Above(t)' <=> Above(t)
    BY <1>1, <2>1, SetsStay
  <2>3. SasHeld'
    BY <1>1, <2>1, HeldStays DEF Live, Kept
  <2>4. Started'
    BY <1>1, <2>1, <2>2 DEF Live, Kept, Started
  <2>5. Upstairs'
    BY <1>1, <2>1 DEF Live, Kept, Upstairs, Alone
  <2>6. Worded' /\ Runner'
    BY <1>1, <2>2 DEF Live, Kept, Worded, NamesBottom, Runner
  <2>7. Below' = Below
    BY <1>1, <1>6, <2>1, <2>2 DEF Below
  <2>8. Room'
    BY <1>1, <1>6, <1>7, <2>1, <2>2, <2>7 DEF Room
  <2> QED
    BY <1>5, <2>3, <2>4, <2>5, <2>6, <2>8 DEF Kept
<1>10. CASE \E j \in Slots \ {1} : p = <<Bottom, j>>
  <2>1. PICK j \in Slots \ {1} : p = <<Bottom, j>>
    BY <1>10
  <2>2. slot' = [slot EXCEPT ![Bottom][j] = void]
    <3>1. p # None
      BY <2>1, Names DEF Places
    <3> QED
      BY <1>1, <2>1, <3>1
  <2>3. void # Sas /\ void \notin Tasks
    BY LiveFacts
  <2>4. /\ SasHeld' /\ Started' /\ Upstairs' /\ Runner'
        /\ \A t : Above(t)' <=> Above(t)
        /\ \A k \in Slots : slot'[Bottom][k] = IF k = j THEN void ELSE slot[Bottom][k]
        /\ Booted' = Booted
    BY <1>1, <1>2, <2>2, <2>3, BottomWritten
  <2>5. Worded'
    BY <1>1, <2>4 DEF Live, Kept, Worded, NamesBottom
  <2>6. Below' = Below \ {sas.highest}
    BY <1>1, <1>6, <2>4 DEF Below
  <2>7. Filled' = Filled \ {j}
    BY <1>1, <2>3, <2>4 DEF Filled
  <2>8. sas.highest \in dead \/ sas.highest \in Below
    BY <1>2, <1>3, <1>6 DEF Below
  <2>9. sas.highest \in Below <=> sas.highest \notin dead
    BY <2>8 DEF Below
  <2>10. Cardinality(Below') = IF sas.highest \in dead THEN Cardinality(Below)
                                                      ELSE Cardinality(Below) - 1
    BY <2>6, <2>9, Finite, FS_RemoveElement
  <2>11. Cardinality(Filled') \in {Cardinality(Filled), Cardinality(Filled) - 1}
    BY <2>7, Finite, FS_RemoveElement
  <2>12. /\ Cardinality(Below') <= count[Bottom]
         /\ ~LiftsDead' => Cardinality(Below') <= Cardinality(Filled')
         /\ ~LiftsDead' => Cardinality(Below') < count[Bottom]
    BY <1>6, <1>7, <1>8, <2>10, <2>11
  <2>13. Room'
    BY <1>1, <1>6, <2>12 DEF Room
  <2> QED
    BY <1>5, <2>4, <2>5, <2>13 DEF Kept
<1> QED
  BY <1>4, <1>9, <1>10

LEMMA LiftExtendKept == ASSUME Live, SasLiftExtend, UNCHANGED <<dead, caught>> PROVE Kept'
<1> USE SasHome, LevelsAre DEF Scans, Placings
<1>1. /\ SasRuns /\ sas.pc = "extend" /\ sas'.pc = "place" /\ sas'.highest = sas.highest
      /\ count' = [count EXCEPT ![LiftQueue] = sas.last + 1]
      /\ UNCHANGED <<slot, top_queue, active, current_task, timer_on, booted, act>>
  BY SasRecord DEF SasLiftExtend
<1>2. /\ top_queue = Bottom /\ sas.last = 0 /\ count[LiftQueue] = 0
      /\ \A l \in Uppers : count[l] = 0
      /\ \A t \in Tasks : ~Above(t)
  BY <1>1, NothingAbove DEF Live, Kept, Locals
<1>3. /\ count'[LiftQueue] = 1 /\ count'[Bottom] = count[Bottom]
      /\ \A l \in Uppers : l # LiftQueue => count'[l] = 0
  BY <1>1, <1>2, LiveFacts DEF Uppers
<1>4. \A l \in Uppers : \A i \in Slots : slot[l][i] = Empty
  BY <1>1, <1>2 DEF Live, Kept, Upstairs
<1>5. \A t \in Tasks : ~Above(t)'
  BY <1>1, <1>4, Names DEF Above, InQueue, Holds
<1>6. Booted' = Booted /\ Booted \subseteq Tasks
  BY <1>1, LiveFacts DEF Booted
<1>7. SasHeld'
  BY <1>1, <1>3 DEF Live, Kept, SasHeld
<1>8. Started'
  BY <1>1, <1>3, <1>6 DEF Live, Kept, Started
<1>9. Upstairs'
  <2>1. \A l \in Uppers : l < top_queue => count'[l] = 0 \/ l = LiftQueue
    BY <1>3
  <2>2. \A l \in Uppers : \A i \in Slots : slot[l][i] \notin Tasks
    BY <1>4, Names
  <2>3. \A l \in Uppers : \A i \in Slots : slot'[l][i] = Empty /\ slot'[l][i] \notin Tasks
    BY <1>1, <1>4, <2>2
  <2>4. Killers \subseteq Tasks
    BY Names
  <2>5. top_queue' = Bottom /\ sas'.pc = "place" /\ top_queue = Bottom
    BY <1>1, <1>2
  <2>6. \A l \in Uppers : l < top_queue' =>
          count'[l] = 0 \/ (l = LiftQueue /\ sas'.pc \in Placings)
    BY <2>1, <2>5
  <2> QED
    BY <2>3, <2>4, <2>5, <2>6 DEF Upstairs
<1>10. Locals'
  BY <1>1, <1>2, <1>3 DEF Locals, Erasures
<1>11. Worded'
  BY <1>1, <1>2, <1>6 DEF Live, Kept, Worded, NamesBottom
<1>12. Runner'
  BY <1>1 DEF Runner
<1>13. Room'
  <2>1. Below' = Below
    BY <1>1, <1>2, <1>5, <1>6 DEF Below, Lifting
  <2>2. Filled' = Filled
    BY <1>1, <1>3 DEF Filled
  <2>3. (LiftsDead' <=> LiftsDead) /\ sas.pc \in Liftings
    BY <1>1 DEF LiftsDead, Liftings
  <2> QED
    BY <1>1, <1>3, <2>1, <2>2, <2>3 DEF Live, Kept, Room
<1> QED
  BY <1>7, <1>8, <1>9, <1>10, <1>11, <1>12, <1>13 DEF Kept

LEMMA LiftPlaceKept == ASSUME Live, SasLiftPlace, UNCHANGED <<dead, caught>> PROVE Kept'
<1> USE SasHome, LevelsAre DEF Scans, Placings
<1>1. /\ SasRuns /\ sas.pc = "place" /\ sas'.pc = "word" /\ sas'.highest = sas.highest
      /\ slot' = [slot EXCEPT ![LiftQueue][count[LiftQueue]] = sas.highest]
      /\ UNCHANGED <<count, top_queue, active, current_task, timer_on, booted, act>>
  BY SasRecord DEF SasLiftPlace
<1>2. /\ top_queue = Bottom /\ count[LiftQueue] = 1
      /\ \A l \in Uppers : l # LiftQueue => count[l] = 0
      /\ \A t \in Tasks : ~Above(t)
  BY <1>1, NothingAbove DEF Live, Kept, Locals
<1>3. sas.highest \in Booted \ {Sas} /\ sas.highest \in Tasks /\ Booted \subseteq Tasks
  <2>1. sas.highest \in Tasks
    BY <1>1 DEF Live, OpsInv, Typed, SasTypes, Lifts
  <2> QED
    BY <2>1, Names, LiveFacts DEF Live, Kept, Started
<1>4. /\ slot'[LiftQueue][1] = sas.highest
      /\ \A i \in Slots : i # 1 => slot'[LiftQueue][i] = slot[LiftQueue][i]
      /\ \A l \in Levels : l # LiftQueue => slot'[l] = slot[l]
  BY <1>1, <1>2, LiveFacts
<1>5. \A t \in Tasks : Above(t)' <=> t = sas.highest
  <2>1. \A i \in Slots : i <= 1 => i = 1
    OBVIOUS
  <2>2. \A l \in Uppers : \A i \in Slots : l # LiftQueue => ~(i <= count[l])
    BY <1>2
  <2> QED
    BY <1>1, <1>2, <1>3, <1>4, <2>1, <2>2 DEF Above, InQueue, Holds
<1>6. Booted' = Booted
  BY <1>1 DEF Booted
<1>7. SasHeld'
  <2>1. \A l \in Levels : \A i \in Slots :
          slot'[l][i] = Sas => i = 1 /\ l \in {Bottom - 1, Bottom}
    BY <1>3, <1>4 DEF Live, Kept, SasHeld
  <2>2. slot'[Bottom] = slot[Bottom]
    BY <1>4
  <2>3. slot'[Bottom - 1][1] # Sas
    <3>1. slot[Bottom - 1][1] # Sas
      BY <1>1 DEF Live, Kept, SasHeld
    <3>2. slot'[Bottom - 1][1] \in {sas.highest, slot[Bottom - 1][1]}
      BY <1>4
    <3> QED
      BY <1>3, <3>1, <3>2
  <2> QED
    BY <1>1, <2>1, <2>2, <2>3 DEF Live, Kept, SasHeld
<1>8. Started'
  <2>1. \A l \in Levels : \A i \in Slots : slot'[l][i] \in Tasks => slot'[l][i] \in Booted
    BY <1>3, <1>4 DEF Live, Kept, Started
  <2> QED
    BY <1>1, <1>6, <2>1 DEF Live, Kept, Started
<1>9. Upstairs'
  <2>1. \A l \in Uppers : \A i \in Slots : i <= count[l] => l = LiftQueue /\ i = 1
    <3>1. \A i \in Slots : ~(i <= 0) /\ (i <= 1 => i = 1)
      OBVIOUS
    <3> QED
      BY <1>2, <3>1
  <2>2. Alone(LiftQueue)'
    BY <1>1, <1>2 DEF Alone
  <2>3. \A l \in Uppers : \A i \in Slots : i > count[l] => slot'[l][i] = Empty
    <3>1. \A i \in Slots : ~(i > 1 /\ i = 1)
      OBVIOUS
    <3> QED
      BY <1>1, <1>2, <1>4, <3>1 DEF Live, Kept, Upstairs, Uppers
  <2>4. \A l \in Uppers : l < top_queue => count[l] = 0 \/ l = LiftQueue
    BY <1>2
  <2> QED
    BY <1>1, <1>2, <2>1, <2>2, <2>3, <2>4 DEF Upstairs
<1>10. Locals'
  BY <1>1, <1>2, <1>4 DEF Locals, Erasures
<1>11. Worded'
  BY <1>1, <1>2, <1>3, <1>5, <1>6 DEF Live, Kept, Worded, NamesBottom
<1>12. Runner'
  BY <1>1 DEF Runner
<1>13. Room'
  <2>1. Below' = Below
    BY <1>1, <1>2, <1>3, <1>5, <1>6 DEF Below, Lifting
  <2>2. Filled' = Filled
    BY <1>1, <1>4 DEF Filled, Uppers
  <2>3. (LiftsDead' <=> LiftsDead) /\ sas.pc \in Liftings
    BY <1>1 DEF LiftsDead, Liftings
  <2> QED
    BY <1>1, <2>1, <2>2, <2>3 DEF Live, Kept, Room
<1> QED
  BY <1>7, <1>8, <1>9, <1>10, <1>11, <1>12, <1>13 DEF Kept

LEMMA LiftWordKept == ASSUME Live, SasLiftWord, UNCHANGED <<dead, caught>> PROVE Kept'
<1> USE SasHome, LevelsAre DEF Scans, Placings
<1>1. /\ SasRuns /\ sas.pc = "word" /\ sas'.pc = "raise" /\ sas'.highest = sas.highest
      /\ active' = [active EXCEPT ![sas.highest] = sas.place]
      /\ UNCHANGED <<count, slot, top_queue, current_task, timer_on, booted, act>>
  BY SasRecord DEF SasLiftWord
<1>2. top_queue = Bottom /\ slot[LiftQueue][1] = sas.highest /\ count[LiftQueue] = 1
  BY <1>1 DEF Live, Kept, Locals, Upstairs
<1>3. Booted' = Booted /\ Filled' = Filled /\ Below' = Below
      /\ \A t : Above(t)' <=> Above(t)
  BY <1>1, SetsStay DEF Lifting
<1>4. Above(sas.highest)
  BY <1>2 DEF Above, InQueue, Holds
<1>5. SasHeld'
  BY <1>1, HeldStays DEF Live, Kept
<1>6. Started'
  BY <1>1, <1>3 DEF Live, Kept, Started
<1>7. Upstairs'
  BY <1>1, <1>2 DEF Live, Kept, Upstairs, Alone
<1>8. Locals'
  BY <1>1, <1>2 DEF Locals, Erasures
<1>9. Worded'
  <2>1. \A t \in Booted : t # sas.highest => active'[t] = active[t]
    BY <1>1, LiveFacts
  <2> QED
    BY <1>1, <1>3, <1>4, <2>1 DEF Live, Kept, Worded, NamesBottom
<1>10. Runner'
  BY <1>1 DEF Runner
<1>11. Room'
  <2>1. (LiftsDead' <=> LiftsDead) /\ sas.pc \in Liftings
    BY <1>1 DEF LiftsDead, Liftings
  <2> QED
    BY <1>1, <1>3, <2>1 DEF Live, Kept, Room
<1> QED
  BY <1>5, <1>6, <1>7, <1>8, <1>9, <1>10, <1>11 DEF Kept

LEMMA LiftRaiseKept == ASSUME Live, SasLiftRaise, UNCHANGED <<dead, caught>> PROVE Kept'
<1> USE SasHome, LevelsAre DEF Scans, Placings
<1>1. /\ SasRuns /\ sas.pc = "raise" /\ sas'.pc = "yield" /\ sas'.highest = None
      /\ RaiseTop(LiftQueue)
      /\ UNCHANGED <<count, slot, active, current_task, timer_on, booted, act>>
  BY SasRecord DEF SasLiftRaise
<1>2. /\ top_queue = Bottom /\ slot[LiftQueue][1] = sas.highest
      /\ \A l \in Uppers : l # LiftQueue => count[l] = 0
  BY <1>1 DEF Live, Kept, Locals, Upstairs
<1>3. top_queue' = LiftQueue
  BY <1>1, <1>2 DEF RaiseTop
<1>4. Booted' = Booted /\ Filled' = Filled /\ Below' = Below
      /\ \A t : Above(t)' <=> Above(t)
  BY <1>1, SetsStay DEF Lifting
<1>5. SasHeld'
  BY <1>1, HeldStays DEF Live, Kept
<1>6. Started'
  BY <1>1, <1>3, <1>4 DEF Live, Kept, Started
<1>7. Upstairs'
  <2>1. \A l \in Uppers : l < LiftQueue => count[l] = 0
    BY <1>2
  <2> QED
    BY <1>1, <1>3, <2>1 DEF Live, Kept, Upstairs, Alone
<1>8. Locals'
  BY <1>1, <1>3 DEF Locals, Erasures
<1>9. Worded'
  BY <1>1, <1>4 DEF Live, Kept, Worded, NamesBottom
<1>10. Runner'
  BY <1>1 DEF Runner
<1>11. Room'
  <2>1. LiftsDead' <=> LiftsDead
    BY <1>1, <1>2, <1>3 DEF LiftsDead, Liftings, Uppers
  <2>2. sas'.pc \notin Liftings
    BY <1>1 DEF Liftings
  <2> QED
    BY <1>1, <1>4, <2>1, <2>2 DEF Live, Kept, Room
<1> QED
  BY <1>5, <1>6, <1>7, <1>8, <1>9, <1>10, <1>11 DEF Kept

-----------------------------------------------------------------------------
(* kill() and the maintenance task.                                         *)
LEMMA KillIs ==
  ASSUME Live, Kill, ~caught'
  PROVE  /\ current_task \in Killers \ dead /\ current_task \in Booted \ {Sas}
         /\ current_task \in Tasks
         /\ active[current_task] \in Places
         /\ slot[active[current_task][1]][active[current_task][2]] = current_task
         /\ Removed(active[current_task][1], active[current_task][2])
         /\ active' = [active EXCEPT ![current_task] = None]
         /\ dead' = dead \cup {current_task} /\ current_task' = Boot
         /\ sas.pc \notin Erasures
         /\ sas.pc \in {"look", "hole"} => sas.at # count[Bottom]
         /\ Boot \notin Killers /\ Boot # Sas
         /\ Booted' = Booted
         /\ UNCHANGED <<timer_on, booted, act, sas>>
<1>1. /\ current_task \in Killers \ dead
      /\ Removed(active[current_task][1], active[current_task][2])
      /\ active' = [active EXCEPT ![current_task] = None]
      /\ dead' = dead \cup {current_task} /\ current_task' = Boot
      /\ sas.pc \notin Erasures
      /\ sas.pc \in {"look", "hole"} => sas.at # count[Bottom]
      /\ UNCHANGED <<timer_on, booted, act, sas>>
  BY DEF Kill, Erasing, Erasures
<1>2. current_task \in Tasks \ {Sas, Ipc}
  BY <1>1, Names
<1>3. active[current_task] \in Places
      /\ slot[active[current_task][1]][active[current_task][2]] = current_task
  BY <1>2 DEF Live, OpsInv, Owns
<1>4. current_task \in Booted
  BY <1>2, <1>3 DEF Live, Kept, Started, Places
<1>5. Boot \notin Killers /\ Boot # Sas
  BY Names
<1>6. Booted' = Booted
  BY <1>1 DEF Booted
<1> QED
  BY <1>1, <1>2, <1>3, <1>4, <1>5, <1>6

(* Two tasks or more belong in the bottom queue when a task that is in one  *)
(* of its slots kills itself.                                               *)
LEMMA BottomKeepsSas ==
  ASSUME Live, current_task \in Killers \ dead, current_task \in Booted,
         active[current_task][1] = Bottom, count[Bottom] # 0
  PROVE  /\ count[Bottom] >= 2
         /\ current_task \notin Below =>
              /\ sas.pc \in Liftings /\ sas.highest = current_task
              /\ Cardinality(Below) < count[Bottom]
<1> USE LevelsAre
<1> DEFINE c == current_task
           n == count[Bottom]
<1>1. Sas \in Below
  <2>1. ~Above(Sas)
    BY DEF Live, Kept, SasHeld, Above, InQueue, Holds, Uppers
  <2> QED
    BY <2>1, LiveFacts DEF Below
<1>2. /\ IsFiniteSet(Below) /\ Cardinality(Below) \in Nat /\ n \in Nat
      /\ Cardinality(Below) <= n
  BY Finite, LiveFacts DEF Live, Kept, Room
<1>3. Cardinality(Below) # 0
  BY <1>1, <1>2, FS_EmptySet
<1>4. CASE c \in Below
  <2>1. /\ IsFiniteSet(Below \ {c}) /\ Cardinality(Below \ {c}) = Cardinality(Below) - 1
    BY <1>2, <1>4, FS_RemoveElement
  <2>2. Sas \in Below \ {c}
    BY <1>1, LiveFacts
  <2>3. Cardinality(Below \ {c}) # 0
    BY <2>1, <2>2, FS_EmptySet
  <2>4. Cardinality(Below) # 1
    BY <1>2, <2>1, <2>3
  <2> QED
    BY <1>2, <1>3, <1>4, <2>4
<1>5. CASE c \notin Below
  <2>1. sas.pc \in Liftings /\ sas.highest = c
    BY <1>5 DEF Live, Kept, Runner, Below, Lifting, Liftings, Placings
  <2>2. ~LiftsDead
    BY <2>1, LiveFacts DEF LiftsDead, Liftings
  <2>3. Cardinality(Below) < n
    BY <2>1, <2>2 DEF Live, Kept, Room
  <2> QED
    BY <1>2, <1>3, <2>1, <2>3
<1> QED
  BY <1>4, <1>5

LEMMA KillBelowKept ==
  ASSUME Live, Kill, ~caught', active[current_task][1] = Bottom PROVE Kept'
<1> USE LevelsAre DEF Scans, Placings
<1> DEFINE c == current_task
           i == active[c][2]
           n == count[Bottom]
           w == IF i = n THEN Empty ELSE slot[Bottom][n]
<1>1. /\ c \in Killers \ dead /\ c \in Booted \ {Sas} /\ c \in Tasks
      /\ i \in Slots /\ slot[Bottom][i] = c
      /\ active' = [active EXCEPT ![c] = None]
      /\ dead' = dead \cup {c} /\ current_task' = Boot
      /\ sas.pc \notin Erasures
      /\ sas.pc \in {"look", "hole"} => sas.at # n
      /\ Boot \notin Killers /\ Boot # Sas
      /\ Booted' = Booted
      /\ UNCHANGED <<timer_on, booted, act, sas>>
  BY KillIs DEF Places
<1>2. RemoveFromBottom(Bottom, i)
  BY KillIs DEF Removed, RemoveFromUpper
<1>3. /\ n \in Slots /\ UNCHANGED top_queue
      /\ slot' = [slot EXCEPT ![Bottom][i] = w]
      /\ count' = [count EXCEPT ![Bottom] = n - 1]
  BY <1>2 DEF RemoveFromBottom
<1>4. /\ n >= 2 /\ n \in Nat
      /\ c \notin Below => /\ sas.pc \in Liftings /\ sas.highest = c
                           /\ Cardinality(Below) < n
  BY <1>1, <1>3, BottomKeepsSas
<1>5. i # 1 /\ n # 1 /\ w # Sas /\ (w \in Tasks => w \in Booted)
  <2>1. n # 0 /\ n # 1
    BY <1>4
  <2>2. slot[Bottom][1] = Sas
    BY <2>1 DEF Live, Kept, SasHeld
  <2>3. i # 1
    BY <1>1, <2>2
  <2>4. slot[Bottom][n] # Sas /\ (slot[Bottom][n] \in Tasks => slot[Bottom][n] \in Booted)
    BY <1>3, <2>1 DEF Live, Kept, SasHeld, Started
  <2> QED
    BY <2>1, <2>3, <2>4, Names
<1> HIDE DEF c, i, n, w
<1>6. /\ count'[Bottom] = n - 1 /\ n - 1 # 0
      /\ \A l \in Uppers : count'[l] = count[l] /\ slot'[l] = slot[l]
      /\ \A j \in Slots : slot'[Bottom][j] = IF j = i THEN w ELSE slot[Bottom][j]
  <2>1. count \in [Levels -> 0..PAGE] /\ slot \in [Levels -> [Slots -> Words]]
    BY LiveFacts
  <2>2. n - 1 # 0
    BY <1>4
  <2>3. count'[Bottom] = n - 1 /\ \A l \in Uppers : count'[l] = count[l]
    BY <1>3, <2>1
  <2>4. \A l \in Uppers : slot'[l] = slot[l]
    BY <1>3, <2>1
  <2>5. \A j \in Slots : slot'[Bottom][j] = IF j = i THEN w ELSE slot[Bottom][j]
    BY <1>1, <1>3, <2>1
  <2> QED
    BY <2>2, <2>3, <2>4, <2>5
<1>7. \A t : Above(t)' <=> Above(t)
  <2>1. \A l \in Uppers : count'[l] = count[l] /\ slot'[l] = slot[l]
    BY <1>6
  <2>2. \A t : \A l \in Uppers : InQueue(l, t)' <=> InQueue(l, t)
    BY <2>1 DEF InQueue, Holds
  <2> QED
    BY <2>2 DEF Above
<1>8. SasHeld'
  <2>1. \A l \in Levels : \A j \in Slots :
          slot'[l][j] = Sas => j = 1 /\ l \in {Bottom - 1, Bottom}
    BY <1>5, <1>6 DEF Live, Kept, SasHeld, Uppers
  <2>2. slot'[Bottom][1] = Sas /\ slot'[Bottom - 1][1] # Sas
    <3>1. slot[Bottom][1] = Sas /\ slot[Bottom - 1][1] # Sas
      <4>1. count[Bottom] # 0
        BY <1>4 DEF n
      <4> QED
        BY <4>1 DEF Live, Kept, SasHeld
    <3> QED
      BY <1>5, <1>6, <3>1
  <2> QED
    BY <1>6, <2>1, <2>2 DEF SasHeld
<1>9. Started'
  <2>1. \A l \in Levels : \A j \in Slots : slot[l][j] \in Tasks => slot[l][j] \in Booted
    BY DEF Live, Kept, Started
  <2>2. \A l \in Levels : \A j \in Slots : slot'[l][j] \in Tasks => slot'[l][j] \in Booted
    BY <1>5, <1>6, <2>1 DEF Uppers
  <2> QED
    BY <1>1, <1>6, <2>2 DEF Live, Kept, Started
<1>10. Upstairs'
  BY <1>1, <1>3, <1>6 DEF Live, Kept, Upstairs, Alone
<1>11. Locals'
  <2>1. count'[LiftQueue] = count[LiftQueue] /\ slot'[LiftQueue] = slot[LiftQueue]
    BY <1>6
  <2>2. sas.at <= n /\ sas.at # n => sas.at <= n - 1
    BY <1>4, LiveFacts
  <2>3. sas.pc = "look" => sas.at <= count'[Bottom]
    BY <1>1, <1>6, <2>2 DEF Live, Kept, Locals, n
  <2>4. sas.pc = "hole" => /\ sas.at <= count'[Bottom] /\ sas.at # 1
                           /\ slot'[Bottom][sas.at] \notin Tasks
    <3>1. ASSUME sas.pc = "hole"
          PROVE  sas.at <= n /\ sas.at # 1 /\ slot[Bottom][sas.at] \notin Tasks
                 /\ sas.at \in Slots
      BY <3>1, Scanned DEF Live, Kept, Locals, n, Erases
    <3> QED
      BY <1>1, <1>6, <2>2, <3>1
  <2> QED
    BY <1>1, <1>3, <2>1, <2>3, <2>4 DEF Live, Kept, Locals, Erasures
<1>12. Worded'
  <2>1. \A t \in Tasks : active'[t] = IF t = c THEN None ELSE active[t]
    BY <1>1, LiveFacts
  <2>2. Booted \subseteq Tasks
    BY LiveFacts
  <2> QED
    BY <1>1, <1>7, <2>1, <2>2 DEF Live, Kept, Worded, NamesBottom
<1>13. Runner'
  BY <1>1 DEF Runner
<1>14. Room'
  <2>1. Below' = Below \ {c}
    BY <1>1, <1>7 DEF Below, Lifting
  <2> DEFINE x == IF i < n /\ w \notin Tasks THEN i ELSE n
  <2>2. \A j \in Filled \ {x} : j \in Filled'
    <3> SUFFICES ASSUME NEW j \in Filled, j # x PROVE j \in Filled'
      OBVIOUS
    <3>1. j \in Slots /\ j \in Nat /\ i \in Nat /\ j <= n /\ slot[Bottom][j] \in Tasks
      BY <1>1 DEF Filled, n
    <3>2. j # n
      <4>1. i < n /\ w \notin Tasks => slot[Bottom][n] \notin Tasks
        BY <1>4, <3>1 DEF w
      <4> QED
        BY <3>1, <4>1 DEF x
    <3>3. n \in Nat
      BY <1>4
    <3>4. j <= n - 1 /\ j < n
      BY <3>1, <3>2, <3>3
    <3>6. j = i => w \in Tasks
      BY <3>4 DEF x
    <3>5. slot'[Bottom][j] \in Tasks
      BY <1>6, <3>1, <3>6
    <3> QED
      BY <1>6, <3>1, <3>4, <3>5 DEF Filled
  <2> HIDE DEF x
  <2>3. /\ IsFiniteSet(Filled \ {x})
        /\ Cardinality(Filled \ {x}) \in {Cardinality(Filled), Cardinality(Filled) - 1}
    BY Finite, FS_RemoveElement
  <2>4. IsFiniteSet(Filled') /\ Cardinality(Filled') \in Nat
    <3>1. \A j \in Filled' : j \in 1..PAGE
      BY DEF Filled, Slots
    <3> QED
      BY <3>1, UptoFits, Shape, FS_CardinalityType
  <2>5. Cardinality(Filled \ {x}) <= Cardinality(Filled')
    BY <2>2, <2>4, FS_Subset
  <2>6. Cardinality(Filled) <= Cardinality(Filled') + 1
    BY <2>3, <2>4, <2>5, Finite
  <2>7. Cardinality(Below') = IF c \in Below THEN Cardinality(Below) - 1
                                            ELSE Cardinality(Below)
    BY <2>1, Finite, FS_RemoveElement
  <2>8. LiftsDead => LiftsDead'
    BY <1>1 DEF LiftsDead, c
  <2>9. c \notin Below => LiftsDead'
    <3>1. c \in dead' /\ UNCHANGED sas
      BY <1>1
    <3> QED
      BY <1>4, <3>1 DEF LiftsDead
  <2>10. /\ Cardinality(Below) <= n
         /\ ~LiftsDead => Cardinality(Below) <= Cardinality(Filled)
         /\ ~LiftsDead /\ sas.pc \in Liftings => Cardinality(Below) < n
    BY DEF Live, Kept, Room, n
  <2>11. Cardinality(Below) \in Nat /\ Cardinality(Filled) \in Nat /\ n \in Nat
    BY <1>4, Finite
  <2>12. Cardinality(Below') <= n - 1
    <3>1. c \notin Below => Cardinality(Below) < n
      BY <1>4
    <3> QED
      BY <2>7, <2>10, <2>11, <3>1
  <2>13. ~LiftsDead' => Cardinality(Below') <= Cardinality(Filled')
    BY <2>4, <2>6, <2>7, <2>8, <2>9, <2>10, <2>11
  <2>14. ~LiftsDead' /\ sas.pc \in Liftings => Cardinality(Below') < n - 1
    BY <2>7, <2>8, <2>9, <2>10, <2>11
  <2> QED
    BY <1>1, <1>6, <2>12, <2>13, <2>14 DEF Room, Erasures
<1> QED
  BY <1>8, <1>9, <1>10, <1>11, <1>12, <1>13, <1>14 DEF Kept

LEMMA KillAboveKept ==
  ASSUME Live, Kill, ~caught', active[current_task][1] # Bottom PROVE Kept'
<1> USE LevelsAre DEF Scans, Placings
<1> DEFINE c == current_task
           l == active[c][1]
<1>1. /\ c \in Killers \ dead /\ c \in Booted \ {Sas} /\ c \in Tasks
      /\ l \in Uppers /\ slot[l][active[c][2]] = c
      /\ active' = [active EXCEPT ![c] = None]
      /\ dead' = dead \cup {c} /\ current_task' = Boot
      /\ Boot \notin Killers /\ Boot # Sas
      /\ Booted' = Booted
      /\ UNCHANGED <<timer_on, booted, act, sas>>
  BY KillIs DEF Places, Uppers
<1>2. active[c][2] = 1 /\ top_queue = l /\ Alone(l)
  BY <1>1 DEF Live, Kept, Runner
<1>3. RemoveFromUpper(l, 1)
  BY <1>2, KillIs DEF Removed, RemoveFromBottom
<1>4. /\ sas.pc \in Scans /\ sas.highest = None
      /\ sas.pc = "look" => sas.at <= count[Bottom]
  BY <1>1, <1>2 DEF Live, Kept, Upstairs, Locals
<1> HIDE DEF c, l
<1>5. /\ count' = [count EXCEPT ![l] = count[l] - 1] /\ count[l] = 1
      /\ slot' = [slot EXCEPT ![l][1] = Empty]
      /\ \E top \in l..Bottom : count'[top] # 0 /\ top_queue' = top
  BY <1>1, <1>2, <1>3 DEF RemoveFromUpper, Alone
<1>6. /\ \A m \in Uppers : count'[m] = 0
      /\ count'[Bottom] = count[Bottom] /\ slot'[Bottom] = slot[Bottom]
      /\ \A m \in Uppers : \A i \in Slots :
           slot'[m][i] = IF m = l /\ i = 1 THEN Empty ELSE slot[m][i]
  BY <1>1, <1>2, <1>5, LiveFacts DEF Alone
<1>7. top_queue' = Bottom /\ count[Bottom] # 0
  <2>1. \A m \in l..Bottom : m \in Uppers \/ m = Bottom
    BY <1>1 DEF Uppers, Levels, Bottom
  <2> QED
    BY <1>5, <1>6, <2>1
<1>8. /\ \A t : ~Above(t)'
      /\ \A t \in Tasks : Above(t) <=> t = c
  <2>1. \A i \in Slots : ~(i <= 0) /\ (i <= 1 => i = 1)
    OBVIOUS
  <2>2. \A t : ~Above(t)'
    BY <1>6, <2>1 DEF Above, InQueue, Holds
  <2>3. \A m \in Uppers : \A i \in Slots : i <= count[m] => m = l /\ i = 1
    BY <1>2, <2>1 DEF Alone
  <2>4. slot[l][1] = c
    BY <1>1, <1>2
  <2>5. \A t \in Tasks : Above(t) <=> t = c
    BY <1>1, <1>5, <2>3, <2>4 DEF Above, InQueue, Holds
  <2> QED
    BY <2>2, <2>5
<1>9. SasHeld'
  <2>1. \A m \in Levels : \A j \in Slots :
          slot'[m][j] = Sas => j = 1 /\ m \in {Bottom - 1, Bottom}
    BY <1>6, Names DEF Live, Kept, SasHeld, Uppers
  <2>2. slot'[Bottom][1] = Sas /\ slot'[Bottom - 1][1] # Sas
    BY <1>6, <1>7, Names DEF Live, Kept, SasHeld
  <2> QED
    BY <1>6, <1>7, <2>1, <2>2 DEF SasHeld
<1>10. Started'
  <2>1. \A m \in Levels : \A j \in Slots : slot[m][j] \in Tasks => slot[m][j] \in Booted
    BY DEF Live, Kept, Started
  <2>2. \A m \in Levels : \A j \in Slots : slot'[m][j] \in Tasks => slot'[m][j] \in Booted
    <3>1. \A m \in Levels : \A j \in Slots : slot'[m][j] \in {Empty, slot[m][j]}
      BY <1>6 DEF Uppers
    <3> QED
      BY <2>1, <3>1, Names
  <2> QED
    BY <1>1, <1>6, <1>7, <2>2 DEF Live, Kept, Started
<1>11. Upstairs'
  <2>1. \A m \in Uppers : \A i \in Slots : ~(i <= count'[m]) /\ slot'[m][i] = Empty
    <3>1. \A m \in Uppers : \A i \in Slots : i <= count[m] => m = l /\ i = 1
      <4>1. \A i \in Slots : ~(i <= 0) /\ (i <= 1 => i = 1)
        OBVIOUS
      <4> QED
        BY <1>2, <4>1 DEF Alone
    <3>2. \A m \in Uppers : \A i \in Slots : i > count[m] => slot[m][i] = Empty
      BY DEF Live, Kept, Upstairs
    <3>3. \A m \in Uppers : \A i \in Slots : i > count[m] \/ i <= count[m]
      BY LiveFacts
    <3>4. \A i \in Slots : ~(i <= 0)
      OBVIOUS
    <3>5. \A m \in Uppers : \A i \in Slots : slot'[m][i] = Empty
      BY <1>6, <3>1, <3>2, <3>3
    <3> QED
      BY <1>6, <3>4, <3>5
  <2> QED
    BY <1>1, <1>4, <1>6, <1>7, <2>1 DEF Upstairs
<1>12. Locals'
  BY <1>1, <1>4, <1>6, <1>7 DEF Locals, Erasures
<1>13. Worded'
  <2>1. \A t \in Tasks : active'[t] = IF t = c THEN None ELSE active[t]
    BY <1>1, LiveFacts
  <2>2. Booted \subseteq Tasks
    BY LiveFacts
  <2> QED
    BY <1>1, <1>8, <2>1, <2>2 DEF Live, Kept, Worded, NamesBottom
<1>14. Runner'
  BY <1>1 DEF Runner
<1>15. Room'
  <2>1. Below' = Below
    <3>1. Booted \subseteq Tasks
      BY LiveFacts
    <3> QED
      BY <1>1, <1>4, <1>8, <3>1 DEF Below, Lifting
  <2>2. Filled' = Filled
    BY <1>6 DEF Filled
  <2>3. ~LiftsDead /\ sas.pc \notin Liftings /\ sas.pc # "clear"
    BY <1>1, <1>4 DEF LiftsDead, Liftings, c
  <2> QED
    BY <1>1, <1>6, <2>1, <2>2, <2>3 DEF Live, Kept, Room
<1> QED
  BY <1>9, <1>10, <1>11, <1>12, <1>13, <1>14, <1>15 DEF Kept

-----------------------------------------------------------------------------
(* A dispatch.  The maintenance task begins its next pass with it if it has *)
(* given up the core.                                                       *)
Passed ==
  \/ UNCHANGED sas
  \/ sas.pc = "yield" /\ current_task = Sas /\ sas' = [sas EXCEPT !.pc = "scan"]

LEMMA PassedSas ==
  ASSUME Live, Passed
  PROVE  /\ sas'.at = sas.at /\ sas'.last = sas.last /\ sas'.highest = sas.highest
         /\ sas'.place = sas.place
         /\ sas'.pc = sas.pc \/ (sas.pc = "yield" /\ current_task = Sas /\ sas'.pc = "scan")
         /\ sas = SasStart => sas' = sas
         /\ Lifting' <=> Lifting
<1>1. /\ sas'.at = sas.at /\ sas'.last = sas.last /\ sas'.highest = sas.highest
      /\ sas'.place = sas.place
      /\ sas'.pc = sas.pc \/ (sas.pc = "yield" /\ current_task = Sas /\ sas'.pc = "scan")
  BY SasRecord DEF Passed
<1>2. sas = SasStart => sas' = sas
  BY DEF Passed, SasStart
<1>3. Lifting' <=> Lifting
  BY <1>1 DEF Lifting
<1> QED
  BY <1>1, <1>2, <1>3

LEMMA ScheduleBottomKept ==
  ASSUME Live, ScheduleBottom, Passed, UNCHANGED <<dead, caught>> PROVE Kept'
<1> USE LevelsAre, PassedSas DEF Scans, Placings
<1>1. PICK i \in Slots :
        /\ slot[Bottom][i] \in Tasks /\ current_task' = slot[Bottom][i]
        /\ active' = [active EXCEPT ![slot[Bottom][i]] = <<Bottom, i>>]
  BY DEF ScheduleBottom
<1>2. /\ top_queue = Bottom /\ UNCHANGED <<count, slot, top_queue, timer_on, booted, act>>
  BY DEF ScheduleBottom, DispatchFrame
<1>3. count[Bottom] # 0 /\ slot[Bottom][1] = Sas
  BY <1>2 DEF Live, Kept, Started, SasHeld
<1>4. /\ Booted' = Booted /\ Filled' = Filled /\ Below' = Below
      /\ \A t : Above(t)' <=> Above(t)
  BY <1>2, SetsStay
<1>5. SasHeld'
  BY <1>2, HeldStays DEF Live, Kept
<1>6. Started'
  BY <1>2, <1>3, <1>4 DEF Live, Kept, Started
<1>7. Upstairs'
  BY <1>2 DEF Live, Kept, Upstairs, Alone
<1>8. Locals'
  BY <1>2 DEF Live, Kept, Locals, Erasures
<1>9. \A t \in Tasks : active'[t] = IF t = slot[Bottom][i] THEN <<Bottom, i>> ELSE active[t]
  BY <1>1, LiveFacts
<1>10. Worded'
  <2>1. Booted \subseteq Tasks
    BY LiveFacts
  <2>2. slot[Bottom][i] # Sas => i # 1
    BY <1>3
  <2> QED
    BY <1>4, <1>9, <2>1, <2>2 DEF Live, Kept, Worded, NamesBottom
<1>11. Runner'
  <2>1. SUFFICES ASSUME current_task' \in Killers, Above(current_task')
                 PROVE  sas'.pc \in {"word", "raise"} /\ sas'.highest = current_task'
    BY <1>1, <1>4, <1>9 DEF Runner
  <2>2. PICK l \in Uppers, j \in Slots : j <= count[l] /\ slot[l][j] = current_task'
    BY <2>1 DEF Above, InQueue, Holds
  <2>3. count[l] # 0
    <3>1. \A h \in Slots : ~(h <= 0)
      OBVIOUS
    <3> QED
      BY <2>2, <3>1
  <2>4. l = LiftQueue /\ sas.pc \in Placings
    BY <1>2, <2>3 DEF Live, Kept, Upstairs
  <2>5. sas.pc # "place"
    BY <1>1, <2>2, <2>4, LiveFacts DEF Live, Kept, Upstairs
  <2>6. count[LiftQueue] = 1 /\ slot[LiftQueue][1] = sas.highest
    BY <2>4, <2>5 DEF Live, Kept, Locals
  <2>7. j = 1
    BY <2>2, <2>4, <2>6
  <2> QED
    BY <2>2, <2>4, <2>5, <2>6, <2>7
<1>12. Room'
  <2>1. LiftsDead' <=> LiftsDead
    BY <1>2 DEF LiftsDead, Liftings
  <2>2. sas'.pc \in Liftings => sas.pc \in Liftings
    BY DEF Liftings
  <2> QED
    BY <1>2, <1>4, <2>1, <2>2 DEF Live, Kept, Room
<1> QED
  BY <1>5, <1>6, <1>7, <1>8, <1>10, <1>11, <1>12 DEF Kept

LEMMA ScheduleNoTaskKept ==
  ASSUME Live, ScheduleNoTask PROVE SasHeld' /\ halted'
BY HeldStays DEF Live, Kept, ScheduleNoTask, queueVars

(* A step down, by the first task of the top queue.                         *)
First == slot[top_queue][1]
NextFree == count[top_queue + 1] + 1
StepsDown == (ScheduleGeneral \/ ScheduleStepDown) /\ Passed /\ UNCHANGED <<dead, caught>>

LEMMA LiveSized == ASSUME Live PROVE Sized
<1>1. void \in {Empty, Garbage}
  BY Names DEF Live, OpsInv, Typed, FlagTypes
<1>2. Words \subseteq Entries
  BY <1>1 DEF Words, Entries
<1>3. slot \in [Levels -> [Slots -> Entries]]
  BY <1>2, LiveFacts
<1> QED
  BY <1>3, LiveFacts DEF Sized

LEMMA StepFacts ==
  ASSUME Live, StepsDown
  PROVE  /\ Sized /\ SteppedDown
         /\ top_queue \in Uppers /\ top_queue + 1 \in Levels /\ top_queue + 1 # top_queue
         /\ top_queue \in Nat /\ top_queue' =
              IF count[top_queue] = 1 THEN top_queue + 1 ELSE top_queue
         /\ count[top_queue] \in Slots /\ count[top_queue] \in Nat /\ count[top_queue] >= 1
         /\ NextFree \in Slots /\ NextFree \in Nat /\ \A l \in Levels : count[l] \in Nat
         /\ sas.pc \in Scans /\ sas'.pc \in Scans /\ sas'.at = sas.at
         /\ sas.pc = "look" => sas.at <= count[Bottom]
         /\ sas'.pc = "look" => sas.pc = "look"
         /\ sas.highest = None /\ sas'.highest = None
         /\ \A l \in Uppers : l < top_queue => count[l] = 0
         /\ First \in Tasks /\ First \in Booted
         /\ \A l \in Uppers : \A i \in Slots : i > count[l] => slot[l][i] = Empty
         /\ UNCHANGED <<act, booted, timer_on, halted>> /\ Booted' = Booted
<1> USE LevelsAre, PassedSas DEF Scans
<1>1. Sized /\ SteppedDown
  BY LiveSized, GeneralIs DEF StepsDown
<1>2. /\ top_queue # Bottom /\ top_queue' =
           IF count[top_queue] = 1 THEN top_queue + 1 ELSE top_queue
      /\ UNCHANGED <<act, booted, timer_on, halted>>
  BY DEF StepsDown, ScheduleGeneral, ScheduleStepDown, StepFirstDown, DispatchFrame
<1>3. /\ top_queue \in Uppers /\ top_queue + 1 \in Levels /\ top_queue + 1 # top_queue
      /\ top_queue \in Nat
  BY <1>2, LiveFacts DEF Uppers
<1>4. /\ count[top_queue] \in Slots /\ NextFree \in Slots /\ First \in Tasks
      /\ \A l \in Levels : count[l] \in Nat
  BY <1>1, LiveFacts DEF SteppedDown, First, NextFree
<1>5. count[top_queue] \in Nat /\ count[top_queue] >= 1 /\ NextFree \in Nat
  BY <1>4
<1>6. /\ sas.pc \in Scans /\ sas.highest = None
      /\ sas.pc = "look" => sas.at <= count[Bottom]
  BY <1>2 DEF Live, Kept, Upstairs, Locals
<1>7. /\ sas'.pc \in Scans /\ sas'.highest = None /\ sas'.at = sas.at
      /\ sas'.pc = "look" => sas.pc = "look"
  BY <1>6 DEF StepsDown
<1>8. \A l \in Uppers : l < top_queue => count[l] = 0
  BY <1>6 DEF Live, Kept, Upstairs, Placings
<1>9. First \in Booted
  BY <1>3, <1>4 DEF Live, Kept, Started, First
<1>10. \A l \in Uppers : \A i \in Slots : i > count[l] => slot[l][i] = Empty
  BY DEF Live, Kept, Upstairs
<1>11. Booted' = Booted
  BY <1>2 DEF Booted
<1> QED
  BY <1>1, <1>2, <1>3, <1>4, <1>5, <1>6, <1>7, <1>8, <1>9, <1>10, <1>11

LEMMA StepWrites ==
  ASSUME Live, StepsDown
  PROVE  /\ \A l \in Levels : count'[l] =
              IF l = top_queue + 1 THEN NextFree
              ELSE IF l = top_queue THEN count[top_queue] - 1 ELSE count[l]
         /\ \A l \in Levels : \A i \in Slots : slot'[l][i] =
              IF l = top_queue + 1 /\ i = NextFree THEN First
              ELSE IF l = top_queue /\ i = count[top_queue] THEN Empty
              ELSE IF l = top_queue /\ i = 1 THEN slot[top_queue][count[top_queue]]
              ELSE slot[l][i]
         /\ current_task' = First
         /\ \A t \in Tasks : active'[t] =
              IF t = First THEN <<top_queue + 1, NextFree>> ELSE active[t]
BY StepFacts DEF SteppedDown, First, NextFree

(* The maintenance task steps down once, from the queue above the bottom.   *)
LEMMA StepOfSas ==
  ASSUME Live, StepsDown
  PROVE  /\ First = Sas => /\ top_queue = Bottom - 1 /\ count[Bottom] = 0
                           /\ sas = SasStart /\ sas' = SasStart
         /\ count[Bottom] = 0 /\ top_queue = Bottom - 1 => First = Sas
         /\ top_queue = Bottom - 1 <=> top_queue + 1 = Bottom
         /\ slot[top_queue][count[top_queue]] = Sas => count[top_queue] = 1
<1> USE LevelsAre, StepFacts
<1>1. top_queue = Bottom - 1 <=> top_queue + 1 = Bottom
  OBVIOUS
<1>2. slot[top_queue][count[top_queue]] = Sas => count[top_queue] = 1
  BY DEF Live, Kept, SasHeld
<1>3. First = Sas => top_queue = Bottom - 1
  BY DEF Live, Kept, SasHeld, First
<1>4. First = Sas => count[Bottom] = 0
  BY <1>3 DEF Live, Kept, SasHeld, First
<1>5. First = Sas => sas = SasStart /\ sas' = SasStart
  BY <1>4, PassedSas DEF Live, Kept, Started, StepsDown
<1>6. count[Bottom] = 0 /\ top_queue = Bottom - 1 => First = Sas
  BY DEF Live, Kept, SasHeld, First, Holds
<1> QED
  BY <1>1, <1>2, <1>3, <1>4, <1>5, <1>6

LEMMA StepHeld == ASSUME Live, StepsDown PROVE SasHeld'
<1> USE LevelsAre, StepFacts, StepWrites, StepOfSas
<1>1. ASSUME NEW l \in Levels, NEW i \in Slots, slot'[l][i] = Sas
      PROVE  i = 1 /\ l \in {Bottom - 1, Bottom}
  <2>1. CASE l = top_queue + 1 /\ i = NextFree
    <3>1. First = Sas
      BY <1>1, <2>1
    <3>2. l = Bottom /\ NextFree = 1
      BY <2>1, <3>1 DEF NextFree
    <3> QED
      BY <2>1, <3>2
  <2>2. CASE ~(l = top_queue + 1 /\ i = NextFree)
    <3>1. slot[l][i] = Sas
      BY <1>1, <2>2, Names
    <3> QED
      BY <3>1 DEF Live, Kept, SasHeld
  <2> QED
    BY <2>1, <2>2
<1>2. ASSUME count'[Bottom] = 0 PROVE Holds(Bottom - 1, 1, Sas)'
  <2>1. top_queue + 1 # Bottom /\ count[Bottom] = 0
    <3>1. top_queue + 1 # Bottom
      BY <1>2
    <3> QED
      BY <1>2, <3>1 DEF Uppers
  <2>2. slot[Bottom - 1][1] = Sas /\ 1 <= count[Bottom - 1]
    BY <2>1 DEF Live, Kept, SasHeld, Holds
  <2>3. 1 <= count'[Bottom - 1] /\ (top_queue + 1 = Bottom - 1 => NextFree # 1)
    BY <2>1, <2>2 DEF NextFree, Uppers
  <2>4. slot'[Bottom - 1][1] = Sas
    BY <2>1, <2>2, <2>3 DEF Uppers
  <2> QED
    BY <2>3, <2>4 DEF Holds
<1>3. ASSUME count'[Bottom] # 0 PROVE slot'[Bottom][1] = Sas /\ slot'[Bottom - 1][1] # Sas
  <2>1. CASE count[Bottom] = 0
    <3>1. top_queue + 1 = Bottom /\ NextFree = 1 /\ First = Sas
      BY <1>3, <2>1 DEF Uppers, NextFree
    <3> QED
      BY <3>1, Names DEF Uppers
  <2>2. CASE count[Bottom] # 0
    <3>1. slot[Bottom][1] = Sas /\ slot[Bottom - 1][1] # Sas /\ First # Sas
      BY <2>2 DEF Live, Kept, SasHeld
    <3>2. top_queue + 1 = Bottom => NextFree # 1
      BY <2>2 DEF NextFree
    <3>3. slot'[Bottom][1] = Sas
      BY <3>1, <3>2 DEF Uppers
    <3>4. slot'[Bottom - 1][1] # Sas
      BY <3>1, Names DEF Uppers
    <3> QED
      BY <3>3, <3>4
  <2> QED
    BY <2>1, <2>2
<1> QED
  BY <1>1, <1>2, <1>3 DEF SasHeld

LEMMA StepStarted == ASSUME Live, StepsDown PROVE Started'
<1> USE LevelsAre, StepFacts, StepWrites, StepOfSas
<1>1. \A l \in Levels : \A i \in Slots : slot'[l][i] \in Tasks => slot'[l][i] \in Booted
  <2>1. \A l \in Levels : \A i \in Slots : slot[l][i] \in Tasks => slot[l][i] \in Booted
    BY DEF Live, Kept, Started
  <2>2. ASSUME NEW l \in Levels, NEW i \in Slots
        PROVE  \/ slot'[l][i] = First \/ slot'[l][i] = Empty
               \/ slot'[l][i] = slot[top_queue][count[top_queue]] \/ slot'[l][i] = slot[l][i]
    OBVIOUS
  <2>3. slot[top_queue][count[top_queue]] \in Tasks =>
          slot[top_queue][count[top_queue]] \in Booted
    BY <2>1 DEF Uppers
  <2> QED
    BY <2>1, <2>2, <2>3, Names
<1>2. count'[Bottom] = 0 =>
        sas' = SasStart /\ current_task' # Sas /\ top_queue' # Bottom
  <2>1. ASSUME count'[Bottom] = 0 PROVE top_queue + 1 # Bottom /\ count[Bottom] = 0
    <3>1. top_queue + 1 # Bottom
      BY <2>1
    <3> QED
      BY <2>1, <3>1 DEF Uppers
  <2>2. ASSUME count[Bottom] = 0 PROVE sas' = SasStart
    BY <2>2, PassedSas DEF Live, Kept, Started, StepsDown
  <2> QED
    BY <2>1, <2>2 DEF Uppers
<1> QED
  BY <1>1, <1>2 DEF Live, Kept, Started, SasStart

(* Where an entry above the bottom was before the step.                     *)
LEMMA StepFrom ==
  ASSUME Live, StepsDown, NEW l \in Uppers, NEW i \in Slots, i <= count'[l]
  PROVE  /\ FromQueue(l, i) \in Uppers /\ FromSlot(l, i) \in Slots
         /\ FromSlot(l, i) <= count[FromQueue(l, i)]
         /\ slot'[l][i] = slot[FromQueue(l, i)][FromSlot(l, i)]
         /\ FromQueue(l, i) \in {top_queue, l}
         /\ FromQueue(l, i) = top_queue /\ FromSlot(l, i) = 1 =>
              l = top_queue + 1 /\ i = NextFree
<1> USE LevelsAre, StepFacts
<1>1. /\ FromSlot(l, i) \in Slots /\ FromSlot(l, i) <= count[FromQueue(l, i)]
      /\ slot'[l][i] = slot[FromQueue(l, i)][FromSlot(l, i)]
      /\ l = top_queue => i < count[top_queue]
  BY SteppedFrom
<1>2. FromQueue(l, i) \in {top_queue, l}
  BY DEF FromQueue
<1>3. FromQueue(l, i) = top_queue /\ FromSlot(l, i) = 1 => l = top_queue + 1 /\ i = NextFree
  BY <1>1 DEF FromQueue, FromSlot, NextFree
<1> QED
  BY <1>1, <1>2, <1>3

LEMMA OnceUpstairs ==
  ASSUME Live, NEW l \in Uppers, NEW m \in Uppers, NEW i \in Slots, NEW j \in Slots,
         i <= count[l], j <= count[m], slot[l][i] = slot[m][j], slot[l][i] \in Tasks
  PROVE  l = m /\ i = j
BY DEF Live, Kept, Upstairs

LEMMA StepOnce ==
  ASSUME Live, StepsDown,
         NEW l \in Uppers, NEW m \in Uppers, NEW i \in Slots, NEW j \in Slots,
         i <= count'[l], j <= count'[m], slot'[l][i] = slot'[m][j], slot'[l][i] \in Tasks
  PROVE  l = m /\ i = j
<1> DEFINE q == FromQueue(l, i)
           s == FromSlot(l, i)
           p == FromQueue(m, j)
           r == FromSlot(m, j)
<1>1. q \in Uppers /\ s \in Slots /\ s <= count[q] /\ slot'[l][i] = slot[q][s]
  BY StepFrom
<1>2. p \in Uppers /\ r \in Slots /\ r <= count[p] /\ slot'[m][j] = slot[p][r]
  BY StepFrom
<1>3. q = p /\ s = r
  <2> HIDE DEF q, s, p, r
  <2>1. slot[q][s] \in Tasks /\ slot[q][s] = slot[p][r]
    BY <1>1, <1>2
  <2> QED
    BY <1>1, <1>2, <2>1, OnceUpstairs
<1>4. Sized /\ SteppedDown /\ l \in Levels /\ m \in Levels
  BY StepFacts, LevelsAre
<1> QED
  BY <1>3, <1>4, SteppedApart

LEMMA StepUpstairs == ASSUME Live, StepsDown PROVE Upstairs'
<1> USE LevelsAre, StepFacts, StepWrites DEF Scans
<1>1. ASSUME NEW l \in Uppers, l < top_queue' PROVE count'[l] = 0
  <2>1. l < top_queue \/ (l = top_queue /\ count[top_queue] = 1)
    BY <1>1
  <2>2. l # top_queue + 1
    BY <2>1
  <2>3. l < top_queue => count'[l] = 0
    BY <2>2
  <2> QED
    BY <2>1, <2>2, <2>3
<1>2. ASSUME NEW l \in Uppers, NEW i \in Slots, i > count'[l] PROVE slot'[l][i] = Empty
  <2>1. CASE l = top_queue + 1
    <3>1. i # NextFree /\ i > count[l]
      BY <1>2, <2>1 DEF NextFree
    <3>2. slot[l][i] = Empty
      BY <3>1
    <3>3. slot'[l][i] = slot[l][i]
      BY <2>1, <3>1
    <3> QED
      BY <3>2, <3>3
  <2>2. CASE l = top_queue
    <3>1. i = count[l] \/ (i > count[l] /\ i # 1)
      BY <1>2, <2>2
    <3> QED
      BY <2>2, <3>1
  <2>3. CASE l # top_queue + 1 /\ l # top_queue
    BY <1>2, <2>3
  <2> QED
    BY <2>1, <2>2, <2>3
<1>3. ASSUME NEW l \in Uppers, NEW m \in Uppers, NEW i \in Slots, NEW j \in Slots,
             i <= count'[l], j <= count'[m], slot'[l][i] = slot'[m][j], slot'[l][i] \in Tasks
      PROVE  l = m /\ i = j
  BY <1>3, StepOnce
<1>4. ASSUME NEW l \in Uppers, NEW i \in Slots, l # Bottom - 1, i <= count'[l],
             slot'[l][i] \in Killers
      PROVE  Alone(l)'
  <2> DEFINE q == FromQueue(l, i)
  <2>1. /\ q \in Uppers /\ q \in {top_queue, l}
        /\ \E s \in Slots : s <= count[q] /\ slot[q][s] \in Killers
    <3>1. /\ q \in Uppers /\ q \in {top_queue, l} /\ FromSlot(l, i) \in Slots
          /\ FromSlot(l, i) <= count[q] /\ slot'[l][i] = slot[q][FromSlot(l, i)]
      BY <1>4, StepFrom
    <3> HIDE DEF q
    <3> QED
      BY <1>4, <3>1
  <2>2. l # top_queue => l = top_queue + 1 \/ q = l
    BY DEF FromQueue
  <2> HIDE DEF q
  <2>3. CASE q = Bottom - 1
    <3>1. q = top_queue /\ l # top_queue
      BY <1>4, <2>1, <2>3
    <3> QED
      BY <1>4, <2>2, <2>3, <3>1
  <2>4. CASE q # Bottom - 1
    <3>1. Alone(q)
      BY <2>1, <2>4 DEF Live, Kept, Upstairs
    <3>2. q = top_queue
      BY <3>1 DEF Alone
    <3>3. count[top_queue] = 1
      BY <3>1, <3>2 DEF Alone
    <3>4. l # top_queue
      <4>1. ~(i <= 0)
        OBVIOUS
      <4> QED
        BY <1>4, <3>3, <4>1
    <3>5. l = top_queue + 1
      BY <2>2, <3>2, <3>4
    <3>6. \A m \in Uppers : count[m] = IF m = top_queue THEN 1 ELSE 0
      BY <3>1, <3>2 DEF Alone
    <3>7. \A m \in Uppers : count'[m] = IF m = l THEN 1 ELSE 0
      BY <3>3, <3>5, <3>6 DEF NextFree
    <3> QED
      BY <3>7 DEF Alone
  <2> QED
    BY <2>3, <2>4
<1> QED
  BY <1>1, <1>2, <1>3, <1>4 DEF Upstairs

LEMMA StepLocals == ASSUME Live, StepsDown PROVE Locals'
<1>1. count[Bottom] <= count'[Bottom] \/ top_queue = Bottom
  BY StepFacts, StepWrites, LevelsAre DEF NextFree
<1>2. sas.pc = "look" => sas.at <= count'[Bottom]
  BY <1>1, StepFacts, StepWrites, LevelsAre, LiveFacts DEF NextFree, Uppers
<1> QED
  BY <1>2, StepFacts, StepWrites, StepOfSas DEF Locals, Erasures, SasStart, Scans, Placings

(* Only the task that steps down into the bottom queue is no longer above.  *)
LEMMA StepAbove ==
  ASSUME Live, StepsDown
  PROVE  /\ \A t \in Tasks : Above(t) /\ t # First => Above(t)'
         /\ \A t \in Tasks : t = First /\ top_queue + 1 # Bottom => Above(t)'
<1> USE LevelsAre, StepFacts, StepWrites
<1> DEFINE c == count[top_queue]
<1>1. ASSUME NEW t \in Tasks, Above(t), t # First PROVE Above(t)'
  <2>1. PICK l \in Uppers, i \in Slots : i <= count[l] /\ slot[l][i] = t
    BY <1>1 DEF Above, InQueue, Holds
  <2>2. CASE l # top_queue
    <3>1. i <= count'[l] /\ (l = top_queue + 1 => i # NextFree)
      BY <2>1, <2>2 DEF NextFree
    <3>2. slot'[l][i] = t
      BY <2>1, <2>2, <3>1
    <3> QED
      BY <3>1, <3>2 DEF Above, InQueue, Holds
  <2>3. CASE l = top_queue
    <3>1. i # 1 /\ slot[top_queue][i] = t /\ i <= c
      BY <1>1, <2>1, <2>3 DEF First
    <3>2. CASE i = c
      <4>1. 1 <= count'[top_queue] /\ slot'[top_queue][1] = t
        BY <3>1, <3>2
      <4> QED
        BY <4>1 DEF Above, InQueue, Holds
    <3>3. CASE i # c
      <4>1. i <= count'[top_queue] /\ slot'[top_queue][i] = t
        BY <3>1, <3>3
      <4> QED
        BY <4>1 DEF Above, InQueue, Holds
    <3> QED
      BY <3>2, <3>3
  <2> QED
    BY <2>2, <2>3
<1>2. ASSUME NEW t \in Tasks, t = First, top_queue + 1 # Bottom PROVE Above(t)'
  <2>1. top_queue + 1 \in Uppers
    BY <1>2 DEF Uppers
  <2>2. NextFree <= count'[top_queue + 1] /\ slot'[top_queue + 1][NextFree] = t
    BY <1>2
  <2> QED
    BY <2>1, <2>2 DEF Above, InQueue, Holds
<1> QED
  BY <1>1, <1>2

LEMMA StepWorded == ASSUME Live, StepsDown PROVE Worded'
<1> USE LevelsAre, StepFacts
<1>1. SUFFICES ASSUME NEW t \in Booted \ {Sas}
               PROVE  Above(t)' \/ NamesBottom(t)' \/ (active'[t] = None /\ t \in dead)
  BY DEF Worded, StepsDown
<1>2. t \in Tasks
  BY LiveFacts
<1>3. CASE t # First
  <2>1. active'[t] = active[t]
    BY <1>2, <1>3, StepWrites
  <2> QED
    BY <1>2, <1>3, <2>1, StepAbove DEF Live, Kept, Worded, NamesBottom
<1>4. CASE t = First /\ top_queue + 1 # Bottom
  BY <1>2, <1>4, StepAbove
<1>5. CASE t = First /\ top_queue + 1 = Bottom
  <2>1. active'[t] = <<Bottom, NextFree>>
    BY <1>2, <1>5, StepWrites
  <2>2. count[Bottom] # 0
    BY <1>5, StepOfSas
  <2>3. NextFree # 1
    BY <1>5, <2>2 DEF NextFree
  <2> QED
    BY <2>1, <2>3 DEF NamesBottom
<1> QED
  BY <1>3, <1>4, <1>5

(* At the bottom nothing of the first task is left above.                   *)
LEMMA StepBelow ==
  ASSUME Live, StepsDown, top_queue + 1 = Bottom,
         NEW t, t = First, Above(t)'
  PROVE  FALSE
<1>1. PICK l \in Uppers, i \in Slots : i <= count'[l] /\ slot'[l][i] = t
  BY DEF Above, InQueue, Holds
<1> DEFINE q == FromQueue(l, i)
           s == FromSlot(l, i)
<1>2. /\ q \in Uppers /\ s \in Slots /\ s <= count[q] /\ slot[q][s] = t
      /\ q = top_queue /\ s = 1 => l = top_queue + 1
  BY <1>1, StepFrom
<1> HIDE DEF q, s
<1>3. /\ top_queue \in Uppers /\ 1 \in Slots /\ 1 <= count[top_queue] /\ t \in Tasks
      /\ slot[top_queue][1] = t
  BY StepFacts, LevelsAre DEF First
<1>4. q = top_queue /\ s = 1
  BY <1>2, <1>3, OnceUpstairs
<1> QED
  BY <1>2, <1>4, LevelsAre

LEMMA StepRunner == ASSUME Live, StepsDown PROVE Runner'
<1> USE LevelsAre, StepFacts
<1>0. PICK t : t = First
  OBVIOUS
<1>1. t = First /\ current_task' = t /\ active'[t] = <<top_queue + 1, NextFree>>
  BY <1>0, StepWrites
<1>2. CASE top_queue + 1 = Bottom
  <2>1. ~Above(t)'
    BY <1>1, <1>2, StepBelow
  <2> QED
    BY <1>1, <1>2, <2>1 DEF Runner
<1>3. CASE top_queue + 1 # Bottom /\ t \in Killers
  <2>1. Alone(top_queue)
    <3>1. /\ top_queue \in Uppers /\ top_queue # Bottom - 1 /\ 1 \in Slots
          /\ 1 <= count[top_queue] /\ slot[top_queue][1] \in Killers
      BY <1>1, <1>3 DEF First
    <3>2. \A l \in Uppers : \A i \in Slots :
            l # Bottom - 1 /\ i <= count[l] /\ slot[l][i] \in Killers => Alone(l)
      BY DEF Live, Kept, Upstairs
    <3> QED
      BY <3>1, <3>2
  <2>2. /\ top_queue + 1 \in Uppers
        /\ \A m \in Uppers : count[m] = IF m = top_queue THEN 1 ELSE 0
    BY <1>3, <2>1 DEF Alone, Uppers
  <2>3. NextFree = 1 /\ count[top_queue] = 1
    BY <2>2 DEF NextFree
  <2>4. top_queue' = top_queue + 1
    BY <2>3
  <2>5. \A m \in Uppers : count'[m] = IF m = top_queue + 1 THEN 1 ELSE 0
    <3>1. \A m \in Uppers : count'[m] =
            IF m = top_queue + 1 THEN NextFree
            ELSE IF m = top_queue THEN count[top_queue] - 1 ELSE count[m]
      BY StepWrites
    <3> QED
      BY <2>2, <2>3, <3>1
  <2> QED
    BY <1>1, <1>3, <2>3, <2>4, <2>5 DEF Runner, Alone
<1> QED
  BY <1>2, <1>3, <1>1 DEF Runner

(* A killed task that steps down runs, and that is the end; every other     *)
(* one takes a slot of its own if it comes to the bottom.                   *)
LEMMA StepRoom ==
  ASSUME Live, StepsDown, First \notin dead PROVE Room'
<1> USE LevelsAre, StepFacts, StepOfSas
<1>1. ~LiftsDead' /\ sas'.pc \notin Liftings /\ sas'.pc # "clear"
  <2>1. current_task' = Sas => sas'.pc = "scan"
    BY StepWrites DEF SasStart
  <2>2. ~LiftsDead'
    BY <2>1 DEF LiftsDead, Liftings, Placings, Scans
  <2> QED
    BY <2>2 DEF Liftings, Placings, Scans
<1>2. ~LiftsDead
  BY DEF LiftsDead, Liftings, Placings, Scans, First
<1>3. /\ Cardinality(Below) <= count[Bottom] /\ Cardinality(Below) <= Cardinality(Filled)
      /\ Cardinality(Below) \in Nat /\ Cardinality(Filled) \in Nat
      /\ IsFiniteSet(Below) /\ IsFiniteSet(Filled)
  BY <1>2, Finite DEF Live, Kept, Room
<1>4. ~Lifting /\ ~Lifting' /\ dead' = dead
  BY DEF Lifting, StepsDown, Scans
<1>5. Booted \subseteq Tasks
  BY LiveFacts
<1>6. CASE top_queue + 1 # Bottom
  <2>1. \A t \in Booted : Above(t) => Above(t)'
    BY <1>5, <1>6, StepAbove
  <2>2. Below' \subseteq Below
    BY <1>4, <2>1 DEF Below
  <2>3. count'[Bottom] = count[Bottom] /\ \A i \in Slots : slot'[Bottom][i] = slot[Bottom][i]
    BY <1>6, StepWrites DEF Uppers
  <2>4. Filled' = Filled
    BY <2>3 DEF Filled
  <2>5. Cardinality(Below') <= Cardinality(Below) /\ Cardinality(Below') \in Nat
    BY <1>3, <2>2, FS_Subset, FS_CardinalityType
  <2> QED
    BY <1>1, <1>3, <2>3, <2>4, <2>5 DEF Room
<1>7. CASE top_queue + 1 = Bottom
  <2>1. \A t \in Booted : Above(t) /\ t # First => Above(t)'
    BY <1>5, StepAbove
  <2>2. Below' \subseteq Below \cup {First}
    BY <1>4, <2>1 DEF Below
  <2>3. /\ NextFree = count[Bottom] + 1 /\ count'[Bottom] = NextFree /\ slot'[Bottom][NextFree] = First
        /\ \A i \in Slots : i <= count[Bottom] =>
             i <= count'[Bottom] /\ slot'[Bottom][i] = slot[Bottom][i]
    <3>1. NextFree = count[Bottom] + 1 /\ count'[Bottom] = NextFree /\ slot'[Bottom][NextFree] = First
      BY <1>7, StepWrites DEF NextFree
    <3>2. ASSUME NEW i \in Slots, i <= count[Bottom]
          PROVE  i <= count'[Bottom] /\ slot'[Bottom][i] = slot[Bottom][i]
      <4>1. i <= count'[Bottom] /\ i # NextFree
        BY <3>1, <3>2
      <4> QED
        BY <1>7, <4>1, StepWrites
    <3> QED
      BY <3>1, <3>2
  <2>4. NextFree \notin Filled
    BY <2>3 DEF Filled
  <2>5. Filled \cup {NextFree} \subseteq Filled'
    <3>1. Filled \subseteq Filled'
      BY <2>3 DEF Filled
    <3>2. NextFree \in Slots /\ NextFree <= count'[Bottom] /\ slot'[Bottom][NextFree] \in Tasks
      BY <2>3
    <3>3. NextFree \in Filled'
      BY <3>2 DEF Filled
    <3> QED
      BY <3>1, <3>3
  <2>6. Cardinality(Below') <= Cardinality(Below) + 1 /\ Cardinality(Below') \in Nat
    <3>1. /\ IsFiniteSet(Below \cup {First})
          /\ Cardinality(Below \cup {First}) \in {Cardinality(Below), Cardinality(Below) + 1}
      BY <1>3, FS_AddElement
    <3>2. /\ Cardinality(Below') <= Cardinality(Below \cup {First})
          /\ Cardinality(Below') \in Nat
      BY <2>2, <3>1, FS_Subset, FS_CardinalityType
    <3> QED
      BY <1>3, <3>1, <3>2
  <2>7. Cardinality(Filled') >= Cardinality(Filled) + 1
    <3>1. IsFiniteSet(Filled \cup {NextFree})
          /\ Cardinality(Filled \cup {NextFree}) = Cardinality(Filled) + 1
      BY <1>3, <2>4, FS_AddElement
    <3>2. IsFiniteSet(Filled')
      <4>1. \A j \in Filled' : j \in 1..PAGE
        BY DEF Filled, Slots
      <4> QED
        BY <4>1, UptoFits, Shape
    <3>3. Cardinality(Filled \cup {NextFree}) <= Cardinality(Filled') /\ Cardinality(Filled') \in Nat
      BY <2>5, <3>2, FS_Subset, FS_CardinalityType
    <3> QED
      BY <1>3, <3>1, <3>3
  <2>8. Cardinality(Filled') \in Nat
    <3>1. \A j \in Filled' : j \in 1..PAGE
      BY DEF Filled, Slots
    <3> QED
      BY <3>1, UptoFits, Shape, FS_CardinalityType
  <2> QED
    BY <1>1, <1>3, <2>3, <2>6, <2>7, <2>8 DEF Room
<1> QED
  BY <1>6, <1>7

LEMMA StepsDownKept ==
  ASSUME Live, StepsDown PROVE SasHeld' /\ (Kept' \/ Astray')
<1>1. CASE First \in dead
  <2>1. current_task' \in dead' /\ ~halted'
    BY <1>1, StepFacts, StepWrites DEF Live, StepsDown
  <2> QED
    BY <2>1, StepHeld DEF Astray
<1>2. CASE First \notin dead
  BY <1>2, StepHeld, StepStarted, StepUpstairs, StepLocals, StepWorded, StepRunner, StepRoom
     DEF Kept
<1> QED
  BY <1>1, <1>2

-----------------------------------------------------------------------------
(* Every step of a core that works, and the start of the timer.             *)
LowPriority == \A t \in Killers : Priority[t] = 1

KeptOn == SasHeld /\ (halted \/ Astray \/ Kept)

LEMMA DispatchKept ==
  ASSUME Live, Schedule, Passed, UNCHANGED <<dead, caught>> PROVE KeptOn'
<1>1. CASE ScheduleBottom
  BY <1>1, ScheduleBottomKept DEF KeptOn, Kept
<1>2. CASE ScheduleGeneral \/ ScheduleStepDown
  <2>1. StepsDown
    BY <1>2 DEF StepsDown
  <2> QED
    BY <2>1, StepsDownKept DEF KeptOn
<1>3. CASE ScheduleNoTask
  BY <1>3, ScheduleNoTaskKept DEF KeptOn
<1> QED
  BY <1>1, <1>2, <1>3 DEF Schedule

LEMMA SasStepKeeps ==
  ASSUME Live, SasStep, UNCHANGED <<dead, caught>> PROVE KeptOn'
<1>1. CASE SasYield
  <2>1. Schedule /\ Passed
    BY <1>1 DEF SasYield, SasRuns, Passed
  <2> QED
    BY <2>1, DispatchKept
<1>2. CASE ~SasYield
  <2>1. Kept'
    BY <1>2, LookKept, FindHoleKept, FindTaskKept, TakeLastKept, AgeKept, SkipKept, FillKept,
       ClearKept, FollowKept, LoadKept, StoreKept, WrapKept, EndScanKept, VacateKept,
       VoidKept, LiftBeginKept, LiftExtendKept, LiftPlaceKept, LiftWordKept, LiftRaiseKept
       DEF SasStep
  <2> QED
    BY <2>1 DEF KeptOn, Kept
<1> QED
  BY <1>1, <1>2

LEMMA LiveStep ==
  ASSUME BootWorkload, Live, [OpsNext]_opsVars PROVE caught' \/ KeptOn'
<1>1. timer_on /\ ~halted /\ act.pc = "idle" /\ ~Astray
  BY LiveFacts DEF Live
<1>2. CASE Next /\ UNCHANGED <<dead, caught>>
  <2>1. ~ActivateStep
    BY <1>1 DEF ActivateStep, ActivateBegin, ActivateExtend, ActivatePlace, ActivateRaise,
                MayActivate, BootWorkload
  <2>2. ~StartTimer /\ ~Halted
    BY <1>1 DEF StartTimer, Halted
  <2>3. CASE TimerTick
    <3>1. Schedule /\ Passed
      BY <2>3 DEF TimerTick, Passed
    <3> QED
      BY <1>2, <3>1, DispatchKept
  <2>4. CASE SasStep
    BY <1>2, <2>4, SasStepKeeps
  <2> QED
    BY <1>2, <2>1, <2>2, <2>3, <2>4 DEF Next
<1>3. CASE Kill
  <2>1. ~caught' => Kept'
    BY <1>3, KillBelowKept, KillAboveKept
  <2>2. Kept' => SasHeld'
    BY DEF Kept
  <2>3. caught' \in BOOLEAN
    BY <1>3 DEF Kill, Live, OpsInv, Typed, FlagTypes
  <2> QED
    BY <2>1, <2>2, <2>3 DEF KeptOn
<1>4. CASE SasLiftsKilled
  <2>1. UNCHANGED <<count, slot>> /\ halted'
    BY <1>4 DEF SasLiftsKilled, queueVars
  <2> QED
    BY <2>1, HeldStays DEF Live, Kept, KeptOn
<1>5. CASE UNCHANGED opsVars
  BY <1>5 DEF opsVars, vars, Live, KeptOn, Kept, SasHeld, Started, Upstairs, Locals, Worded,
     Runner, Room, Below, Filled, LiftsDead, Holds, InQueue, Above, NamesBottom, Alone, Booted,
     Lifting
<1> QED
  BY <1>1, <1>2, <1>3, <1>4, <1>5 DEF OpsNext

(* When the timer starts, every task is in the queue of its priority and    *)
(* the maintenance task first in its own.                                   *)
LEMMA StartKept ==
  ASSUME BootWorkload, LowPriority, OrderInv, HolesInv, HolesInv', TopIsTopmost, dead = {},
         StartTimer, UNCHANGED <<dead, caught>>
  PROVE  Kept'
<1> USE LevelsAre, Names
<1>1. /\ ~timer_on /\ timer_on' /\ act.pc = "idle" /\ booted = Len(BootOrder)
      /\ UNCHANGED <<count, slot, top_queue, active, act, booted, current_task, sas, halted>>
  BY DEF StartTimer, queueVars
<1>2. /\ sas = SasStart /\ current_task = Boot /\ Boot \notin Killers /\ Boot # Sas
      /\ \A l \in Levels : \A i \in Slots : i <= count[l] =>
           slot[l][i] \in Booted /\ l = QueueOf(slot[l][i])
  BY <1>1 DEF OrderInv, BootOK
<1>3. /\ \A l \in Levels : count[l] \in Nat
      /\ \A l \in Levels : \A i \in Slots : i > count[l] => slot[l][i] = Empty
      /\ top_queue \in Levels /\ Booted \subseteq Tasks
  <2>1. IInv /\ count \in [Levels -> 0..PAGE] /\ top_queue \in Levels
    BY DEF OrderInv, IInv, TypeOK
  <2>2. \A l \in Levels : count[l] \in Nat
    BY <2>1, Shape
  <2> QED
    BY <2>1, <2>2, BootedTasks DEF OrderInv, BehindIsEmpty
<1>4. /\ count[Bottom] = 0 /\ Sas \in Booted
      /\ 1 <= count[Bottom - 1] /\ slot[Bottom - 1][1] = Sas
  <2>1. count[Bottom] = 0
    BY <1>1 DEF HolesInv, SasHasFirst
  <2>2. Sas \in Booted
    BY <1>1 DEF BootWorkload, Booted
  <2> QED
    BY <1>1, <2>1, <2>2 DEF HolesInv, SasHasFirst, Holds
<1>5. top_queue # Bottom /\ \A l \in Levels : l < top_queue => count[l] = 0
  <2>1. \A l \in Levels : l < top_queue => count[l] = 0
    BY <1>1, <1>2 DEF TopIsTopmost, SasStart
  <2>2. count[Bottom - 1] # 0 /\ Bottom - 1 < Bottom
    BY <1>4
  <2> QED
    BY <2>1, <2>2
<1>6. \A l, m \in Levels : \A i, j \in Slots :
        i <= count[l] /\ j <= count[m] /\ slot[l][i] = slot[m][j] /\ slot[l][i] \in Tasks
          => l = m /\ i = j
  BY <1>2 DEF OrderInv, Distinct, SasStart
<1>7. \A l \in Levels : \A i \in Slots : slot[l][i] \in Tasks => i <= count[l]
  BY <1>3
<1>8. \A t \in Booted : Above(t)
  <2>1. SUFFICES ASSUME NEW t \in Booted PROVE Above(t)
    OBVIOUS
  <2>2. Queued(t)
    BY <1>2 DEF OrderInv, Present, Lifting, SasStart
  <2>3. PICK l \in Levels, i \in Slots : i <= count[l] /\ slot[l][i] = t
    BY <2>2 DEF Queued, InQueue, Holds
  <2>4. ~(i <= 0)
    OBVIOUS
  <2>5. l # Bottom
    BY <1>4, <2>3, <2>4
  <2> QED
    BY <2>3, <2>5 DEF Above, InQueue, Holds, Uppers
<1>9. SasHeld'
  <2>1. \A l \in Levels : \A i \in Slots : slot[l][i] = Sas => i = 1 /\ l = Bottom - 1
    BY <1>4, <1>6, <1>7
  <2> QED
    BY <1>1, <1>4, <2>1 DEF SasHeld, Holds
<1>10. Started'
  <2>1. \A l \in Levels : \A i \in Slots : slot[l][i] \in Tasks => slot[l][i] \in Booted
    BY <1>2, <1>7
  <2>2. Booted' = Booted
    BY <1>1 DEF Booted
  <2> QED
    BY <1>1, <1>2, <1>4, <1>5, <2>1, <2>2 DEF Started, SasStart
<1>11. Upstairs'
  <2>1. \A l \in Uppers : \A i \in Slots :
          l # Bottom - 1 /\ i <= count[l] => slot[l][i] \notin Killers
    <3>1. \A t \in Killers : QueueOf(t) = Bottom - 1
      BY DEF LowPriority, QueueOf, Bottom
    <3> QED
      BY <1>2, <3>1
  <2>2. \A l \in Uppers : l < top_queue => count[l] = 0
    BY <1>5
  <2>3. \A l \in Uppers : \A i \in Slots : i > count[l] => slot[l][i] = Empty
    BY <1>3
  <2>4. sas'.pc = "scan"
    BY <1>1, <1>2 DEF SasStart
  <2>5. \A l, m \in Uppers : \A i, j \in Slots :
          i <= count[l] /\ j <= count[m] /\ slot[l][i] = slot[m][j] /\ slot[l][i] \in Tasks
            => l = m /\ i = j
    BY <1>6
  <2> QED
    BY <1>1, <2>1, <2>2, <2>3, <2>4, <2>5 DEF Upstairs, Scans
<1>12. Locals'
  BY <1>1, <1>2 DEF Locals, Erasures, Scans, Placings, SasStart
<1>13. Booted' = Booted /\ \A t \in Booted : Above(t)'
  <2>1. \A t : Above(t) => Above(t)'
    BY <1>1 DEF Above, InQueue, Holds
  <2> QED
    BY <1>1, <1>8, <2>1 DEF Booted
<1>14. Worded'
  BY <1>13 DEF Worded
<1>15. Runner'
  BY <1>1, <1>2 DEF Runner
<1>16. Room'
  <2>1. Below' = {} /\ count'[Bottom] = 0
    BY <1>1, <1>4, <1>13 DEF Below
  <2>2. Filled' = {}
    <3>1. \A i \in Slots : ~(i <= 0)
      OBVIOUS
    <3> QED
      BY <2>1, <3>1 DEF Filled
  <2>3. Cardinality({}) = 0
    BY FS_EmptySet
  <2>4. sas'.pc = "scan"
    BY <1>1, <1>2 DEF SasStart
  <2> QED
    BY <2>1, <2>2, <2>3, <2>4 DEF Room, Liftings, Placings
<1> QED
  BY <1>9, <1>10, <1>11, <1>12, <1>14, <1>15, <1>16 DEF Kept

-----------------------------------------------------------------------------
(* The invariant of a core with kill().                                     *)
BootKept ==
  ~timer_on /\ dead = {} /\ ~caught /\ OrderInv /\ HolesInv /\ TopIsTopmost

KeptInv == BootKept \/ (timer_on /\ (caught \/ KeptOn))

LEMMA OnlyStartSetsTimer ==
  ASSUME [Next]_vars, ~StartTimer PROVE UNCHANGED timer_on
<1>1. Schedule => UNCHANGED timer_on
  BY DEF Schedule, ScheduleBottom, ScheduleGeneral, ScheduleStepDown, ScheduleNoTask,
     StepFirstDown, DispatchFrame
<1> QED
  BY <1>1 DEF Next, ActivateStep, ActivateBegin, ActivateExtend, ActivatePlace, ActivateRaise,
     TimerTick, Halted, vars, SasStep, SasYield, SasLook, SasFindHole, SasFindTask,
     SasTakeLast, SasAge, SasSkip, SasFill, SasClear, SasFollow, SasLoad, SasStore, SasWrap,
     SasEndScan, SasVacate, SasVoid, SasLiftBegin, SasLiftExtend, SasLiftPlace,
     SasLiftWord, SasLiftRaise

LEMMA BootStep ==
  ASSUME BootWorkload, LowPriority, BootKept, [OpsNext]_opsVars PROVE KeptInv'
<1>1. ~timer_on /\ dead = {} /\ ~caught /\ OrderInv /\ HolesInv /\ TopIsTopmost
  BY DEF BootKept
<1>2. ~Astray /\ ~SasRuns
  BY <1>1 DEF Astray, SasRuns, CountWraps
<1>3. [Next]_vars /\ UNCHANGED <<dead, caught>>
  BY <1>1, <1>2 DEF OpsNext, Kill, SasLiftsKilled, opsVars
<1>4. OrderInv'
  BY <1>1, <1>3, NextOrder
<1>5. HolesInv'
  BY <1>1, <1>3, <1>4, NextHoles
<1>6. TopIsTopmost'
  BY <1>1, <1>3, NextTop DEF OrderInv
<1>7. CASE StartTimer
  <2>1. timer_on' /\ Kept'
    BY <1>1, <1>3, <1>5, <1>7, StartKept DEF StartTimer
  <2> QED
    BY <2>1 DEF KeptInv, KeptOn, Kept
<1>8. CASE ~StartTimer
  <2>1. UNCHANGED timer_on
    BY <1>3, <1>8, OnlyStartSetsTimer
  <2> QED
    BY <1>1, <1>3, <1>4, <1>5, <1>6, <2>1 DEF KeptInv, BootKept
<1> QED
  BY <1>7, <1>8

LEMMA StoppedStep ==
  ASSUME timer_on, caught \/ KeptOn, ~caught => halted \/ Astray, [OpsNext]_opsVars
  PROVE  timer_on' /\ (caught' \/ KeptOn')
<1>1. timer_on'
  <2>1. CASE Next
    BY <2>1, OnlyStartSetsTimer DEF StartTimer
  <2> QED
    BY <2>1 DEF OpsNext, Kill, SasLiftsKilled, opsVars, vars
<1>2. CASE caught
  <2>1. caught' = caught \/ caught' = (caught \/ Erasing)
    BY DEF OpsNext, Kill, SasLiftsKilled, opsVars
  <2>2. ASSUME caught' = (caught \/ Erasing) PROVE caught'
    <3>1. caught \/ Erasing
      BY <1>2
    <3> QED
      BY <2>2, <3>1, Zenon
  <2>3. ASSUME caught' = caught PROVE caught'
    BY <1>2, <2>3, Zenon
  <2> QED
    BY <1>1, <2>1, <2>2, <2>3
<1>3. CASE ~caught /\ Astray
  <2>1. UNCHANGED opsVars
    BY <1>3 DEF OpsNext
  <2> QED
    BY <1>1, <1>3, <2>1 DEF KeptOn, opsVars, vars, SasHeld, Holds, Astray, SasRuns, Scanning, At,
       CountWraps
<1>4. CASE ~caught /\ halted
  <2>1. UNCHANGED <<count, slot, halted>>
    BY <1>4 DEF OpsNext, Astray, Next, ActivateStep, ActivateBegin, ActivateExtend,
       ActivatePlace, ActivateRaise, ActivatorRuns, StartTimer, TimerTick, Halted, SasRuns,
       SasStep, SasYield, SasLook, SasFindHole, SasFindTask, SasTakeLast, SasAge, SasSkip,
       SasFill, SasClear, SasFollow, SasLoad, SasStore, SasWrap, SasEndScan,
       SasVacate, SasVoid, SasLiftBegin, SasLiftExtend, SasLiftPlace, SasLiftWord,
       SasLiftRaise, Kill, SasLiftsKilled, opsVars, vars, queueVars
  <2> QED
    BY <1>1, <1>4, <2>1, HeldStays DEF KeptOn
<1> QED
  BY <1>2, <1>3, <1>4

LEMMA NextKept ==
  ASSUME BootWorkload, LowPriority, OpsInv, KeptInv, [OpsNext]_opsVars PROVE KeptInv'
<1>1. CASE BootKept
  BY <1>1, BootStep
<1>2. CASE timer_on /\ (caught \/ KeptOn) /\ (~caught => halted \/ Astray)
  BY <1>2, StoppedStep DEF KeptInv
<1>3. CASE timer_on /\ KeptOn /\ ~halted /\ ~Astray
  <2>1. Live
    BY <1>3 DEF Live, KeptOn
  <2>2. caught' \/ KeptOn'
    BY <2>1, LiveStep
  <2>3. timer_on'
    <3>1. CASE Next
      BY <1>3, <3>1, OnlyStartSetsTimer DEF StartTimer
    <3> QED
      BY <1>3, <3>1 DEF OpsNext, Kill, SasLiftsKilled, opsVars, vars
  <2> QED
    BY <2>2, <2>3 DEF KeptInv
<1> QED
  BY <1>1, <1>2, <1>3 DEF KeptInv

LEMMA InitKept == ASSUME BootWorkload, OpsInit PROVE KeptInv
<1>1. OrderInv /\ HolesInv /\ TopIsTopmost
  BY InitOrder, InitHoles, InitTop DEF OpsInit
<1>2. ~timer_on /\ dead = {} /\ ~caught
  BY DEF OpsInit, Init
<1> QED
  BY <1>1, <1>2 DEF KeptInv, BootKept

(* Where the maintenance task is held, it has one place.                    *)
LEMMA HeldOnce ==
  ASSUME OpsInv, timer_on, KeptOn PROVE Cardinality(PlacesOf(Sas)) = 1
<1> USE LevelsAre
<1>1. \A l \in Levels : count[l] \in Nat
  BY TypedFacts, Shape DEF OpsInv
<1>2. PICK l \in Levels : 1 <= count[l] /\ slot[l][1] = Sas
  <2>1. CASE count[Bottom] = 0
    BY <2>1 DEF KeptOn, SasHeld, Holds, Uppers
  <2>2. CASE count[Bottom] # 0
    <3>1. 1 <= count[Bottom]
      BY <1>1, <2>2
    <3> QED
      BY <2>2, <3>1 DEF KeptOn, SasHeld
  <2> QED
    BY <2>1, <2>2
<1>3. ASSUME NEW m \in Levels, NEW j \in Slots, j <= count[m], slot[m][j] = Sas
      PROVE  m = l /\ j = 1
  <2>1. j = 1 /\ m \in {Bottom - 1, Bottom} /\ l \in {Bottom - 1, Bottom}
    BY <1>2, <1>3 DEF KeptOn, SasHeld
  <2>2. count[Bottom] = 0 => m # Bottom /\ l # Bottom
    BY <1>2, <1>3, <2>1
  <2>3. count[Bottom] # 0 => m # Bottom - 1 /\ l # Bottom - 1
    BY <1>2, <1>3, <2>1 DEF KeptOn, SasHeld
  <2> QED
    BY <2>1, <2>2, <2>3
<1>4. PlacesOf(Sas) = {<<l, 1>>}
  <2>1. <<l, 1>> \in PlacesOf(Sas)
    BY <1>2 DEF PlacesOf, Places
  <2>2. ASSUME NEW p \in PlacesOf(Sas) PROVE p = <<l, 1>>
    <3>1. p \in Levels \X Slots /\ p[2] <= count[p[1]] /\ slot[p[1]][p[2]] = Sas
      BY DEF PlacesOf, Places
    <3>2. p[1] = l /\ p[2] = 1
      BY <1>3, <3>1
    <3> QED
      BY <3>1, <3>2
  <2> QED
    BY <2>1, <2>2
<1> QED
  BY <1>4, FS_Singleton

(* SasKept: whatever tasks kill themselves and whenever, but for a kill()   *)
(* that comes while the maintenance task looks at the last slot or erases a *)
(* hole, that task stays queued, in one slot.  The tasks that do have priority 1, like every task *)
(* that init_multitasking creates and that ends (LowPriority).              *)
THEOREM SasStaysQueued ==
  ASSUME BootWorkload, LowPriority PROVE OpsSpec => []SasKept
<1>1. OpsInv /\ KeptInv => SasKept
  BY HeldOnce DEF KeptInv, BootKept, SasKept
<1>2. OpsInv /\ KeptInv /\ [OpsNext]_opsVars => KeptInv'
  BY NextKept
<1>3. OpsInit => KeptInv
  BY InitKept
<1> QED
  BY <1>1, <1>2, <1>3, KillInvariant, PTL DEF OpsSpec
=============================================================================
