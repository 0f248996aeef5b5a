---------------------------- MODULE LocksProofs -----------------------------
(* Proofs about Locks, for any number of cores, tasks and table entries.    *)
(* IInv is inductive: one lemma per part says that every step keeps it.     *)
EXTENDS Locks, TLAPS

(* The labels of each lock's section.                                       *)
LEMMA SectionIs ==
  /\ Section("CORE") = {"get kit", "get source", "kill: get kit"}
  /\ Section("TABLE") = {"scan", "unlock TABLE"}
  /\ Section("ATD") = {"lock CORE", "get kit", "lock CORE again",
                       "get source", "lock record", "dispatch", "lock TABLE",
                       "scan", "unlock TABLE", "claim", "queue",
                       "unlock ATD"}
  /\ Section("KILL") = {"cli", "kill: lock CORE", "kill: get kit", "remove",
                        "free", "wipe", "unlock KILL"}
  BY DEF Section

(* Only the activation lock lies between "lock ATD" and "lock CORE".        *)
LEMMA OnlyATD ==
  \A l \in {"CORE", "TABLE", "KILL"} :
    "lock ATD" \notin Section(l) /\ "lock CORE" \notin Section(l)
<1>1. "lock ATD" \notin Section("CORE") /\ "lock CORE" \notin Section("CORE")
  BY SectionIs
<1>2. "lock ATD" \notin Section("TABLE") /\ "lock CORE" \notin Section("TABLE")
  BY SectionIs
<1>3. "lock ATD" \notin Section("KILL") /\ "lock CORE" \notin Section("KILL")
  BY SectionIs
<1>4. QED
  BY <1>1, <1>2, <1>3

(* The labels of a thread that has a task to activate.                      *)
LEMMA ActivatingIs ==
  Activating = {"lock ATD", "lock CORE", "get kit", "lock CORE again",
                "get source", "lock record", "dispatch", "lock TABLE", "scan", "unlock TABLE", "claim", "queue"}
  BY SectionIs DEF Activating

(* What GoOn, Spin and Call stand for, one action at a time.                *)
LEMMA NextCases ==
  ASSUME Next
  PROVE  \/ \E p \in Tasks : GoOn(p)
         \/ \E p \in Tasks : Spin(p)
         \/ \E p \in Tasks : KillCall(p)
         \/ \E p, t \in Tasks : ActivateCall(p, t)
         \/ \E c \in Cores : \E next \in Tasks \cup {None} : TimerTick(c, next)
  BY DEF Next, Call

-----------------------------------------------------------------------------
(* Types                                                                    *)

LEMMA TypeInit == Init => TypeOK
<1> SUFFICES ASSUME Init PROVE TypeOK
  OBVIOUS
<1>1. FirstEntry \in [Started -> Entries] /\ Started \subseteq Tasks
  BY LocksAssumption
<1>2. table \in [Entries -> Tasks \cup {None}]
  <2> SUFFICES ASSUME NEW e \in Entries
               PROVE  (IF \E t \in Started : FirstEntry[t] = e
                       THEN CHOOSE t \in Started : FirstEntry[t] = e ELSE None)
                      \in Tasks \cup {None}
    BY DEF Init
  <2> QED
    BY <1>1
<1>3. pc \in [Tasks -> Labels]
  BY DEF Init, Labels
<1>4. entry \in [Tasks -> Entries \cup {None}]
  BY <1>1 DEF Init
<1> QED
  BY <1>1, <1>2, <1>3, <1>4 DEF Init, TypeOK

(* Every step keeps the types; a job that is posted or queued is a task.    *)
LEMMA TypeNext ==
  ASSUME TypeOK, JobsOK, [Next]_vars
  PROVE  TypeOK'
<1> USE DEF TypeOK, Labels, LockNames, At, Goto, Take, Drop, tableVars, coreVars
<1>1. ASSUME NEW p \in Tasks, KitIsMine(p) PROVE TypeOK'
  BY <1>1 DEF KitIsMine
<1>2. ASSUME NEW p \in Tasks, KitIsRemote(p) PROVE TypeOK'
  BY <1>2 DEF KitIsRemote
<1>32. ASSUME NEW p \in Tasks, GetSource(p) PROVE TypeOK'
  BY <1>32 DEF GetSource
<1>3. ASSUME NEW p \in Tasks, DispatchPacket(p) PROVE TypeOK'
  BY <1>3, ActivatingIs DEF DispatchPacket, JobsOK
<1>4. ASSUME NEW p \in Tasks, Scan(p) PROVE TypeOK'
  <2>1. found' \in [Tasks -> Entries \cup {None}]
    BY <1>4 DEF Scan
  <2>2. pc' \in [Tasks -> Labels]
    BY <1>4 DEF Scan
  <2> QED
    BY <1>4, <2>1, <2>2 DEF Scan
<1>5. ASSUME NEW p \in Tasks, UnlockTable(p) PROVE TypeOK'
  BY <1>5 DEF UnlockTable
<1>6. ASSUME NEW p \in Tasks, Claim(p) PROVE TypeOK'
  BY <1>6 DEF Claim
<1>7. ASSUME NEW p \in Tasks, Queue(p) PROVE TypeOK'
  BY <1>7, ActivatingIs DEF Queue, JobsOK
<1>8. ASSUME NEW p \in Tasks, UnlockATD(p) PROVE TypeOK'
  BY <1>8 DEF UnlockATD
<1>9. ASSUME NEW p \in Tasks, Cli(p) PROVE TypeOK'
  BY <1>9, LocksAssumption DEF Cli
<1>10. ASSUME NEW p \in Tasks, KillGetKit(p) PROVE TypeOK'
  BY <1>10 DEF KillGetKit
<1>11. ASSUME NEW p \in Tasks, Remove(p) PROVE TypeOK'
  BY <1>11 DEF Remove
<1>12. ASSUME NEW p \in Tasks, Free(p) PROVE TypeOK'
  BY <1>12 DEF Free
<1>13. ASSUME NEW p \in Tasks, Wipe(p) PROVE TypeOK'
  BY <1>13 DEF Wipe
<1>14. ASSUME NEW p \in Tasks, UnlockKill(p) PROVE TypeOK'
  BY <1>14 DEF UnlockKill
<1>15. ASSUME NEW p \in Tasks, Int51(p) PROVE TypeOK'
  <2>1. PICK next \in queued \cup {None} : SwitchTo(Home[p], next)
    BY <1>15 DEF Int51
  <2>2. next \in Tasks \cup {None}
    OBVIOUS
  <2>3. running' \in [Cores -> Tasks \cup {None}] /\ irq' \in [Cores -> BOOLEAN]
    BY <2>1, <2>2 DEF SwitchTo
  <2>4. pc' \in [Tasks -> Labels]
    BY <1>15 DEF Int51
  <2> QED
    BY <1>15, <2>3, <2>4 DEF Int51
<1>16. ASSUME NEW p \in Tasks, LockATD(p) PROVE TypeOK'
  BY <1>16 DEF LockATD
<1>17. ASSUME NEW p \in Tasks, LockCore(p) PROVE TypeOK'
  BY <1>17 DEF LockCore
<1>31. ASSUME NEW p \in Tasks, LockCoreAgain(p) PROVE TypeOK'
  BY <1>31 DEF LockCoreAgain
<1>18. ASSUME NEW p \in Tasks, LockTable(p) PROVE TypeOK'
  BY <1>18 DEF LockTable
<1>30. ASSUME NEW p \in Tasks, SeeRecordFree(p) PROVE TypeOK'
  BY <1>30 DEF SeeRecordFree
<1>19. ASSUME NEW p \in Tasks, LockKill(p) PROVE TypeOK'
  BY <1>19 DEF LockKill
<1>20. ASSUME NEW p \in Tasks, KillLockCore(p) PROVE TypeOK'
  BY <1>20 DEF KillLockCore
<1>21. ASSUME NEW p \in Tasks, KillCall(p) PROVE TypeOK'
  BY <1>21 DEF KillCall
<1>22. ASSUME NEW p \in Tasks, NEW t \in Tasks, ActivateCall(p, t) PROVE TypeOK'
  BY <1>22 DEF ActivateCall
<1>23. ASSUME NEW c \in Cores, NEW next \in Tasks \cup {None}, TimerTick(c, next) PROVE TypeOK'
  BY <1>23 DEF TimerTick, SwitchTo
<1>24. CASE UNCHANGED vars
  BY <1>24 DEF vars
<1>25. ASSUME NEW p \in Tasks, GoOn(p) PROVE TypeOK'
  BY <1>25, <1>1, <1>2, <1>3, <1>4, <1>5, <1>6, <1>7, <1>8, <1>9, <1>10, <1>11, <1>12, <1>13, <1>14, <1>15, <1>32 DEF GoOn
<1>26. ASSUME NEW p \in Tasks, Spin(p) PROVE TypeOK'
  BY <1>26, <1>16, <1>17, <1>18, <1>19, <1>20, <1>30, <1>31 DEF Spin
<1> QED
  BY <1>21, <1>22, <1>23, <1>24, <1>25, <1>26, NextCases

-----------------------------------------------------------------------------
(* Jobs                                                                     *)

LEMMA JobsInit == Init => JobsOK
  BY LocksAssumption, ActivatingIs DEF Init, JobsOK, Leaving

(* A move between labels of the same kind disturbs no job.                  *)
LEMMA JobsKept ==
  ASSUME TypeOK, JobsOK, UNCHANGED <<job, mail, queued>>,
         NEW p \in Tasks, NEW to \in Labels, Goto(p, to),
         pc[p] \in Activating <=> to \in Activating,
         pc[p] \in Leaving <=> to \in Leaving,
         pc[p] # "dead", to # "dead"
  PROVE  JobsOK'
<1>1. \A q \in Tasks : pc'[q] = IF q = p THEN to ELSE pc[q]
  BY DEF TypeOK, Goto
<1>2. Activating' = Activating
  BY DEF Activating, Section
<1> QED
  BY <1>1, <1>2 DEF TypeOK, JobsOK, Leaving

(* What the steps below use of JobsOK.                                      *)
LEMMA JobFacts ==
  ASSUME TypeOK, JobsOK
  PROVE  /\ None \notin Tasks
         /\ \A p \in Tasks : job[p] \in Tasks \cup {None}
         /\ \A p \in Tasks : job[p] \in Tasks <=> pc[p] \in Activating
         /\ \A p \in Tasks : job[p] \in Tasks => pc[job[p]] = "dead" /\ job[p] \notin mail
         /\ \A p, q \in Tasks : job[p] \in Tasks /\ job[p] = job[q] => p = q
         /\ \A t \in mail : t \in Tasks /\ pc[t] = "dead"
         /\ \A t \in Tasks : t \in queued <=> pc[t] \notin {"dead"} \cup Leaving
  BY LocksAssumption DEF TypeOK, JobsOK

(* Posting a packet: the job becomes mail.                                  *)
LEMMA JobsDispatch ==
  ASSUME TypeOK, JobsOK, NEW p \in Tasks, DispatchPacket(p)
  PROVE  JobsOK'
<1>1. pc[p] = "dispatch" /\ job[p] \in Tasks /\ pc[job[p]] = "dead"
  BY JobFacts, ActivatingIs DEF DispatchPacket, At
<1>2. \A q \in Tasks : /\ pc'[q] = (IF q = p THEN "unlock ATD" ELSE pc[q])
                       /\ job'[q] = (IF q = p THEN None ELSE job[q])
  BY DEF DispatchPacket, Goto, TypeOK
<1>3. mail' = mail \cup {job[p]} /\ queued' = queued
  BY DEF DispatchPacket
<1>4. \A q \in Tasks : job'[q] \in Tasks <=> pc'[q] \in Activating
  BY <1>1, <1>2, JobFacts, ActivatingIs
<1>5. ASSUME NEW q \in Tasks, job'[q] \in Tasks
      PROVE  pc'[job'[q]] = "dead" /\ job'[q] \notin mail'
  <2>1. q # p /\ job'[q] = job[q] /\ job[q] # job[p]
    BY <1>1, <1>2, <1>5, JobFacts
  <2>2. pc[job[q]] = "dead" /\ job[q] \notin mail /\ job[q] \in Tasks
    BY <1>5, <2>1, JobFacts
  <2>3. pc'[job[q]] = "dead"
    BY <1>1, <1>2, <2>2
  <2> QED
    BY <1>3, <2>1, <2>2, <2>3
<1>6. \A q, r \in Tasks : job'[q] \in Tasks /\ job'[q] = job'[r] => q = r
  <2> SUFFICES ASSUME NEW q \in Tasks, NEW r \in Tasks,
                      job'[q] \in Tasks, job'[q] = job'[r]
               PROVE  q = r
    OBVIOUS
  <2>1. q # p /\ r # p
    BY <1>2, LocksAssumption
  <2>2. job[q] \in Tasks /\ job[q] = job[r]
    BY <1>2, <2>1
  <2> QED
    BY <2>2, JobFacts
<1>7. \A t \in mail' : pc'[t] = "dead"
  BY <1>1, <1>2, <1>3, JobFacts
<1>8. \A t \in Tasks : t \in queued' <=> pc'[t] \notin {"dead"} \cup Leaving
  BY <1>1, <1>2, <1>3, JobFacts DEF Leaving
<1> QED
  BY <1>4, <1>5, <1>6, <1>7, <1>8 DEF JobsOK

(* Queueing: the job becomes a running task.                                *)
LEMMA JobsQueue ==
  ASSUME TypeOK, JobsOK, NEW p \in Tasks, Queue(p)
  PROVE  JobsOK'
<1>1. pc[p] = "queue" /\ job[p] \in Tasks /\ pc[job[p]] = "dead" /\ job[p] # p
  BY JobFacts, ActivatingIs DEF Queue, At
<1>2. \A q \in Tasks : job'[q] = (IF q = p THEN None ELSE job[q])
  BY DEF Queue, TypeOK
<1>3. \A q \in Tasks :
         pc'[q] = (IF q = p THEN "unlock ATD" ELSE IF q = job[p] THEN "run" ELSE pc[q])
  BY <1>1 DEF Queue, TypeOK
<1>4. mail' = mail /\ queued' = queued \cup {job[p]}
  BY DEF Queue
<1>5. \A q \in Tasks : job'[q] \in Tasks <=> pc'[q] \in Activating
  BY <1>1, <1>2, <1>3, JobFacts, ActivatingIs
<1>6. \A q \in Tasks : job'[q] \in Tasks => job'[q] = job[q] /\ job[q] # job[p] /\ q # p
  BY <1>1, <1>2, JobFacts
<1>7. ASSUME NEW q \in Tasks, job'[q] \in Tasks
      PROVE  pc'[job'[q]] = "dead" /\ job'[q] \notin mail'
  <2>1. job'[q] = job[q] /\ job[q] \in Tasks /\ job[q] # job[p]
    BY <1>6, <1>7
  <2>2. pc[job[q]] = "dead" /\ job[q] \notin mail
    BY <2>1, JobFacts
  <2>3. pc'[job[q]] = "dead"
    BY <1>1, <1>3, <2>1, <2>2
  <2> QED
    BY <1>4, <2>1, <2>2, <2>3
<1>8. \A q, r \in Tasks : job'[q] \in Tasks /\ job'[q] = job'[r] => q = r
  BY <1>2, JobFacts
<1>9. ASSUME NEW t \in mail' PROVE pc'[t] = "dead"
  <2>1. t \in Tasks /\ pc[t] = "dead" /\ t # job[p]
    BY <1>1, <1>4, JobFacts
  <2> QED
    BY <1>1, <1>3, <2>1
<1>10. \A t \in Tasks : t \in queued' <=> pc'[t] \notin {"dead"} \cup Leaving
  BY <1>1, <1>3, <1>4, JobFacts DEF Leaving
<1> QED
  BY <1>5, <1>7, <1>8, <1>9, <1>10 DEF JobsOK

(* A new job, fresh or from the mail, is nobody else's.                     *)
LEMMA JobsCall ==
  ASSUME TypeOK, JobsOK, NEW p \in Tasks, NEW t \in Tasks, ActivateCall(p, t)
  PROVE  JobsOK'
<1>1. pc[p] = "run" /\ pc[t] = "dead" /\ t # p
  BY JobFacts DEF ActivateCall, Fresh, At
<1>2. \A q \in Tasks : job[q] # t
  <2>1. CASE Fresh(t)
    BY <2>1 DEF Fresh
  <2>2. CASE t \in mail
    BY <2>2, JobFacts
  <2> QED
    BY <2>1, <2>2 DEF ActivateCall
<1>3. \A q \in Tasks : /\ pc'[q] = (IF q = p THEN "lock ATD" ELSE pc[q])
                       /\ job'[q] = (IF q = p THEN t ELSE job[q])
  BY DEF ActivateCall, Goto, TypeOK
<1>4. t \notin mail' /\ mail' \subseteq mail /\ queued' = queued
  BY DEF ActivateCall, Fresh
<1>5. \A q \in Tasks : job'[q] \in Tasks <=> pc'[q] \in Activating
  BY <1>3, JobFacts, ActivatingIs
<1>6. ASSUME NEW q \in Tasks, job'[q] \in Tasks
      PROVE  pc'[job'[q]] = "dead" /\ job'[q] \notin mail'
  <2>1. CASE q = p
    BY <2>1, <1>1, <1>3, <1>4
  <2>2. CASE q # p
    <3>1. job'[q] = job[q] /\ job[q] \in Tasks
      BY <2>2, <1>3, <1>6
    <3>2. pc[job[q]] = "dead" /\ job[q] \notin mail
      BY <3>1, JobFacts
    <3> QED
      BY <3>1, <3>2, <1>1, <1>3, <1>4
  <2> QED
    BY <2>1, <2>2
<1>7. ASSUME NEW q \in Tasks, NEW r \in Tasks, job'[q] \in Tasks, job'[q] = job'[r]
      PROVE  q = r
  <2>1. CASE q = p \/ r = p
    BY <1>2, <1>3, <1>7, <2>1
  <2>2. CASE q # p /\ r # p
    <3>1. job[q] \in Tasks /\ job[q] = job[r]
      BY <1>3, <1>7, <2>2
    <3> QED
      BY <3>1, JobFacts
  <2> QED
    BY <2>1, <2>2
<1>8. \A u \in mail' : pc'[u] = "dead"
  BY <1>1, <1>3, <1>4, JobFacts
<1>9. \A u \in Tasks : u \in queued' <=> pc'[u] \notin {"dead"} \cup Leaving
  BY <1>1, <1>3, <1>4, JobFacts DEF Leaving
<1> QED
  BY <1>5, <1>6, <1>7, <1>8, <1>9 DEF JobsOK

(* Leaving the queues, and the last switch.                                 *)
LEMMA JobsRemove ==
  ASSUME TypeOK, JobsOK, NEW p \in Tasks, Remove(p)
  PROVE  JobsOK'
<1>1. pc[p] = "remove" /\ UNCHANGED <<job, mail>> /\ queued' = queued \ {p}
  BY DEF Remove, At
<1>2. \A q \in Tasks : pc'[q] = IF q = p THEN "free" ELSE pc[q]
  BY DEF Remove, Goto, TypeOK
<1>3. \A q \in Tasks : job'[q] \in Tasks <=> pc'[q] \in Activating
  BY <1>1, <1>2, JobFacts, ActivatingIs
<1>4. \A q \in Tasks : job'[q] \in Tasks => pc'[job'[q]] = "dead" /\ job'[q] \notin mail'
  BY <1>1, <1>2, JobFacts
<1>5. \A q, r \in Tasks : job'[q] \in Tasks /\ job'[q] = job'[r] => q = r
  BY <1>1, JobFacts
<1>6. \A t \in mail' : pc'[t] = "dead"
  BY <1>1, <1>2, JobFacts
<1>7. \A t \in Tasks : t \in queued' <=> pc'[t] \notin {"dead"} \cup Leaving
  BY <1>1, <1>2, JobFacts DEF Leaving
<1> QED
  BY <1>3, <1>4, <1>5, <1>6, <1>7 DEF JobsOK

LEMMA JobsInt51 ==
  ASSUME TypeOK, JobsOK, NEW p \in Tasks, Int51(p)
  PROVE  JobsOK'
<1>1. pc[p] = "int 51" /\ UNCHANGED <<job, mail, queued>>
  BY DEF Int51, At, tableVars
<1>2. \A q \in Tasks : pc'[q] = IF q = p THEN "dead" ELSE pc[q]
  BY DEF Int51, Goto, TypeOK
<1>3. \A q \in Tasks : job'[q] \in Tasks <=> pc'[q] \in Activating
  BY <1>1, <1>2, JobFacts, ActivatingIs
<1>4. \A q \in Tasks : job'[q] \in Tasks => pc'[job'[q]] = "dead" /\ job'[q] \notin mail'
  BY <1>1, <1>2, JobFacts
<1>5. \A q, r \in Tasks : job'[q] \in Tasks /\ job'[q] = job'[r] => q = r
  BY <1>1, JobFacts
<1>6. \A t \in mail' : pc'[t] = "dead"
  BY <1>1, <1>2, JobFacts
<1>7. \A t \in Tasks : t \in queued' <=> pc'[t] \notin {"dead"} \cup Leaving
  BY <1>1, <1>2, JobFacts DEF Leaving
<1> QED
  BY <1>3, <1>4, <1>5, <1>6, <1>7 DEF JobsOK

LEMMA JobsSame ==
  ASSUME JobsOK, UNCHANGED <<job, mail, queued, pc>>
  PROVE  JobsOK'
  BY DEF JobsOK, Activating, Section, Leaving

(* Every step keeps the jobs apart: a task is asked for once at a time.     *)
LEMMA JobsNext ==
  ASSUME TypeOK, JobsOK, [Next]_vars
  PROVE  JobsOK'
<1> USE ActivatingIs DEF Leaving, Labels, At, tableVars, coreVars
<1>1. ASSUME NEW p \in Tasks, KitIsMine(p) PROVE JobsOK'
  BY <1>1, JobsKept DEF KitIsMine
<1>2. ASSUME NEW p \in Tasks, KitIsRemote(p) PROVE JobsOK'
  BY <1>2, JobsKept DEF KitIsRemote
<1>32. ASSUME NEW p \in Tasks, GetSource(p) PROVE JobsOK'
  BY <1>32, JobsKept DEF GetSource
<1>3. ASSUME NEW p \in Tasks, DispatchPacket(p) PROVE JobsOK'
  BY <1>3, JobsDispatch
<1>4. ASSUME NEW p \in Tasks, Scan(p) PROVE JobsOK'
  BY <1>4, JobsKept DEF Scan
<1>5. ASSUME NEW p \in Tasks, UnlockTable(p) PROVE JobsOK'
  BY <1>5, JobsKept DEF UnlockTable
<1>6. ASSUME NEW p \in Tasks, Claim(p) PROVE JobsOK'
  BY <1>6, JobsKept DEF Claim
<1>7. ASSUME NEW p \in Tasks, Queue(p) PROVE JobsOK'
  BY <1>7, JobsQueue
<1>8. ASSUME NEW p \in Tasks, UnlockATD(p) PROVE JobsOK'
  BY <1>8, JobsKept DEF UnlockATD
<1>9. ASSUME NEW p \in Tasks, Cli(p) PROVE JobsOK'
  BY <1>9, JobsKept DEF Cli
<1>10. ASSUME NEW p \in Tasks, KillGetKit(p) PROVE JobsOK'
  BY <1>10, JobsKept DEF KillGetKit
<1>11. ASSUME NEW p \in Tasks, Remove(p) PROVE JobsOK'
  BY <1>11, JobsRemove
<1>12. ASSUME NEW p \in Tasks, Free(p) PROVE JobsOK'
  BY <1>12, JobsKept DEF Free
<1>13. ASSUME NEW p \in Tasks, Wipe(p) PROVE JobsOK'
  BY <1>13, JobsKept DEF Wipe
<1>14. ASSUME NEW p \in Tasks, UnlockKill(p) PROVE JobsOK'
  BY <1>14, JobsKept DEF UnlockKill
<1>15. ASSUME NEW p \in Tasks, Int51(p) PROVE JobsOK'
  BY <1>15, JobsInt51
<1>16. ASSUME NEW p \in Tasks, LockATD(p) PROVE JobsOK'
  BY <1>16, JobsKept DEF LockATD
<1>17. ASSUME NEW p \in Tasks, LockCore(p) PROVE JobsOK'
  BY <1>17, JobsKept DEF LockCore
<1>31. ASSUME NEW p \in Tasks, LockCoreAgain(p) PROVE JobsOK'
  BY <1>31, JobsKept DEF LockCoreAgain
<1>18. ASSUME NEW p \in Tasks, LockTable(p) PROVE JobsOK'
  BY <1>18, JobsKept DEF LockTable
<1>30. ASSUME NEW p \in Tasks, SeeRecordFree(p) PROVE JobsOK'
  BY <1>30, JobsKept DEF SeeRecordFree
<1>19. ASSUME NEW p \in Tasks, LockKill(p) PROVE JobsOK'
  BY <1>19, JobsKept DEF LockKill
<1>20. ASSUME NEW p \in Tasks, KillLockCore(p) PROVE JobsOK'
  BY <1>20, JobsKept DEF KillLockCore
<1>21. ASSUME NEW p \in Tasks, KillCall(p) PROVE JobsOK'
  BY <1>21, JobsKept DEF KillCall
<1>22. ASSUME NEW p \in Tasks, NEW t \in Tasks, ActivateCall(p, t) PROVE JobsOK'
  BY <1>22, JobsCall
<1>23. ASSUME NEW c \in Cores, NEW next \in Tasks \cup {None}, TimerTick(c, next) PROVE JobsOK'
  BY <1>23, JobsSame DEF TimerTick
<1>24. CASE UNCHANGED vars
  BY <1>24, JobsSame DEF vars
<1>25. ASSUME NEW p \in Tasks, GoOn(p) PROVE JobsOK'
  BY <1>25, <1>1, <1>2, <1>3, <1>4, <1>5, <1>6, <1>7, <1>8, <1>9, <1>10, <1>11, <1>12, <1>13, <1>14, <1>15, <1>32 DEF GoOn
<1>26. ASSUME NEW p \in Tasks, Spin(p) PROVE JobsOK'
  BY <1>26, <1>16, <1>17, <1>18, <1>19, <1>20, <1>30, <1>31 DEF Spin
<1> QED
  BY <1>21, <1>22, <1>23, <1>24, <1>25, <1>26, NextCases

-----------------------------------------------------------------------------
(* kill() with interrupts off                                               *)

LEMMA KillInit == Init => KillNotPreempted
  BY DEF Init, KillNotPreempted, Masked

(* Every step leaves a masked core to the thread that masked it.            *)
LEMMA KillNext ==
  ASSUME TypeOK, JobsOK, KillNotPreempted, [Next]_vars
  PROVE  KillNotPreempted'
<1> USE DEF TypeOK, KillNotPreempted, Masked, Runs, At, Goto, Take, Drop, tableVars, coreVars
<1>1. ASSUME NEW p \in Tasks, KitIsMine(p) PROVE KillNotPreempted'
  BY <1>1 DEF KitIsMine
<1>2. ASSUME NEW p \in Tasks, KitIsRemote(p) PROVE KillNotPreempted'
  BY <1>2 DEF KitIsRemote
<1>32. ASSUME NEW p \in Tasks, GetSource(p) PROVE KillNotPreempted'
  BY <1>32 DEF GetSource
<1>3. ASSUME NEW p \in Tasks, DispatchPacket(p) PROVE KillNotPreempted'
  BY <1>3 DEF DispatchPacket
<1>4. ASSUME NEW p \in Tasks, Scan(p) PROVE KillNotPreempted'
  BY <1>4 DEF Scan
<1>5. ASSUME NEW p \in Tasks, UnlockTable(p) PROVE KillNotPreempted'
  BY <1>5 DEF UnlockTable
<1>6. ASSUME NEW p \in Tasks, Claim(p) PROVE KillNotPreempted'
  BY <1>6 DEF Claim
<1>7. ASSUME NEW p \in Tasks, Queue(p) PROVE KillNotPreempted'
  <2>1. pc[p] = "queue" /\ job[p] \in Tasks /\ UNCHANGED <<running, irq>>
    BY <1>7, JobFacts, ActivatingIs DEF Queue
  <2>2. \A q \in Tasks : pc'[q] \in Masked => pc'[q] = pc[q]
    BY <1>7, <2>1 DEF Queue
  <2> QED
    BY <2>1, <2>2
<1>8. ASSUME NEW p \in Tasks, UnlockATD(p) PROVE KillNotPreempted'
  BY <1>8 DEF UnlockATD
<1>9. ASSUME NEW p \in Tasks, Cli(p) PROVE KillNotPreempted'
  BY <1>9, LocksAssumption DEF Cli
<1>10. ASSUME NEW p \in Tasks, KillGetKit(p) PROVE KillNotPreempted'
  BY <1>10 DEF KillGetKit
<1>11. ASSUME NEW p \in Tasks, Remove(p) PROVE KillNotPreempted'
  BY <1>11 DEF Remove
<1>12. ASSUME NEW p \in Tasks, Free(p) PROVE KillNotPreempted'
  BY <1>12 DEF Free
<1>13. ASSUME NEW p \in Tasks, Wipe(p) PROVE KillNotPreempted'
  BY <1>13 DEF Wipe
<1>14. ASSUME NEW p \in Tasks, UnlockKill(p) PROVE KillNotPreempted'
  BY <1>14 DEF UnlockKill
<1>15. ASSUME NEW p \in Tasks, Int51(p) PROVE KillNotPreempted'
  <2>1. pc[p] = "int 51" /\ Runs(p) /\ pc' = [pc EXCEPT ![p] = "dead"]
    BY <1>15 DEF Int51
  <2>2. PICK next \in queued \cup {None} : SwitchTo(Home[p], next)
    BY <1>15 DEF Int51
  <2> SUFFICES ASSUME NEW q \in Tasks, pc'[q] \in Masked
               PROVE  Runs(q)' /\ ~irq'[Home[q]]
    OBVIOUS
  <2>3. q # p /\ pc[q] \in Masked
    BY <2>1
  <2>4. Home[q] # Home[p]
    BY <2>1, <2>3
  <2> QED
    BY <2>2, <2>3, <2>4, LocksAssumption DEF SwitchTo
<1>16. ASSUME NEW p \in Tasks, LockATD(p) PROVE KillNotPreempted'
  BY <1>16 DEF LockATD
<1>17. ASSUME NEW p \in Tasks, LockCore(p) PROVE KillNotPreempted'
  BY <1>17 DEF LockCore
<1>31. ASSUME NEW p \in Tasks, LockCoreAgain(p) PROVE KillNotPreempted'
  BY <1>31 DEF LockCoreAgain
<1>18. ASSUME NEW p \in Tasks, LockTable(p) PROVE KillNotPreempted'
  BY <1>18 DEF LockTable
<1>30. ASSUME NEW p \in Tasks, SeeRecordFree(p) PROVE KillNotPreempted'
  BY <1>30 DEF SeeRecordFree
<1>19. ASSUME NEW p \in Tasks, LockKill(p) PROVE KillNotPreempted'
  BY <1>19 DEF LockKill
<1>20. ASSUME NEW p \in Tasks, KillLockCore(p) PROVE KillNotPreempted'
  BY <1>20 DEF KillLockCore
<1>21. ASSUME NEW p \in Tasks, KillCall(p) PROVE KillNotPreempted'
  BY <1>21 DEF KillCall
<1>22. ASSUME NEW p \in Tasks, NEW t \in Tasks, ActivateCall(p, t) PROVE KillNotPreempted'
  BY <1>22 DEF ActivateCall
<1>23. ASSUME NEW c \in Cores, NEW next \in Tasks \cup {None}, TimerTick(c, next) PROVE KillNotPreempted'
  BY <1>23, LocksAssumption DEF TimerTick, SwitchTo
<1>24. CASE UNCHANGED vars
  BY <1>24 DEF vars
<1>25. ASSUME NEW p \in Tasks, GoOn(p) PROVE KillNotPreempted'
  BY <1>25, <1>1, <1>2, <1>3, <1>4, <1>5, <1>6, <1>7, <1>8, <1>9, <1>10, <1>11, <1>12, <1>13, <1>14, <1>15, <1>32 DEF GoOn
<1>26. ASSUME NEW p \in Tasks, Spin(p) PROVE KillNotPreempted'
  BY <1>26, <1>16, <1>17, <1>18, <1>19, <1>20, <1>30, <1>31 DEF Spin
<1> QED
  BY <1>21, <1>22, <1>23, <1>24, <1>25, <1>26, NextCases

-----------------------------------------------------------------------------
(* Mutual exclusion                                                         *)

(* One lock: nobody holds it and the word is clear, or the word is set and  *)
(* one thread holds it.                                                     *)
LockOK(l) ==
  /\ \A p, q \in Tasks : pc[p] \in Section(l) /\ pc[q] \in Section(l) => p = q
  /\ locked[l] <=> \E p \in Tasks : pc[p] \in Section(l)

LEMMA LockOKSuffices == MutualExclusion <=> \A l \in LockNames : LockOK(l)
  BY DEF MutualExclusion, LockOK, Holders

LEMMA MutexInit == Init => MutualExclusion
  BY SectionIs DEF Init, MutualExclusion, Holders, LockNames

(* What one thread's move from label to label does to a lock.               *)
LEMMA Moves ==
  ASSUME TypeOK, NEW l \in LockNames, LockOK(l),
         NEW p \in Tasks, NEW to \in Labels, Goto(p, to),
         \/ /\ pc[p] \in Section(l) <=> to \in Section(l)
            /\ locked'[l] = locked[l]
         \/ ~locked[l] /\ locked'[l] /\ to \in Section(l)
         \/ pc[p] \in Section(l) /\ to \notin Section(l) /\ ~locked'[l]
  PROVE  LockOK(l)'
<1>1. \A q \in Tasks : pc'[q] = IF q = p THEN to ELSE pc[q]
  BY DEF TypeOK, Goto
<1>2. CASE (pc[p] \in Section(l) <=> to \in Section(l)) /\ locked'[l] = locked[l]
  BY <1>1, <1>2 DEF LockOK
<1>3. CASE ~locked[l] /\ locked'[l] /\ to \in Section(l)
  BY <1>1, <1>3 DEF LockOK
<1>4. CASE pc[p] \in Section(l) /\ to \notin Section(l) /\ ~locked'[l]
  BY <1>1, <1>4 DEF LockOK
<1> QED
  BY <1>2, <1>3, <1>4

(* Every step keeps every lock in order.                                    *)
LEMMA LockNext ==
  ASSUME TypeOK, JobsOK, NEW l \in LockNames, LockOK(l), [Next]_vars
  PROVE  LockOK(l)'
<1> USE SectionIs DEF TypeOK, LockNames, At, Take, Drop
<1>1. ASSUME NEW p \in Tasks, KitIsMine(p) PROVE LockOK(l)'
  <2>1. Goto(p, "lock TABLE") /\ "lock TABLE" \in Labels
    BY <1>1 DEF KitIsMine, Labels
  <2> QED
    BY <1>1, <2>1, Moves DEF KitIsMine
<1>2. ASSUME NEW p \in Tasks, KitIsRemote(p) PROVE LockOK(l)'
  <2>1. Goto(p, "lock CORE again") /\ "lock CORE again" \in Labels
    BY <1>2 DEF KitIsRemote, Labels
  <2> QED
    BY <1>2, <2>1, Moves DEF KitIsRemote
<1>32. ASSUME NEW p \in Tasks, GetSource(p) PROVE LockOK(l)'
  <2>1. Goto(p, "lock record") /\ "lock record" \in Labels
    BY <1>32 DEF GetSource, Labels
  <2> QED
    BY <1>32, <2>1, Moves DEF GetSource
<1>3. ASSUME NEW p \in Tasks, DispatchPacket(p) PROVE LockOK(l)'
  <2>1. Goto(p, "unlock ATD") /\ "unlock ATD" \in Labels
    BY <1>3 DEF DispatchPacket, Labels
  <2> QED
    BY <1>3, <2>1, Moves DEF DispatchPacket
<1>4. ASSUME NEW p \in Tasks, Scan(p) PROVE LockOK(l)'
  <2>1. Goto(p, "unlock TABLE") /\ "unlock TABLE" \in Labels
    BY <1>4 DEF Scan, Labels
  <2> QED
    BY <1>4, <2>1, Moves DEF Scan
<1>5. ASSUME NEW p \in Tasks, UnlockTable(p) PROVE LockOK(l)'
  <2>1. Goto(p, "claim") /\ "claim" \in Labels
    BY <1>5 DEF UnlockTable, Labels
  <2> QED
    BY <1>5, <2>1, Moves DEF UnlockTable
<1>6. ASSUME NEW p \in Tasks, Claim(p) PROVE LockOK(l)'
  <2>1. Goto(p, "queue") /\ "queue" \in Labels
    BY <1>6 DEF Claim, Labels
  <2> QED
    BY <1>6, <2>1, Moves DEF Claim
<1>7. ASSUME NEW p \in Tasks, Queue(p) PROVE LockOK(l)'
  <2>1. pc[p] = "queue" /\ job[p] \in Tasks /\ pc[job[p]] = "dead" /\ job[p] # p
    BY <1>7, JobFacts, ActivatingIs DEF Queue
  <2>2. \A q \in Tasks :
           pc'[q] = (IF q = p THEN "unlock ATD" ELSE IF q = job[p] THEN "run" ELSE pc[q])
    BY <1>7, <2>1 DEF Queue
  <2>3. \A q \in Tasks : pc'[q] \in Section(l) <=> pc[q] \in Section(l)
    BY <2>1, <2>2
  <2>4. locked' = locked
    BY <1>7 DEF Queue
  <2> QED
    BY <2>3, <2>4 DEF LockOK
<1>8. ASSUME NEW p \in Tasks, UnlockATD(p) PROVE LockOK(l)'
  <2>1. Goto(p, "run") /\ "run" \in Labels
    BY <1>8 DEF UnlockATD, Labels
  <2> QED
    BY <1>8, <2>1, Moves DEF UnlockATD
<1>9. ASSUME NEW p \in Tasks, Cli(p) PROVE LockOK(l)'
  <2>1. Goto(p, "kill: lock CORE") /\ "kill: lock CORE" \in Labels
    BY <1>9 DEF Cli, Labels
  <2> QED
    BY <1>9, <2>1, Moves DEF Cli
<1>10. ASSUME NEW p \in Tasks, KillGetKit(p) PROVE LockOK(l)'
  <2>1. Goto(p, "remove") /\ "remove" \in Labels
    BY <1>10 DEF KillGetKit, Labels
  <2> QED
    BY <1>10, <2>1, Moves DEF KillGetKit
<1>11. ASSUME NEW p \in Tasks, Remove(p) PROVE LockOK(l)'
  <2>1. Goto(p, "free") /\ "free" \in Labels
    BY <1>11 DEF Remove, Labels
  <2> QED
    BY <1>11, <2>1, Moves DEF Remove
<1>12. ASSUME NEW p \in Tasks, Free(p) PROVE LockOK(l)'
  <2>1. Goto(p, "wipe") /\ "wipe" \in Labels
    BY <1>12 DEF Free, Labels
  <2> QED
    BY <1>12, <2>1, Moves DEF Free
<1>13. ASSUME NEW p \in Tasks, Wipe(p) PROVE LockOK(l)'
  <2>1. Goto(p, "unlock KILL") /\ "unlock KILL" \in Labels
    BY <1>13 DEF Wipe, Labels
  <2> QED
    BY <1>13, <2>1, Moves DEF Wipe
<1>14. ASSUME NEW p \in Tasks, UnlockKill(p) PROVE LockOK(l)'
  <2>1. Goto(p, "int 51") /\ "int 51" \in Labels
    BY <1>14 DEF UnlockKill, Labels
  <2> QED
    BY <1>14, <2>1, Moves DEF UnlockKill
<1>15. ASSUME NEW p \in Tasks, Int51(p) PROVE LockOK(l)'
  <2>1. Goto(p, "dead") /\ "dead" \in Labels
    BY <1>15 DEF Int51, Labels
  <2> QED
    BY <1>15, <2>1, Moves DEF Int51
<1>16. ASSUME NEW p \in Tasks, LockATD(p) PROVE LockOK(l)'
  <2>1. Goto(p, "lock CORE") /\ "lock CORE" \in Labels
    BY <1>16 DEF LockATD, Labels
  <2>2. pc[p] = "lock ATD" /\ ~locked["ATD"] /\ locked' = [locked EXCEPT !["ATD"] = TRUE]
    BY <1>16 DEF LockATD
  <2>3. CASE l = "ATD"
    <3>1. ~locked[l] /\ locked'[l] /\ "lock CORE" \in Section(l)
      BY <2>2, <2>3
    <3> QED
      BY <2>1, <3>1, Moves
  <2>4. CASE l # "ATD"
    <3>1. locked'[l] = locked[l]
      BY <2>2, <2>4
    <3>2. l \in {"CORE", "TABLE", "KILL"}
      BY <2>4
    <3>3. "lock ATD" \notin Section(l) /\ "lock CORE" \notin Section(l)
      BY <3>2, OnlyATD
    <3> QED
      BY <2>1, <2>2, <3>1, <3>3, Moves
  <2> QED
    BY <2>3, <2>4
<1>17. ASSUME NEW p \in Tasks, LockCore(p) PROVE LockOK(l)'
  <2>1. Goto(p, "get kit") /\ "get kit" \in Labels
    BY <1>17 DEF LockCore, Labels
  <2> QED
    BY <1>17, <2>1, Moves DEF LockCore
<1>31. ASSUME NEW p \in Tasks, LockCoreAgain(p) PROVE LockOK(l)'
  <2>1. Goto(p, "get source") /\ "get source" \in Labels
    BY <1>31 DEF LockCoreAgain, Labels
  <2> QED
    BY <1>31, <2>1, Moves DEF LockCoreAgain
<1>18. ASSUME NEW p \in Tasks, LockTable(p) PROVE LockOK(l)'
  <2>1. Goto(p, "scan") /\ "scan" \in Labels
    BY <1>18 DEF LockTable, Labels
  <2> QED
    BY <1>18, <2>1, Moves DEF LockTable
<1>30. ASSUME NEW p \in Tasks, SeeRecordFree(p) PROVE LockOK(l)'
  <2>1. Goto(p, "dispatch") /\ "dispatch" \in Labels
    BY <1>30 DEF SeeRecordFree, Labels
  <2> QED
    BY <1>30, <2>1, Moves DEF SeeRecordFree
<1>19. ASSUME NEW p \in Tasks, LockKill(p) PROVE LockOK(l)'
  <2>1. Goto(p, "cli") /\ "cli" \in Labels
    BY <1>19 DEF LockKill, Labels
  <2> QED
    BY <1>19, <2>1, Moves DEF LockKill
<1>20. ASSUME NEW p \in Tasks, KillLockCore(p) PROVE LockOK(l)'
  <2>1. Goto(p, "kill: get kit") /\ "kill: get kit" \in Labels
    BY <1>20 DEF KillLockCore, Labels
  <2> QED
    BY <1>20, <2>1, Moves DEF KillLockCore
<1>21. ASSUME NEW p \in Tasks, KillCall(p) PROVE LockOK(l)'
  <2>1. Goto(p, "lock KILL") /\ "lock KILL" \in Labels
    BY <1>21 DEF KillCall, Labels
  <2> QED
    BY <1>21, <2>1, Moves DEF KillCall
<1>22. ASSUME NEW p \in Tasks, NEW t \in Tasks, ActivateCall(p, t) PROVE LockOK(l)'
  <2>1. Goto(p, "lock ATD") /\ "lock ATD" \in Labels
    BY <1>22 DEF ActivateCall, Labels
  <2> QED
    BY <1>22, <2>1, Moves DEF ActivateCall
<1>23. ASSUME NEW c \in Cores, NEW next \in Tasks \cup {None}, TimerTick(c, next) PROVE LockOK(l)'
  BY <1>23 DEF TimerTick, LockOK
<1>24. CASE UNCHANGED vars
  BY <1>24 DEF vars, LockOK
<1>25. ASSUME NEW p \in Tasks, GoOn(p) PROVE LockOK(l)'
  BY <1>25, <1>1, <1>2, <1>3, <1>4, <1>5, <1>6, <1>7, <1>8, <1>9, <1>10, <1>11, <1>12, <1>13, <1>14, <1>15, <1>32 DEF GoOn
<1>26. ASSUME NEW p \in Tasks, Spin(p) PROVE LockOK(l)'
  BY <1>26, <1>16, <1>17, <1>18, <1>19, <1>20, <1>30, <1>31 DEF Spin
<1> QED
  BY <1>21, <1>22, <1>23, <1>24, <1>25, <1>26, NextCases

LEMMA MutexNext == TypeOK /\ JobsOK /\ MutualExclusion /\ [Next]_vars => MutualExclusion'
<1> SUFFICES ASSUME TypeOK, JobsOK, MutualExclusion, [Next]_vars PROVE MutualExclusion'
  OBVIOUS
<1>1. \A l \in LockNames : LockOK(l)
  BY LockOKSuffices
<1>2. \A l \in LockNames : LockOK(l)'
  BY <1>1, LockNext
<1> QED
  BY <1>2 DEF MutualExclusion, LockOK, Holders

-----------------------------------------------------------------------------
(* Thread-table entries                                                     *)

LEMMA EntriesInit == Init => EntriesOK
  BY LocksAssumption DEF Init, EntriesOK, EntriesNameTasks

(* What the steps below use of the invariant: the thread that is handed an  *)
(* entry is alone, as it has TASK_LOCK_ATD.                                 *)
LEMMA EntryFacts ==
  ASSUME TypeOK, MutualExclusion, EntriesOK
  PROVE  /\ \A t \in queued : t \in Tasks /\ entry[t] \in Entries /\ table[entry[t]] = t
         /\ \A p \in Tasks : pc[p] = "free" =>
              entry[p] \in Entries /\ table[entry[p]] = p
         /\ \A p \in Tasks : pc[p] \in {"unlock TABLE", "claim"} =>
              found[p] \in Entries /\ table[found[p]] = None
         /\ \A p \in Tasks : pc[p] = "queue" =>
              found[p] \in Entries /\ table[found[p]] = job[p]
         /\ \A p, q \in Tasks :
              /\ pc[p] \in {"scan", "unlock TABLE", "claim", "queue"}
              /\ pc[q] \in {"scan", "unlock TABLE", "claim", "queue"}
              => p = q
<1>1. \A p, q \in Tasks : pc[p] \in Section("ATD") /\ pc[q] \in Section("ATD") => p = q
  BY LockOKSuffices DEF LockOK, LockNames
<1>2. {"scan", "unlock TABLE", "claim", "queue"} \subseteq Section("ATD")
  BY SectionIs
<1>3. ASSUME NEW t \in queued
      PROVE  t \in Tasks /\ entry[t] \in Entries /\ table[entry[t]] = t
  <2>1. entry[t] # None /\ table[entry[t]] = t
    BY DEF EntriesOK, EntriesNameTasks
  <2>2. t \in Tasks /\ entry[t] \in Entries \cup {None}
    BY DEF TypeOK
  <2> QED
    BY <2>1, <2>2
<1> QED
  BY <1>1, <1>2, <1>3 DEF EntriesOK

(* The scan returns an entry that is free.                                  *)
LEMMA EntriesScan ==
  ASSUME TypeOK, MutualExclusion, EntriesOK, NEW p \in Tasks, Scan(p)
  PROVE  EntriesOK'
<1>1. PICK e \in Entries : table[e] = None /\ found' = [found EXCEPT ![p] = e]
  BY DEF Scan
<1>2. \A q \in Tasks : /\ pc'[q] = (IF q = p THEN "unlock TABLE" ELSE pc[q])
                       /\ found'[q] = (IF q = p THEN e ELSE found[q])
  BY <1>1 DEF Scan, Goto, TypeOK
<1>3. UNCHANGED <<job, table, entry, queued>>
  BY DEF Scan, tableVars
<1>4. EntriesNameTasks'
  BY <1>3 DEF EntriesNameTasks, EntriesOK
<1>5. \A q \in Tasks : pc'[q] = "free" => entry'[q] \in Entries /\ table'[entry'[q]] = q
  BY <1>2, <1>3, EntryFacts
<1>6. ASSUME NEW q \in Tasks, pc'[q] \in {"unlock TABLE", "claim"}
      PROVE  found'[q] \in Entries /\ table'[found'[q]] = None
  <2>1. CASE q = p
    BY <1>1, <1>2, <1>3, <2>1
  <2>2. CASE q # p
    <3>1. pc[q] \in {"unlock TABLE", "claim"}
      BY <1>2, <1>6, <2>2
    <3> QED
      BY <1>2, <1>3, <2>2, <3>1, EntryFacts
  <2> QED
    BY <2>1, <2>2
<1>7. \A q \in Tasks : pc'[q] = "queue" =>
        found'[q] \in Entries /\ table'[found'[q]] = job'[q]
  BY <1>2, <1>3, EntryFacts
<1> QED
  BY <1>4, <1>5, <1>6, <1>7 DEF EntriesOK

(* The claim fills an entry that nobody has.                                *)
LEMMA EntriesClaim ==
  ASSUME TypeOK, MutualExclusion, EntriesOK, NEW p \in Tasks, Claim(p)
  PROVE  EntriesOK'
<1>1. pc[p] = "claim" /\ found[p] \in Entries /\ table[found[p]] = None
  BY EntryFacts DEF Claim, At
<1>2. \A q \in Tasks : pc'[q] = (IF q = p THEN "queue" ELSE pc[q])
  BY DEF Claim, Goto, TypeOK
<1>3. \A e \in Entries : table'[e] = (IF e = found[p] THEN job[p] ELSE table[e])
  BY DEF Claim, TypeOK
<1>4. UNCHANGED <<job, found, entry, queued>>
  BY DEF Claim
<1>5. EntriesNameTasks'
  <2> SUFFICES ASSUME NEW t \in queued
               PROVE  entry[t] # None /\ table'[entry[t]] = t
    BY <1>4 DEF EntriesNameTasks
  <2>1. entry[t] \in Entries /\ table[entry[t]] = t /\ t \in Tasks
    BY EntryFacts
  <2>2. entry[t] # found[p]
    BY <1>1, <2>1, LocksAssumption
  <2> QED
    BY <1>3, <2>1, <2>2, LocksAssumption
<1>6. ASSUME NEW q \in Tasks, pc'[q] = "free"
      PROVE  entry'[q] \in Entries /\ table'[entry'[q]] = q
  <2>1. pc[q] = "free" /\ entry[q] \in Entries /\ table[entry[q]] = q
    BY <1>2, <1>6, EntryFacts
  <2>2. entry[q] # found[p]
    BY <1>1, <2>1, LocksAssumption
  <2> QED
    BY <1>3, <1>4, <2>1, <2>2
<1>7. ASSUME NEW q \in Tasks, pc'[q] \in {"unlock TABLE", "claim"}
      PROVE  found'[q] \in Entries /\ table'[found'[q]] = None
  <2>1. q # p /\ pc[q] \in {"unlock TABLE", "claim"}
    BY <1>2, <1>7
  <2> QED
    BY <1>1, <2>1, EntryFacts
<1>8. ASSUME NEW q \in Tasks, pc'[q] = "queue"
      PROVE  found'[q] \in Entries /\ table'[found'[q]] = job'[q]
  <2>1. q = p
    BY <1>1, <1>2, <1>8, EntryFacts
  <2> QED
    BY <1>1, <1>3, <1>4, <2>1
<1> QED
  BY <1>5, <1>6, <1>7, <1>8 DEF EntriesOK

(* The task that is queued names the entry that names it.                   *)
LEMMA EntriesQueue ==
  ASSUME TypeOK, JobsOK, MutualExclusion, EntriesOK, NEW p \in Tasks, Queue(p)
  PROVE  EntriesOK'
<1>1. pc[p] = "queue" /\ found[p] \in Entries /\ table[found[p]] = job[p]
  BY EntryFacts DEF Queue, At
<1>2. job[p] \in Tasks /\ pc[job[p]] = "dead"
  BY <1>1, JobFacts, ActivatingIs
<1>3. \A q \in Tasks :
         pc'[q] = (IF q = job[p] THEN "run" ELSE IF q = p THEN "unlock ATD" ELSE pc[q])
  BY <1>2 DEF Queue, TypeOK
<1>4. \A q \in Tasks : entry'[q] = (IF q = job[p] THEN found[p] ELSE entry[q])
  BY DEF Queue, TypeOK
<1>5. UNCHANGED <<table, found>> /\ queued' = queued \cup {job[p]}
  BY DEF Queue
<1>6. EntriesNameTasks'
  <2> SUFFICES ASSUME NEW t \in queued'
               PROVE  entry'[t] # None /\ table'[entry'[t]] = t
    BY DEF EntriesNameTasks
  <2>1. CASE t = job[p]
    BY <1>1, <1>2, <1>4, <1>5, <2>1, LocksAssumption
  <2>2. CASE t # job[p]
    <3>1. t \in queued /\ t \in Tasks
      BY <1>5, <2>2, EntryFacts
    <3>2. entry[t] \in Entries /\ table[entry[t]] = t
      BY <3>1, EntryFacts
    <3> QED
      BY <1>4, <1>5, <2>2, <3>1, <3>2, LocksAssumption
  <2> QED
    BY <2>1, <2>2
<1>7. ASSUME NEW q \in Tasks, pc'[q] = "free"
      PROVE  entry'[q] \in Entries /\ table'[entry'[q]] = q
  <2>1. q # job[p] /\ pc[q] = "free"
    BY <1>3, <1>7
  <2> QED
    BY <1>4, <1>5, <2>1, EntryFacts
<1>8. ASSUME NEW q \in Tasks, pc'[q] \in {"unlock TABLE", "claim", "queue"} PROVE FALSE
  <2>1. q # p /\ pc[q] \in {"unlock TABLE", "claim", "queue"}
    BY <1>3, <1>8
  <2> QED
    BY <1>1, <2>1, EntryFacts
<1> QED
  BY <1>6, <1>7, <1>8 DEF EntriesOK

(* A task that leaves its queue keeps its entry until it frees it.          *)
LEMMA EntriesRemove ==
  ASSUME TypeOK, JobsOK, MutualExclusion, EntriesOK, NEW p \in Tasks, Remove(p)
  PROVE  EntriesOK'
<1>1. pc[p] = "remove" /\ p \in queued
  BY JobFacts DEF Remove, At, Leaving
<1>2. \A q \in Tasks : pc'[q] = (IF q = p THEN "free" ELSE pc[q])
  BY DEF Remove, Goto, TypeOK
<1>3. UNCHANGED <<job, found, table, entry>> /\ queued' = queued \ {p}
  BY DEF Remove
<1>4. EntriesNameTasks'
  BY <1>3 DEF EntriesNameTasks, EntriesOK
<1>5. \A q \in Tasks : pc'[q] = "free" => entry'[q] \in Entries /\ table'[entry'[q]] = q
  BY <1>1, <1>2, <1>3, EntryFacts
<1>6. \A q \in Tasks : pc'[q] \in {"unlock TABLE", "claim"} =>
        found'[q] \in Entries /\ table'[found'[q]] = None
  BY <1>2, <1>3, EntryFacts
<1>7. \A q \in Tasks : pc'[q] = "queue" =>
        found'[q] \in Entries /\ table'[found'[q]] = job'[q]
  BY <1>2, <1>3, EntryFacts
<1> QED
  BY <1>4, <1>5, <1>6, <1>7 DEF EntriesOK

(* Without a lock, a dying task frees an entry that no one else relies on.  *)
LEMMA EntriesFree ==
  ASSUME TypeOK, JobsOK, MutualExclusion, EntriesOK, NEW p \in Tasks, Free(p)
  PROVE  EntriesOK'
<1>1. pc[p] = "free" /\ entry[p] \in Entries /\ table[entry[p]] = p /\ p \notin queued
  BY EntryFacts, JobFacts DEF Free, At, Leaving
<1>2. \A q \in Tasks : pc'[q] = (IF q = p THEN "wipe" ELSE pc[q])
  BY DEF Free, Goto, TypeOK
<1>3. \A e \in Entries : table'[e] = (IF e = entry[p] THEN None ELSE table[e])
  BY DEF Free, TypeOK
<1>4. UNCHANGED <<job, found, entry, queued>>
  BY DEF Free
<1>5. EntriesNameTasks'
  <2> SUFFICES ASSUME NEW t \in queued
               PROVE  entry[t] # None /\ table'[entry[t]] = t
    BY <1>4 DEF EntriesNameTasks
  <2>1. entry[t] \in Entries /\ table[entry[t]] = t /\ t # p
    BY <1>1, EntryFacts
  <2> QED
    BY <1>1, <1>3, <2>1, LocksAssumption
<1>6. ASSUME NEW q \in Tasks, pc'[q] = "free"
      PROVE  entry'[q] \in Entries /\ table'[entry'[q]] = q
  <2>1. q # p /\ entry[q] \in Entries /\ table[entry[q]] = q
    BY <1>2, <1>6, EntryFacts
  <2> QED
    BY <1>1, <1>3, <1>4, <2>1
<1>7. ASSUME NEW q \in Tasks, pc'[q] \in {"unlock TABLE", "claim"}
      PROVE  found'[q] \in Entries /\ table'[found'[q]] = None
  <2>1. found[q] \in Entries /\ table[found[q]] = None
    BY <1>2, <1>7, EntryFacts
  <2> QED
    BY <1>3, <1>4, <2>1
<1>8. ASSUME NEW q \in Tasks, pc'[q] = "queue"
      PROVE  found'[q] \in Entries /\ table'[found'[q]] = job'[q]
  <2>1. pc[q] = "queue" /\ found[q] \in Entries /\ table[found[q]] = job[q]
    BY <1>2, <1>8, EntryFacts
  <2>2. job[q] \in Tasks /\ pc[job[q]] = "dead"
    BY <2>1, JobFacts, ActivatingIs
  <2>3. found[q] # entry[p]
    BY <1>1, <2>1, <2>2
  <2> QED
    BY <1>3, <1>4, <2>1, <2>3
<1> QED
  BY <1>5, <1>6, <1>7, <1>8 DEF EntriesOK

(* A wiped task is in no queue.                                             *)
LEMMA EntriesWipe ==
  ASSUME TypeOK, JobsOK, MutualExclusion, EntriesOK, NEW p \in Tasks, Wipe(p)
  PROVE  EntriesOK'
<1>1. pc[p] = "wipe" /\ p \notin queued
  BY JobFacts DEF Wipe, At, Leaving
<1>2. \A q \in Tasks : /\ pc'[q] = (IF q = p THEN "unlock KILL" ELSE pc[q])
                       /\ entry'[q] = (IF q = p THEN None ELSE entry[q])
  BY DEF Wipe, Goto, TypeOK
<1>3. UNCHANGED <<job, found, table, queued>>
  BY DEF Wipe
<1>4. EntriesNameTasks'
  <2> SUFFICES ASSUME NEW t \in queued
               PROVE  entry'[t] # None /\ table[entry'[t]] = t
    BY <1>3 DEF EntriesNameTasks
  <2>1. t \in Tasks /\ entry[t] \in Entries /\ table[entry[t]] = t /\ t # p
    BY <1>1, EntryFacts
  <2> QED
    BY <1>2, <2>1, LocksAssumption
<1>5. \A q \in Tasks : pc'[q] = "free" => entry'[q] \in Entries /\ table'[entry'[q]] = q
  BY <1>2, <1>3, EntryFacts
<1>6. \A q \in Tasks : pc'[q] \in {"unlock TABLE", "claim"} =>
        found'[q] \in Entries /\ table'[found'[q]] = None
  BY <1>2, <1>3, EntryFacts
<1>7. \A q \in Tasks : pc'[q] = "queue" =>
        found'[q] \in Entries /\ table'[found'[q]] = job'[q]
  BY <1>2, <1>3, EntryFacts
<1> QED
  BY <1>4, <1>5, <1>6, <1>7 DEF EntriesOK

(* A move to a label at which nothing is claimed of the thread's entry, or  *)
(* from the end of the scan to the claim.                                   *)
LEMMA EntriesKept ==
  ASSUME TypeOK, EntriesOK, UNCHANGED <<job, found, table, entry, queued>>,
         NEW p \in Tasks, NEW to, Goto(p, to), to \notin {"free", "unlock TABLE", "queue"},
         to = "claim" => pc[p] = "unlock TABLE"
  PROVE  EntriesOK'
<1>1. \A q \in Tasks : pc'[q] = IF q = p THEN to ELSE pc[q]
  BY DEF TypeOK, Goto
<1>2. EntriesNameTasks'
  BY DEF EntriesOK, EntriesNameTasks
<1>3. \A q \in Tasks : pc'[q] = "free" => pc[q] = "free"
  BY <1>1
<1>4. \A q \in Tasks : pc'[q] = "queue" => pc[q] = "queue"
  BY <1>1
<1>5. \A q \in Tasks : pc'[q] \in {"unlock TABLE", "claim"} =>
                          pc[q] \in {"unlock TABLE", "claim"}
  BY <1>1
<1> QED
  BY <1>2, <1>3, <1>4, <1>5 DEF EntriesOK

(* The same of a step that also gives the thread another task or forgets    *)
(* its entry.                                                               *)
LEMMA EntriesDrops ==
  ASSUME TypeOK, EntriesOK, UNCHANGED <<table, entry, queued>>,
         NEW p \in Tasks, NEW to, Goto(p, to),
         to \notin {"free", "unlock TABLE", "claim", "queue"},
         \A q \in Tasks \ {p} : job'[q] = job[q] /\ found'[q] = found[q]
  PROVE  EntriesOK'
<1>1. \A q \in Tasks : pc'[q] = IF q = p THEN to ELSE pc[q]
  BY DEF TypeOK, Goto
<1>2. EntriesNameTasks'
  BY DEF EntriesOK, EntriesNameTasks
<1>3. \A q \in Tasks : pc'[q] = "free" => pc[q] = "free"
  BY <1>1
<1>4. \A q \in Tasks : pc'[q] = "queue" =>
                          found'[q] \in Entries /\ table'[found'[q]] = job'[q]
  <2>1. \A q \in Tasks : pc'[q] = "queue" => pc[q] = "queue" /\ q # p
    BY <1>1
  <2> QED
    BY <2>1 DEF EntriesOK
<1>5. \A q \in Tasks : pc'[q] \in {"unlock TABLE", "claim"} =>
                          found'[q] \in Entries /\ table'[found'[q]] = None
  <2>1. \A q \in Tasks : pc'[q] \in {"unlock TABLE", "claim"} =>
                            pc[q] \in {"unlock TABLE", "claim"} /\ q # p
    BY <1>1
  <2> QED
    BY <2>1 DEF EntriesOK
<1>6. \A q \in Tasks : pc'[q] = "free" => entry'[q] \in Entries /\ table'[entry'[q]] = q
  BY <1>3 DEF EntriesOK
<1> QED
  BY <1>2, <1>4, <1>5, <1>6 DEF EntriesOK

LEMMA EntriesSame ==
  ASSUME EntriesOK, UNCHANGED <<pc, job, found, table, entry, queued>>
  PROVE  EntriesOK'
  BY DEF EntriesOK, EntriesNameTasks

(* Every step keeps the table: an entry stays free while it is handed over. *)
LEMMA EntriesNext ==
  ASSUME TypeOK, JobsOK, MutualExclusion, EntriesOK, [Next]_vars
  PROVE  EntriesOK'
<1> USE DEF At, tableVars, coreVars
<1>1. ASSUME NEW p \in Tasks, KitIsMine(p) PROVE EntriesOK'
  BY <1>1, EntriesKept DEF KitIsMine
<1>2. ASSUME NEW p \in Tasks, KitIsRemote(p) PROVE EntriesOK'
  BY <1>2, EntriesKept DEF KitIsRemote
<1>32. ASSUME NEW p \in Tasks, GetSource(p) PROVE EntriesOK'
  BY <1>32, EntriesKept DEF GetSource
<1>3. ASSUME NEW p \in Tasks, DispatchPacket(p) PROVE EntriesOK'
  <2>1. Goto(p, "unlock ATD") /\ UNCHANGED <<table, entry, queued>>
    BY <1>3 DEF DispatchPacket
  <2>2. \A q \in Tasks \ {p} : job'[q] = job[q] /\ found'[q] = found[q]
    BY <1>3 DEF DispatchPacket, TypeOK
  <2> QED
    BY <2>1, <2>2, EntriesDrops
<1>4. ASSUME NEW p \in Tasks, Scan(p) PROVE EntriesOK'
  BY <1>4, EntriesScan
<1>5. ASSUME NEW p \in Tasks, UnlockTable(p) PROVE EntriesOK'
  BY <1>5, EntriesKept DEF UnlockTable
<1>6. ASSUME NEW p \in Tasks, Claim(p) PROVE EntriesOK'
  BY <1>6, EntriesClaim
<1>7. ASSUME NEW p \in Tasks, Queue(p) PROVE EntriesOK'
  BY <1>7, EntriesQueue
<1>8. ASSUME NEW p \in Tasks, UnlockATD(p) PROVE EntriesOK'
  <2>1. Goto(p, "run") /\ UNCHANGED <<table, entry, queued>>
    BY <1>8 DEF UnlockATD
  <2>2. \A q \in Tasks \ {p} : job'[q] = job[q] /\ found'[q] = found[q]
    BY <1>8 DEF UnlockATD, TypeOK
  <2> QED
    BY <2>1, <2>2, EntriesDrops
<1>9. ASSUME NEW p \in Tasks, Cli(p) PROVE EntriesOK'
  BY <1>9, EntriesKept DEF Cli
<1>10. ASSUME NEW p \in Tasks, KillGetKit(p) PROVE EntriesOK'
  BY <1>10, EntriesKept DEF KillGetKit
<1>11. ASSUME NEW p \in Tasks, Remove(p) PROVE EntriesOK'
  BY <1>11, EntriesRemove
<1>12. ASSUME NEW p \in Tasks, Free(p) PROVE EntriesOK'
  BY <1>12, EntriesFree
<1>13. ASSUME NEW p \in Tasks, Wipe(p) PROVE EntriesOK'
  BY <1>13, EntriesWipe
<1>14. ASSUME NEW p \in Tasks, UnlockKill(p) PROVE EntriesOK'
  BY <1>14, EntriesKept DEF UnlockKill
<1>15. ASSUME NEW p \in Tasks, Int51(p) PROVE EntriesOK'
  BY <1>15, EntriesKept DEF Int51
<1>16. ASSUME NEW p \in Tasks, LockATD(p) PROVE EntriesOK'
  BY <1>16, EntriesKept DEF LockATD
<1>17. ASSUME NEW p \in Tasks, LockCore(p) PROVE EntriesOK'
  BY <1>17, EntriesKept DEF LockCore
<1>31. ASSUME NEW p \in Tasks, LockCoreAgain(p) PROVE EntriesOK'
  BY <1>31, EntriesKept DEF LockCoreAgain
<1>18. ASSUME NEW p \in Tasks, LockTable(p) PROVE EntriesOK'
  BY <1>18, EntriesKept DEF LockTable
<1>30. ASSUME NEW p \in Tasks, SeeRecordFree(p) PROVE EntriesOK'
  BY <1>30, EntriesKept DEF SeeRecordFree
<1>19. ASSUME NEW p \in Tasks, LockKill(p) PROVE EntriesOK'
  BY <1>19, EntriesKept DEF LockKill
<1>20. ASSUME NEW p \in Tasks, KillLockCore(p) PROVE EntriesOK'
  BY <1>20, EntriesKept DEF KillLockCore
<1>21. ASSUME NEW p \in Tasks, KillCall(p) PROVE EntriesOK'
  BY <1>21, EntriesKept DEF KillCall
<1>22. ASSUME NEW p \in Tasks, NEW t \in Tasks, ActivateCall(p, t) PROVE EntriesOK'
  <2>1. Goto(p, "lock ATD") /\ UNCHANGED <<table, entry, queued>>
    BY <1>22 DEF ActivateCall
  <2>2. \A q \in Tasks \ {p} : job'[q] = job[q] /\ found'[q] = found[q]
    BY <1>22 DEF ActivateCall, TypeOK
  <2> QED
    BY <2>1, <2>2, EntriesDrops
<1>23. ASSUME NEW c \in Cores, NEW next \in Tasks \cup {None}, TimerTick(c, next) PROVE EntriesOK'
  BY <1>23, EntriesSame DEF TimerTick
<1>24. CASE UNCHANGED vars
  BY <1>24, EntriesSame DEF vars
<1>25. ASSUME NEW p \in Tasks, GoOn(p) PROVE EntriesOK'
  BY <1>25, <1>1, <1>2, <1>3, <1>4, <1>5, <1>6, <1>7, <1>8, <1>9, <1>10, <1>11, <1>12, <1>13, <1>14, <1>15, <1>32 DEF GoOn
<1>26. ASSUME NEW p \in Tasks, Spin(p) PROVE EntriesOK'
  BY <1>26, <1>16, <1>17, <1>18, <1>19, <1>20, <1>30, <1>31 DEF Spin
<1> QED
  BY <1>21, <1>22, <1>23, <1>24, <1>25, <1>26, NextCases

-----------------------------------------------------------------------------
(* Theorems                                                                 *)

LEMMA IInvInit == Init => IInv
  BY TypeInit, JobsInit, MutexInit, KillInit, EntriesInit DEF IInv

LEMMA IInvNext == IInv /\ [Next]_vars => IInv'
<1> SUFFICES ASSUME IInv, [Next]_vars PROVE IInv'
  OBVIOUS
<1> USE DEF IInv
<1>1. TypeOK'
  BY TypeNext
<1>2. JobsOK'
  BY JobsNext
<1>3. MutualExclusion'
  BY MutexNext
<1>4. KillNotPreempted'
  BY KillNext
<1>5. EntriesOK'
  BY EntriesNext
<1> QED
  BY <1>1, <1>2, <1>3, <1>4, <1>5

(* The inductive invariant holds for any cores, tasks and entries.          *)
THEOREM Invariance == Spec => []IInv
  BY IInvInit, IInvNext, PTL DEF Spec

(* Every variable of Locks keeps its type.                                  *)
THEOREM TypeCorrect == Spec => []TypeOK
<1>1. IInv => TypeOK
  BY DEF IInv
<1> QED
  BY <1>1, Invariance, PTL

(* LOCK and UNLOCK exclude: each lock word is set exactly while one thread  *)
(* is in its section, on any path of Activate_task_direct_SP and kill.      *)
THEOREM Exclusion == Spec => []MutualExclusion
<1>1. IInv => MutualExclusion
  BY DEF IInv
<1> QED
  BY <1>1, Invariance, PTL

(* ThreadTable_alloc and ThreadTable_free never let two queued tasks share  *)
(* a thread-table entry, though alloc returns its entry unclaimed and free  *)
(* takes no lock.                                                           *)
THEOREM EntriesNotShared == Spec => []EntriesNameTasks
<1>1. IInv => EntriesNameTasks
  BY DEF IInv, EntriesOK
<1> QED
  BY <1>1, Invariance, PTL

(* From its cli to its int 51, kill() keeps its core.                       *)
THEOREM KillKeepsCore == Spec => []KillNotPreempted
<1>1. IInv => KillNotPreempted
  BY DEF IInv
<1> QED
  BY <1>1, Invariance, PTL

-----------------------------------------------------------------------------
(* Each lock implements Mutex                                               *)

(* At most one thread enters or leaves the section of a lock.               *)
OneMoves(l) ==
  \E p : \A q \in Tasks : q # p => (pc'[q] \in Section(l) <=> pc[q] \in Section(l))

LEMMA OneMover ==
  ASSUME TypeOK, JobsOK, NEW l \in LockNames, [Next]_vars
  PROVE  OneMoves(l)
<1> USE SectionIs DEF TypeOK, OneMoves, LockNames, At, Goto
<1>1. ASSUME NEW p \in Tasks, KitIsMine(p) PROVE OneMoves(l)
  BY <1>1 DEF KitIsMine
<1>2. ASSUME NEW p \in Tasks, KitIsRemote(p) PROVE OneMoves(l)
  BY <1>2 DEF KitIsRemote
<1>32. ASSUME NEW p \in Tasks, GetSource(p) PROVE OneMoves(l)
  BY <1>32 DEF GetSource
<1>3. ASSUME NEW p \in Tasks, DispatchPacket(p) PROVE OneMoves(l)
  BY <1>3, EntriesDrops DEF DispatchPacket
<1>4. ASSUME NEW p \in Tasks, Scan(p) PROVE OneMoves(l)
  BY <1>4 DEF Scan
<1>5. ASSUME NEW p \in Tasks, UnlockTable(p) PROVE OneMoves(l)
  BY <1>5 DEF UnlockTable
<1>6. ASSUME NEW p \in Tasks, Claim(p) PROVE OneMoves(l)
  BY <1>6 DEF Claim
<1>7. ASSUME NEW p \in Tasks, Queue(p) PROVE OneMoves(l)
  <2>1. pc[p] = "queue" /\ job[p] \in Tasks /\ pc[job[p]] = "dead" /\ job[p] # p
    BY <1>7, JobFacts, ActivatingIs DEF Queue
  <2>2. \A q \in Tasks : q # p => pc'[q] = (IF q = job[p] THEN "run" ELSE pc[q])
    BY <1>7, <2>1 DEF Queue
  <2> QED
    BY <2>1, <2>2
<1>8. ASSUME NEW p \in Tasks, UnlockATD(p) PROVE OneMoves(l)
  BY <1>8, EntriesDrops DEF UnlockATD
<1>9. ASSUME NEW p \in Tasks, Cli(p) PROVE OneMoves(l)
  BY <1>9 DEF Cli
<1>10. ASSUME NEW p \in Tasks, KillGetKit(p) PROVE OneMoves(l)
  BY <1>10 DEF KillGetKit
<1>11. ASSUME NEW p \in Tasks, Remove(p) PROVE OneMoves(l)
  BY <1>11 DEF Remove
<1>12. ASSUME NEW p \in Tasks, Free(p) PROVE OneMoves(l)
  BY <1>12 DEF Free
<1>13. ASSUME NEW p \in Tasks, Wipe(p) PROVE OneMoves(l)
  BY <1>13 DEF Wipe
<1>14. ASSUME NEW p \in Tasks, UnlockKill(p) PROVE OneMoves(l)
  BY <1>14 DEF UnlockKill
<1>15. ASSUME NEW p \in Tasks, Int51(p) PROVE OneMoves(l)
  BY <1>15 DEF Int51
<1>16. ASSUME NEW p \in Tasks, LockATD(p) PROVE OneMoves(l)
  BY <1>16 DEF LockATD
<1>17. ASSUME NEW p \in Tasks, LockCore(p) PROVE OneMoves(l)
  BY <1>17 DEF LockCore
<1>31. ASSUME NEW p \in Tasks, LockCoreAgain(p) PROVE OneMoves(l)
  BY <1>31 DEF LockCoreAgain
<1>18. ASSUME NEW p \in Tasks, LockTable(p) PROVE OneMoves(l)
  BY <1>18 DEF LockTable
<1>30. ASSUME NEW p \in Tasks, SeeRecordFree(p) PROVE OneMoves(l)
  BY <1>30 DEF SeeRecordFree
<1>19. ASSUME NEW p \in Tasks, LockKill(p) PROVE OneMoves(l)
  BY <1>19 DEF LockKill
<1>20. ASSUME NEW p \in Tasks, KillLockCore(p) PROVE OneMoves(l)
  BY <1>20 DEF KillLockCore
<1>21. ASSUME NEW p \in Tasks, KillCall(p) PROVE OneMoves(l)
  BY <1>21 DEF KillCall
<1>22. ASSUME NEW p \in Tasks, NEW t \in Tasks, ActivateCall(p, t) PROVE OneMoves(l)
  BY <1>22, EntriesDrops DEF ActivateCall
<1>23. ASSUME NEW c \in Cores, NEW next \in Tasks \cup {None}, TimerTick(c, next) PROVE OneMoves(l)
  BY <1>23 DEF TimerTick
<1>24. CASE UNCHANGED vars
  BY <1>24 DEF vars
<1>25. ASSUME NEW p \in Tasks, GoOn(p) PROVE OneMoves(l)
  BY <1>25, <1>1, <1>2, <1>3, <1>4, <1>5, <1>6, <1>7, <1>8, <1>9, <1>10, <1>11, <1>12, <1>13, <1>14, <1>15, <1>32 DEF GoOn
<1>26. ASSUME NEW p \in Tasks, Spin(p) PROVE OneMoves(l)
  BY <1>26, <1>16, <1>17, <1>18, <1>19, <1>20, <1>30, <1>31 DEF Spin
<1> QED
  BY <1>21, <1>22, <1>23, <1>24, <1>25, <1>26, NextCases

LEMMA HolderIs ==
  ASSUME NEW l \in LockNames, LockOK(l)
  PROVE  /\ \A p \in Tasks : pc[p] \in Section(l) => HolderOf(l) = p
         /\ (\A p \in Tasks : pc[p] \notin Section(l)) => HolderOf(l) = None
  BY DEF LockOK, HolderOf, Holders

LEMMA HolderIsNext ==
  ASSUME NEW l \in LockNames, LockOK(l)'
  PROVE  /\ \A p \in Tasks : pc'[p] \in Section(l) => HolderOf(l)' = p
         /\ (\A p \in Tasks : pc'[p] \notin Section(l)) => HolderOf(l)' = None
  BY DEF LockOK, HolderOf, Holders

(* No step hands a lock over: it is free in between.                        *)
LEMMA MutexStep ==
  ASSUME IInv, [Next]_vars, NEW l \in LockNames
  PROVE  \/ HolderOf(l)' = HolderOf(l)
         \/ \E p \in Tasks : HolderOf(l) = None /\ HolderOf(l)' = p
         \/ \E p \in Tasks : HolderOf(l) = p /\ HolderOf(l)' = None
<1>1. LockOK(l)
  BY LockOKSuffices DEF IInv
<1>2. LockOK(l)'
  BY <1>1, LockNext DEF IInv
<1>3. CASE \A p \in Tasks : pc[p] \notin Section(l)
  BY <1>1, <1>2, <1>3, HolderIs, HolderIsNext
<1>4. CASE \A p \in Tasks : pc'[p] \notin Section(l)
  BY <1>1, <1>2, <1>4, HolderIs, HolderIsNext
<1>5. ASSUME NEW p \in Tasks, NEW q \in Tasks,
             pc[p] \in Section(l), pc'[q] \in Section(l)
      PROVE  HolderOf(l)' = HolderOf(l)
  <2>1. HolderOf(l) = p /\ HolderOf(l)' = q
    BY <1>1, <1>2, <1>5, HolderIs, HolderIsNext
  <2>2. OneMoves(l)
    BY OneMover DEF IInv
  <2>3. p = q
    <3> SUFFICES ASSUME p # q PROVE FALSE
      OBVIOUS
    <3>1. pc'[p] \notin Section(l) /\ pc[q] \notin Section(l)
      BY <1>1, <1>2, <1>5 DEF LockOK
    <3> QED
      BY <1>5, <2>2, <3>1 DEF OneMoves
  <2> QED
    BY <2>1, <2>3
<1> QED
  BY <1>3, <1>4, <1>5

LEMMA HolderInit == ASSUME Init, NEW l \in LockNames PROVE HolderOf(l) = None
<1>1. Section(l) \cap {"run", "dead"} = {}
  BY SectionIs DEF LockNames
<1>2. Holders(l) = {}
  BY <1>1 DEF Init, Holders
<1> QED
  BY <1>2 DEF HolderOf

(* TASK_LOCK_ATD, CORE_INFO, THREADTABLE_LOCK and TASK_LOCK_KILL pass from  *)
(* no thread to one thread and back: the safety part of LocksAreMutexes.    *)
THEOREM LocksImplementMutex ==
  Spec => Atd!MutexSafety /\ Core!MutexSafety /\ Table!MutexSafety /\ Kill!MutexSafety
<1>1. Init => /\ Atd!MutexInit /\ Core!MutexInit
              /\ Table!MutexInit /\ Kill!MutexInit
  BY HolderInit DEF LockNames, Atd!MutexInit, Core!MutexInit, Table!MutexInit,
                    Kill!MutexInit
<1>2. IInv /\ [Next]_vars => [Atd!MutexNext]_(HolderOf("ATD"))
  BY MutexStep DEF LockNames, Atd!MutexNext, Atd!Lock, Atd!Unlock
<1>3. IInv /\ [Next]_vars => [Core!MutexNext]_(HolderOf("CORE"))
  BY MutexStep DEF LockNames, Core!MutexNext, Core!Lock, Core!Unlock
<1>4. IInv /\ [Next]_vars => [Table!MutexNext]_(HolderOf("TABLE"))
  BY MutexStep DEF LockNames, Table!MutexNext, Table!Lock, Table!Unlock
<1>5. IInv /\ [Next]_vars => [Kill!MutexNext]_(HolderOf("KILL"))
  BY MutexStep DEF LockNames, Kill!MutexNext, Kill!Lock, Kill!Unlock
<1> QED
  BY <1>1, <1>2, <1>3, <1>4, <1>5, Invariance, PTL
  DEF Spec, Atd!MutexSafety, Core!MutexSafety, Table!MutexSafety, Kill!MutexSafety
=============================================================================
