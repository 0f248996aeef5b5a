------------------------------ MODULE Processes ------------------------------
(***************************************************************************)
(* Processes and their lists of threads (process.c; create_task, kill and  *)
(* _kill of task.c). The entries of a process form a list through `next'   *)
(* and `back'; Delete_Process walks it from the first entry over           *)
(* total_tasks entries. The list has no lock of its own: one core at a     *)
(* time works on it here. The pages of a dead entry are never given back,  *)
(* its links stay what they were. Entries are numbered as they are made.   *)
(***************************************************************************)
EXTENDS Integers, FiniteSets

CONSTANTS
  PrProcs,   \* the processes
  PrMax      \* bound: entries ever made

ASSUME PrAssumption == PrMax \in Nat

VARIABLES
  proc,      \* [first, last, total, open, regrown] of each process
  thread,    \* [proc, next, back, alive] of each entry
  made,      \* entries made so far
  deleting   \* Delete_Process: [proc, i, tmp], or NoDelete

prVars == <<proc, thread, made, deleting>>

Null == 0
Nobody == "none"    \* the process of an entry that is not made yet

ASSUME NobodyAssumption == Nobody \notin PrProcs

NoDelete == [proc |-> Nobody, i |-> 0, tmp |-> Null]

Entries == 1..PrMax
Live(p) == {t \in Entries : thread[t].alive /\ thread[t].proc = p}

PrInit ==
  /\ proc = [p \in PrProcs |-> [first |-> Null, last |-> Null, total |-> 0,
                                open |-> FALSE, regrown |-> FALSE]]
  /\ thread = [t \in Entries |-> [proc |-> Nobody, next |-> Null, back |-> Null,
                                  alive |-> FALSE]]
  /\ made = 0
  /\ deleting = NoDelete

-----------------------------------------------------------------------------
create_process(p) ==
  /\ deleting = NoDelete /\ ~ proc[p].open /\ proc[p].total = 0
  /\ proc' = [proc EXCEPT ![p].open = TRUE]
  /\ UNCHANGED <<thread, made, deleting>>

(* History: the first entry's `back' names a live entry that is not the     *)
(* last one any more.                                                       *)
Regrows(p) ==
  /\ proc[p].total # 0
  /\ thread[proc[p].first].back \in Live(p) \ {proc[p].first}

(* The new entry goes behind the last one and points to the first one.      *)
create_task(p) ==
  LET t == made + 1
      empty == proc[p].total = 0
      new == [proc |-> p, alive |-> TRUE,
              next |-> IF empty THEN t ELSE proc[p].first,
              back |-> IF empty THEN t ELSE proc[p].last]
  IN /\ deleting = NoDelete /\ proc[p].open /\ made < PrMax
     /\ made' = t
     /\ proc' = [proc EXCEPT ![p].first = IF empty THEN t ELSE @, ![p].last = t,
                             ![p].total = @ + 1, ![p].regrown = @ \/ Regrows(p)]
     /\ thread' = [u \in Entries |->
                     IF u = t THEN new
                     ELSE IF ~ empty /\ u = proc[p].last
                          THEN [thread[u] EXCEPT !.next = t] ELSE thread[u]]
     /\ UNCHANGED deleting

(* Slip: an entry that is the last one is not looked for.                   *)
Unlink_LastStays(t) ==
  LET p == thread[t].proc
      nx == thread[t].next
      bk == thread[t].back
      forth == [thread EXCEPT ![bk].next = nx]
  IN /\ proc' = [proc EXCEPT ![p].total = @ - 1, ![p].first = IF t = @ THEN nx ELSE @]
     /\ thread' = [forth EXCEPT ![nx].back = bk, ![t].alive = FALSE]

(* The list's part of kill and of _kill. Once made, an entry has a `next'   *)
(* and a `back' that are not null.                                          *)
Unlink(t) ==
  LET p == thread[t].proc
      nx == thread[t].next
      bk == thread[t].back
      forth == [thread EXCEPT ![bk].next = nx]
  IN /\ proc' = [proc EXCEPT ![p].total = @ - 1,
                             ![p].first = IF t = proc[p].first THEN nx ELSE @,
                             ![p].last = IF t # proc[p].first /\ t = @ THEN bk ELSE @]
     /\ thread' = [forth EXCEPT ![nx].back = bk, ![t].alive = FALSE]

(* By the running thread, or by another one on the same core. From another  *)
(* core _kill only sends a packet.                                          *)
Kill(t) ==
  /\ deleting = NoDelete /\ thread[t].alive
  /\ Unlink(t)
  /\ UNCHANGED <<made, deleting>>

(* Bound: a process whose list is broken is not deleted: the walk would     *)
(* come to an entry that is dead, whose process is null.                    *)
Delete_Process(p) ==
  /\ deleting = NoDelete /\ proc[p].open /\ ~ proc[p].regrown
  /\ deleting' = [proc |-> p, i |-> 0, tmp |-> proc[p].first]
  /\ UNCHANGED <<proc, thread, made>>

(* One round of the loop: `total_tasks' has shrunk by the threads that were *)
(* killed, so half of them stay. One of another core is only sent a packet. *)
DeleteThread ==
  LET d == deleting
  IN /\ d # NoDelete /\ d.i < proc[d.proc].total
     /\ deleting' = [d EXCEPT !.i = @ + 1, !.tmp = thread[d.tmp].next]
     /\ Unlink(d.tmp) \/ UNCHANGED <<proc, thread>>
     /\ UNCHANGED made

(* The entry in the process table is cleared; the threads that are left run *)
(* on in a process that nobody finds.                                       *)
DeleteEnd ==
  /\ deleting # NoDelete /\ deleting.i >= proc[deleting.proc].total
  /\ proc' = [proc EXCEPT ![deleting.proc].open = FALSE]
  /\ deleting' = NoDelete
  /\ UNCHANGED <<thread, made>>

PrNext ==
  \/ \E p \in PrProcs : create_process(p) \/ create_task(p) \/ Delete_Process(p)
  \/ \E t \in Entries : Kill(t)
  \/ DeleteThread \/ DeleteEnd

PrSpec == PrInit /\ [][PrNext]_prVars

-----------------------------------------------------------------------------
(* Properties                                                               *)

(* From the first entry, `next' leads through the live entries of a process *)
(* in the order in which they were made, to the last one, and total_tasks   *)
(* is their number: what Delete_Process and create_task count on, although  *)
(* the links of the first entry backwards and of the last one forwards go   *)
(* stale. Until a thread is made when the one that was last before is dead  *)
(* and the first entry names its predecessor: the kill of the first entry   *)
(* then makes that predecessor point at an earlier entry.                   *)
PrWalk ==
  \A p \in PrProcs : ~ proc[p].regrown =>
    /\ proc[p].total = Cardinality(Live(p))
    /\ Live(p) # {} =>
         /\ proc[p].first \in Live(p) /\ proc[p].last \in Live(p)
         /\ \A t \in Live(p) : proc[p].first <= t /\ t <= proc[p].last
         /\ \A t \in Live(p) \ {proc[p].last} :
              /\ thread[t].next \in Live(p) /\ t < thread[t].next
              /\ \A u \in Live(p) : u <= t \/ thread[t].next <= u
=============================================================================
