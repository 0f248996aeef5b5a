-------------------------- MODULE ProcessesProofs --------------------------
(***************************************************************************)
(* The walk over the threads of a process meets each of them once, for any *)
(* number of processes and threads, until a list grows behind a stale link *)
(* of its first entry. The inductive invariant adds the links backwards,   *)
(* and what the two stale links may name.                                  *)
(***************************************************************************)
EXTENDS Processes, FiniteSetTheorems, TLAPS

ProcRecord == [first : Entries \cup {Null}, last : Entries \cup {Null}, total : Int,
               open : BOOLEAN, regrown : BOOLEAN]
ThreadRecord == [proc : PrProcs \cup {Nobody}, next : Entries \cup {Null},
                 back : Entries \cup {Null}, alive : BOOLEAN]

(* The types of the state.                                                  *)
PrTypeOK ==
  /\ proc \in [PrProcs -> ProcRecord]
  /\ thread \in [Entries -> ThreadRecord]
  /\ made \in 0..PrMax
  /\ deleting \in [proc : PrProcs \cup {Nobody}, i : Nat, tmp : Entries \cup {Null}]

Of(p) == {t \in Entries : thread[t].proc = p}

(* Entries name entries of their own process, dead or alive.                *)
LinksInside ==
  /\ \A t \in Entries : t > made => thread[t].proc = Nobody /\ ~ thread[t].alive
  /\ \A t \in Entries : t <= made =>
       /\ thread[t].proc \in PrProcs
       /\ thread[t].next \in Of(thread[t].proc) /\ thread[t].back \in Of(thread[t].proc)
  /\ \A p \in PrProcs : Of(p) # {} => proc[p].first \in Of(p) /\ proc[p].last \in Of(p)

Counted == \A p \in PrProcs : proc[p].total = Cardinality(Live(p))

(* The list L from a to z: both links between neighbours, the stale `back'  *)
(* of the first and the stale `next' of the last one.                       *)
List(L, a, z, th) ==
  /\ a \in L /\ z \in L
  /\ \A t \in L : a <= t /\ t <= z
  /\ \A t \in L \ {z} :
       /\ th[t].next \in L /\ t < th[t].next
       /\ \A u \in L : u <= t \/ th[t].next <= u
  /\ \A t \in L \ {a} :
       th[t].back \in L /\ th[t].back < t /\ th[th[t].back].next = t
  /\ th[a].back \in L => th[a].back \in {a, z}
  /\ th[z].next \in L => th[z].next = a

Lists ==
  \A p \in PrProcs : ~ proc[p].regrown /\ Live(p) # {} =>
    List(Live(p), proc[p].first, proc[p].last, thread)

(* Delete_Process has at most i live entries behind it, or is at its end.   *)
Before(p, t) == {u \in Live(p) : u < t}
WalkInside ==
  deleting # NoDelete =>
    /\ deleting.proc \in PrProcs /\ ~ proc[deleting.proc].regrown
    /\ \/ proc[deleting.proc].total <= deleting.i
       \/ /\ deleting.tmp \in Live(deleting.proc)
          /\ Cardinality(Before(deleting.proc, deleting.tmp)) <= deleting.i

PrInv == PrTypeOK /\ LinksInside /\ Counted /\ Lists /\ WalkInside

-----------------------------------------------------------------------------
(* Lists of numbers.                                                        *)

(* An entry has one predecessor.                                            *)
LEMMA OnePredecessor ==
  ASSUME NEW L \in SUBSET Nat, NEW a, NEW z, NEW th, List(L, a, z, th),
         NEW s \in L \ {z}, NEW u \in L \ {z}, th[s].next = th[u].next
  PROVE  s = u
<1>1. /\ s \in Nat /\ u \in Nat /\ th[s].next \in Nat
      /\ s < th[s].next /\ u < th[u].next
  BY DEF List
<1>2. u <= s \/ th[s].next <= u
  BY DEF List
<1>3. s <= u \/ th[u].next <= s
  BY DEF List
<1>4. QED
  BY <1>1, <1>2, <1>3

(* th2 is th after the entry t has been unlinked.                           *)
Unlinked(th, th2, L, t) ==
  \A u \in L \ {t} :
    /\ th2[u].next = IF u = th[t].back THEN th[t].next ELSE th[u].next
    /\ th2[u].back = IF u = th[t].next THEN th[t].back ELSE th[u].back

LEMMA UnlinkFirst ==
  ASSUME NEW L \in SUBSET Nat, NEW a, NEW z, NEW th, NEW th2, List(L, a, z, th),
         Unlinked(th, th2, L, a), a # z
  PROVE  List(L \ {a}, th[a].next, z, th2)
<1> USE DEF Unlinked
<1> DEFINE n == th[a].next
           K == L \ {a}
<1>0. a \in L /\ z \in L /\ n \in L /\ a < n /\ a \in Nat /\ n \in Nat /\ z \in Nat
  BY DEF List
<1>1. \A u \in K : n <= u /\ u <= z /\ u \in Nat
  BY <1>0 DEF List
<1>2. th[a].back \in K => th[a].back = z
  BY DEF List
<1>3. ASSUME NEW u \in K \ {z}
      PROVE  /\ th2[u].next \in K /\ u < th2[u].next
             /\ \A v \in K : v <= u \/ th2[u].next <= v
  <2>1. th2[u].next = th[u].next
    BY <1>2
  <2>2. th[u].next \in L /\ u < th[u].next /\ (\A v \in L : v <= u \/ th[u].next <= v)
    BY DEF List
  <2>3. th[u].next # a
    BY <1>0, <1>1, <2>2
  <2>4. QED
    BY <2>1, <2>2, <2>3
<1>4. ASSUME NEW u \in K \ {n}
      PROVE  th2[u].back \in K /\ th2[u].back < u /\ th2[th2[u].back].next = u
  <2>1. th2[u].back = th[u].back
    OBVIOUS
  <2>2. th[u].back \in L /\ th[u].back < u /\ th[th[u].back].next = u
    BY DEF List
  <2>3. th[u].back # a /\ th[u].back # z
    BY <1>0, <1>1, <2>2
  <2>4. th2[th[u].back].next = th[th[u].back].next
    BY <1>2, <2>2, <2>3
  <2>5. QED
    BY <2>1, <2>2, <2>3, <2>4
<1>5. th2[n].back \in K => th2[n].back \in {n, z}
  BY <1>0, <1>2
<1>6. th2[z].next \in K => th2[z].next = n
  BY <1>0 DEF List
<1>7. n \in K /\ z \in K
  BY <1>0
<1>8. QED
  BY <1>1, <1>3, <1>4, <1>5, <1>6, <1>7 DEF List

LEMMA UnlinkLast ==
  ASSUME NEW L \in SUBSET Nat, NEW a, NEW z, NEW th, NEW th2, List(L, a, z, th),
         Unlinked(th, th2, L, z), a # z
  PROVE  List(L \ {z}, a, th[z].back, th2)
<1> USE DEF Unlinked
<1> DEFINE b == th[z].back
           K == L \ {z}
<1>0. /\ a \in L /\ z \in L /\ b \in L /\ b < z /\ th[b].next = z
      /\ a \in Nat /\ b \in Nat /\ z \in Nat
  BY DEF List
<1>1. \A u \in K : a <= u /\ u <= b /\ u \in Nat
  BY <1>0 DEF List
<1>2. th[z].next \in K => th[z].next = a
  BY DEF List
<1>3. ASSUME NEW u \in K \ {b}
      PROVE  /\ th2[u].next \in K /\ u < th2[u].next
             /\ \A v \in K : v <= u \/ th2[u].next <= v
  <2>1. th2[u].next = th[u].next
    OBVIOUS
  <2>2. th[u].next \in L /\ u < th[u].next /\ (\A v \in L : v <= u \/ th[u].next <= v)
    BY DEF List
  <2>3. th[u].next # z
    <3>1. u \in L \ {z} /\ b \in L \ {z}
      BY <1>0
    <3>2. SUFFICES ASSUME th[u].next = th[b].next PROVE u = b
      BY <1>0
    <3> HIDE DEF b
    <3>3. QED
      BY <3>1, <3>2, OnePredecessor
  <2>4. QED
    BY <2>1, <2>2, <2>3
<1>4. ASSUME NEW u \in K \ {a}
      PROVE  th2[u].back \in K /\ th2[u].back < u /\ th2[th2[u].back].next = u
  <2>1. th2[u].back = th[u].back
    BY <1>2
  <2>2. th[u].back \in L /\ th[u].back < u /\ th[th[u].back].next = u
    BY DEF List
  <2>3. th[u].back # z /\ th[u].back # b
    BY <1>0, <1>1, <2>2
  <2>4. th2[th[u].back].next = th[th[u].back].next
    BY <2>2, <2>3
  <2>5. QED
    BY <2>1, <2>2, <2>3, <2>4
<1>5. th2[a].back \in K => th2[a].back \in {a, b}
  BY <1>0 DEF List
<1>6. th2[b].next \in K => th2[b].next = a
  BY <1>0, <1>2
<1>7. a \in K /\ b \in K
  BY <1>0
<1>8. QED
  BY <1>1, <1>3, <1>4, <1>5, <1>6, <1>7 DEF List

LEMMA UnlinkMiddle ==
  ASSUME NEW L \in SUBSET Nat, NEW a, NEW z, NEW th, NEW th2, List(L, a, z, th),
         NEW t \in L, Unlinked(th, th2, L, t), t # a, t # z
  PROVE  List(L \ {t}, a, z, th2)
<1> USE DEF Unlinked
<1> DEFINE b == th[t].back
           n == th[t].next
           K == L \ {t}
<1>0. /\ a \in L /\ z \in L /\ b \in L /\ b < t /\ th[b].next = t /\ n \in L /\ t < n
      /\ a <= b /\ n <= z
      /\ a \in Nat /\ b \in Nat /\ z \in Nat /\ t \in Nat /\ n \in Nat
  BY DEF List
<1>1. \A u \in K : a <= u /\ u <= z /\ u \in Nat
  BY DEF List
<1>3. ASSUME NEW u \in K \ {z}
      PROVE  /\ th2[u].next \in K /\ u < th2[u].next
             /\ \A v \in K : v <= u \/ th2[u].next <= v
  <2>2. th[u].next \in L /\ u < th[u].next /\ (\A v \in L : v <= u \/ th[u].next <= v)
    BY DEF List
  <2>3. CASE u = b
    <3>1. \A v \in L : v <= t \/ n <= v
      BY DEF List
    <3>2. th2[u].next = n /\ th[u].next = t
      BY <1>0, <2>3
    <3>3. ASSUME NEW v \in K PROVE v <= b \/ n <= v
      BY <1>0, <1>1, <2>2, <2>3, <3>1, <3>2
    <3>4. QED
      BY <1>0, <2>3, <3>2, <3>3
  <2>4. CASE u # b
    <3>1. th2[u].next = th[u].next
      BY <2>4
    <3>2. b # z
      BY <1>0
    <3>3. th[u].next # t
      <4>1. u \in L \ {z} /\ b \in L \ {z}
        BY <1>0, <3>2
      <4>2. th[u].next # th[b].next
        BY <2>4, <4>1, OnePredecessor
      <4>3. QED
        BY <1>0, <4>2
    <3>4. QED
      BY <2>2, <3>1, <3>3
  <2>5. QED
    BY <2>3, <2>4
<1>4. ASSUME NEW u \in K \ {a}
      PROVE  th2[u].back \in K /\ th2[u].back < u /\ th2[th2[u].back].next = u
  <2>1. CASE u = n
    BY <1>0, <2>1
  <2>2. CASE u # n
    <3>1. th2[u].back = th[u].back
      BY <2>2
    <3>2. th[u].back \in L /\ th[u].back < u /\ th[th[u].back].next = u
      BY DEF List
    <3>3. th[u].back # t /\ th[u].back # b
      BY <1>0, <2>2, <3>2
    <3>4. th2[th[u].back].next = th[th[u].back].next
      BY <3>2, <3>3
    <3>5. QED
      BY <3>1, <3>2, <3>3, <3>4
  <2>3. QED
    BY <2>1, <2>2
<1>5. th2[a].back \in K => th2[a].back \in {a, z}
  BY <1>0 DEF List
<1>6. th2[z].next \in K => th2[z].next = a
  BY <1>0 DEF List
<1>7. a \in K /\ z \in K
  BY <1>0
<1>8. QED
  BY <1>1, <1>3, <1>4, <1>5, <1>6, <1>7 DEF List

-----------------------------------------------------------------------------
(* The state.                                                               *)

LEMMA LiveFacts ==
  ASSUME PrTypeOK, LinksInside, NEW p \in PrProcs
  PROVE  /\ Live(p) \subseteq Of(p) /\ Of(p) \subseteq 1..made /\ Of(p) \subseteq Entries
         /\ IsFiniteSet(Live(p)) /\ Cardinality(Live(p)) \in Nat
         /\ Live(p) \in SUBSET Nat
         /\ Cardinality(Live(p)) = 0 <=> Live(p) = {}
<1>1. Live(p) \subseteq Of(p) /\ Of(p) \subseteq Entries /\ Entries \subseteq Nat
  BY DEF Live, Of, Entries
<1>2. Of(p) \subseteq 1..made
  BY NobodyAssumption DEF LinksInside, Of, PrTypeOK, Entries
<1>3. IsFiniteSet(Entries)
  BY PrAssumption, FS_Interval DEF Entries
<1>4. IsFiniteSet(Live(p))
  BY <1>1, <1>3, FS_Subset
<1>5. QED
  BY <1>1, <1>2, <1>4, FS_CardinalityType, FS_EmptySet

LEMMA PrInvInit == PrInit => PrInv
<1> SUFFICES ASSUME PrInit PROVE PrInv
  OBVIOUS
<1> USE PrAssumption
<1>1. PrTypeOK
  BY DEF PrInit, PrTypeOK, ProcRecord, ThreadRecord, NoDelete
<1>2. LinksInside
  BY NobodyAssumption DEF PrInit, LinksInside, Of, Entries
<1>3. \A p \in PrProcs : Live(p) = {}
  BY DEF PrInit, Live
<1>4. Counted
  BY <1>3, FS_EmptySet DEF PrInit, Counted
<1>5. Lists
  BY <1>3 DEF Lists
<1>6. WalkInside
  BY DEF PrInit, WalkInside
<1>7. QED
  BY <1>1, <1>2, <1>4, <1>5, <1>6 DEF PrInv

-----------------------------------------------------------------------------
(* Unlinking a live entry.                                                  *)

LEMMA Dies ==
  ASSUME NEW r \in ThreadRecord
  PROVE  /\ [r EXCEPT !.alive = FALSE] \in ThreadRecord
         /\ [r EXCEPT !.alive = FALSE].proc = r.proc
         /\ [r EXCEPT !.alive = FALSE].next = r.next
         /\ [r EXCEPT !.alive = FALSE].back = r.back
         /\ ~ [r EXCEPT !.alive = FALSE].alive
<1>1. [r EXCEPT !.alive = FALSE] \in ThreadRecord
  BY DEF ThreadRecord
<1>2. /\ [r EXCEPT !.alive = FALSE].proc = r.proc
      /\ [r EXCEPT !.alive = FALSE].next = r.next
      /\ [r EXCEPT !.alive = FALSE].back = r.back
  BY DEF ThreadRecord
<1>3. "alive" \in DOMAIN r
  BY DEF ThreadRecord
<1>4. [r EXCEPT !.alive = FALSE].alive = FALSE
  BY <1>3, Zenon
<1>5. QED
  BY <1>1, <1>2, <1>4

LEMMA UnlinkEffect ==
  ASSUME PrTypeOK, LinksInside, NEW p \in PrProcs, NEW t \in Live(p), Unlink(t)
  PROVE  /\ proc' \in [PrProcs -> ProcRecord] /\ thread' \in [Entries -> ThreadRecord]
         /\ thread[t].next \in Of(p) /\ thread[t].back \in Of(p)
         /\ \A u \in Entries :
              /\ thread'[u].proc = thread[u].proc
              /\ thread'[u].alive <=> thread[u].alive /\ u # t
              /\ thread'[u].next = IF u = thread[t].back THEN thread[t].next
                                   ELSE thread[u].next
              /\ thread'[u].back = IF u = thread[t].next THEN thread[t].back
                                   ELSE thread[u].back
         /\ \A q \in PrProcs : q # p => proc'[q] = proc[q]
         /\ proc'[p].total = proc[p].total - 1
         /\ proc'[p].open = proc[p].open /\ proc'[p].regrown = proc[p].regrown
         /\ proc'[p].first = IF t = proc[p].first THEN thread[t].next ELSE proc[p].first
         /\ proc'[p].last = IF t # proc[p].first /\ t = proc[p].last THEN thread[t].back
                            ELSE proc[p].last
<1> DEFINE nx == thread[t].next
           bk == thread[t].back
           forth == [thread EXCEPT ![bk].next = nx]
           turned == [forth EXCEPT ![nx].back = bk]
<1>0. t \in Entries /\ thread[t].proc = p /\ t <= made
  <2>1. t \in Entries /\ thread[t].proc = p
    BY DEF Live
  <2>2. t \in 1..made
    BY <2>1, LiveFacts
  <2>3. QED
    BY <2>1, <2>2
<1>1. /\ t \in Entries /\ thread[t].proc = p
      /\ nx \in Of(p) /\ bk \in Of(p) /\ nx \in Entries /\ bk \in Entries
  BY <1>0 DEF Of, LinksInside
<1>2. thread \in [Entries -> ThreadRecord] /\ proc \in [PrProcs -> ProcRecord]
  BY DEF PrTypeOK
<1>3. /\ forth \in [Entries -> ThreadRecord]
      /\ \A u \in Entries : /\ forth[u].proc = thread[u].proc
                            /\ forth[u].alive = thread[u].alive
                            /\ forth[u].back = thread[u].back
                            /\ forth[u].next = IF u = bk THEN nx ELSE thread[u].next
  BY <1>1, <1>2 DEF ThreadRecord
<1>4. thread' = [forth EXCEPT ![nx].back = bk, ![t].alive = FALSE]
  BY DEF Unlink
<1> HIDE DEF forth
<1>5. /\ turned \in [Entries -> ThreadRecord]
      /\ \A u \in Entries : /\ turned[u].proc = thread[u].proc
                            /\ turned[u].alive = thread[u].alive
                            /\ turned[u].back = IF u = nx THEN bk ELSE thread[u].back
                            /\ turned[u].next = IF u = bk THEN nx ELSE thread[u].next
  BY <1>1, <1>3 DEF ThreadRecord
<1>6. thread' = [turned EXCEPT ![t].alive = FALSE]
  BY <1>4
<1> HIDE DEF turned
<1>u. thread' = [turned EXCEPT ![t] = [turned[t] EXCEPT !.alive = FALSE]]
  BY <1>6
<1>v. /\ [turned[t] EXCEPT !.alive = FALSE] \in ThreadRecord
      /\ [turned[t] EXCEPT !.alive = FALSE].proc = turned[t].proc
      /\ [turned[t] EXCEPT !.alive = FALSE].next = turned[t].next
      /\ [turned[t] EXCEPT !.alive = FALSE].back = turned[t].back
      /\ ~ [turned[t] EXCEPT !.alive = FALSE].alive
  BY <1>1, <1>5, Dies
<1>w. /\ thread' \in [Entries -> ThreadRecord]
      /\ \A u \in Entries : /\ thread'[u].proc = turned[u].proc
                            /\ thread'[u].alive <=> turned[u].alive /\ u # t
                            /\ thread'[u].back = turned[u].back
                            /\ thread'[u].next = turned[u].next
  BY <1>1, <1>5, <1>u, <1>v
<1>7. /\ thread' \in [Entries -> ThreadRecord]
      /\ \A u \in Entries : /\ thread'[u].proc = thread[u].proc
                            /\ thread'[u].alive <=> thread[u].alive /\ u # t
                            /\ thread'[u].back = IF u = nx THEN bk ELSE thread[u].back
                            /\ thread'[u].next = IF u = bk THEN nx ELSE thread[u].next
  BY <1>5, <1>w
<1> DEFINE r == [proc[p] EXCEPT !.total = @ - 1,
                                !.first = IF t = proc[p].first THEN nx ELSE @,
                                !.last = IF t # proc[p].first /\ t = @ THEN bk ELSE @]
<1>8. proc' = [proc EXCEPT ![p] = r]
  BY <1>1 DEF Unlink
<1>f. /\ proc[p] \in ProcRecord /\ proc[p].total - 1 \in Int
      /\ (IF t = proc[p].first THEN nx ELSE proc[p].first) \in Entries \cup {Null}
      /\ (IF t # proc[p].first /\ t = proc[p].last THEN bk ELSE proc[p].last)
           \in Entries \cup {Null}
  BY <1>1, <1>2 DEF ProcRecord
<1>9. /\ r \in ProcRecord /\ r.total = proc[p].total - 1
      /\ r.open = proc[p].open /\ r.regrown = proc[p].regrown
      /\ r.first = IF t = proc[p].first THEN nx ELSE proc[p].first
      /\ r.last = IF t # proc[p].first /\ t = proc[p].last THEN bk ELSE proc[p].last
  BY <1>f DEF ProcRecord
<1> HIDE DEF r
<1>10. /\ proc' \in [PrProcs -> ProcRecord] /\ proc'[p] = r
       /\ \A q \in PrProcs : q # p => proc'[q] = proc[q]
  BY <1>2, <1>8, <1>9
<1>11. QED
  BY <1>1, <1>7, <1>9, <1>10

LEMMA UnlinkKeeps ==
  ASSUME PrTypeOK, LinksInside, Counted, Lists, NEW p \in PrProcs, NEW t \in Live(p),
         Unlink(t), made' = made
  PROVE  /\ LinksInside' /\ Counted' /\ Lists'
         /\ Live(p)' = Live(p) \ {t}
<1>0. /\ \A q \in PrProcs : Of(q)' = Of(q)
      /\ \A q \in PrProcs : q # p => Live(q)' = Live(q)
      /\ Live(p)' = Live(p) \ {t}
      /\ t \in Of(p) /\ t \in Entries
  BY UnlinkEffect DEF Of, Live
<1>1. LinksInside'
  <2>1. ASSUME NEW u \in Entries, u > made'
        PROVE  thread'[u].proc = Nobody /\ ~ thread'[u].alive
    BY <2>1, UnlinkEffect DEF LinksInside
  <2>2. ASSUME NEW u \in Entries, u <= made'
        PROVE  /\ thread'[u].proc \in PrProcs
               /\ thread'[u].next \in Of(thread[u].proc)
               /\ thread'[u].back \in Of(thread[u].proc)
               /\ Of(thread[u].proc)' = Of(thread[u].proc)
    <3>1. /\ thread'[u].proc = thread[u].proc /\ thread[u].proc \in PrProcs
          /\ thread[u].next \in Of(thread[u].proc) /\ thread[u].back \in Of(thread[u].proc)
      BY <2>2, UnlinkEffect DEF LinksInside
    <3>2. Of(thread[u].proc)' = Of(thread[u].proc)
      BY UnlinkEffect DEF Of
    <3>3. u = thread[t].back \/ u = thread[t].next => thread[u].proc = p
      BY UnlinkEffect DEF Of
    <3>4. QED
      BY <3>1, <3>2, <3>3, UnlinkEffect
  <2>3. ASSUME NEW q \in PrProcs, Of(q)' # {}
        PROVE  proc'[q].first \in Of(q)' /\ proc'[q].last \in Of(q)'
    <3>1. proc[q].first \in Of(q) /\ proc[q].last \in Of(q)
      BY <1>0, <2>3 DEF LinksInside
    <3>2. QED
      BY <1>0, <3>1, UnlinkEffect
  <2>4. ASSUME NEW u \in Entries, u <= made'
        PROVE  /\ thread'[u].next \in Entries /\ thread'[thread'[u].next].proc = thread'[u].proc
               /\ thread'[u].back \in Entries /\ thread'[thread'[u].back].proc = thread'[u].proc
    BY <2>2, <2>4, UnlinkEffect DEF Of
  <2>5. QED
    BY <2>1, <2>2, <2>3, <2>4 DEF LinksInside, Of
<1>2. Counted'
  <2> SUFFICES ASSUME NEW q \in PrProcs PROVE proc'[q].total = Cardinality(Live(q)')
    BY DEF Counted
  <2>1. CASE q = p
    <3>1. Cardinality(Live(p) \ {t}) = Cardinality(Live(p)) - 1
      BY LiveFacts, FS_RemoveElement
    <3>2. /\ proc'[p].total = proc[p].total - 1 /\ proc[p].total = Cardinality(Live(p))
          /\ Live(p)' = Live(p) \ {t}
      BY <1>0, UnlinkEffect DEF Counted
    <3>3. QED
      BY <2>1, <3>1, <3>2
  <2>2. CASE q # p
    BY <1>0, <2>2, UnlinkEffect DEF Counted
  <2>3. QED
    BY <2>1, <2>2
<1>3. Lists'
  <2> SUFFICES ASSUME NEW q \in PrProcs, ~ proc'[q].regrown, Live(q)' # {}
               PROVE  List(Live(q)', proc'[q].first, proc'[q].last, thread')
    BY DEF Lists
  <2>1. CASE q # p
    <3>1. /\ Live(q)' = Live(q) /\ proc'[q] = proc[q]
          /\ List(Live(q), proc[q].first, proc[q].last, thread)
      BY <1>0, <2>1, UnlinkEffect DEF Lists
    <3>2. \A u \in Live(q) : thread'[u].next = thread[u].next
                            /\ thread'[u].back = thread[u].back
      BY <2>1, UnlinkEffect DEF Live, Of
    <3>3. QED
      BY <3>1, <3>2 DEF List
  <2>2. CASE q = p
    <3> DEFINE L == Live(p)
               a == proc[p].first
               z == proc[p].last
    <3>1. List(L, a, z, thread) /\ L \in SUBSET Nat
      BY <2>2, <1>0, LiveFacts, UnlinkEffect DEF Lists
    <3>2. Unlinked(thread, thread', L, t)
      BY UnlinkEffect DEF Unlinked, Live
    <3>3. t # a \/ t # z
      <4>1. SUFFICES ASSUME t = a, t = z PROVE FALSE
        OBVIOUS
      <4>2. \A u \in L : u = t
        BY <3>1, <4>1 DEF List
      <4>3. QED
        BY <1>0, <2>2, <4>2
    <3>4. /\ proc'[p].first = IF t = a THEN thread[t].next ELSE a
          /\ proc'[p].last = IF t # a /\ t = z THEN thread[t].back ELSE z
      BY UnlinkEffect
    <3> HIDE DEF L, a, z
    <3>5. CASE t = a
      BY <1>0, <2>2, <3>1, <3>2, <3>3, <3>4, <3>5, UnlinkFirst DEF L
    <3>6. CASE t # a /\ t = z
      BY <1>0, <2>2, <3>1, <3>2, <3>4, <3>6, UnlinkLast DEF L
    <3>7. CASE t # a /\ t # z
      BY <1>0, <2>2, <3>1, <3>2, <3>4, <3>7, UnlinkMiddle DEF L
    <3>8. QED
      BY <3>5, <3>6, <3>7
  <2>3. QED
    BY <2>1, <2>2
<1>4. QED
  BY <1>0, <1>1, <1>2, <1>3

-----------------------------------------------------------------------------
(* A new thread.                                                            *)

LEMMA CreateEffect ==
  ASSUME PrTypeOK, LinksInside, Counted, NEW p \in PrProcs, create_task(p)
  PROVE  LET t == made + 1
         IN /\ t \in Entries /\ made' = t /\ t \notin Of(p) /\ t \notin Live(p)
            /\ proc' \in [PrProcs -> ProcRecord] /\ thread' \in [Entries -> ThreadRecord]
            /\ \A q \in PrProcs : q # p => proc'[q] = proc[q]
            /\ proc'[p].last = t /\ proc'[p].total = proc[p].total + 1
            /\ proc'[p].first = IF Live(p) = {} THEN t ELSE proc[p].first
            /\ proc'[p].regrown <=> proc[p].regrown \/ Regrows(p)
            /\ thread'[t].proc = p /\ thread'[t].alive
            /\ thread'[t].next = IF Live(p) = {} THEN t ELSE proc[p].first
            /\ thread'[t].back = IF Live(p) = {} THEN t ELSE proc[p].last
            /\ \A u \in Entries \ {t} :
                 /\ thread'[u].proc = thread[u].proc
                 /\ thread'[u].alive = thread[u].alive
                 /\ thread'[u].back = thread[u].back
                 /\ thread'[u].next = IF Live(p) # {} /\ u = proc[p].last THEN t
                                      ELSE thread[u].next
            /\ Live(p) # {} => proc[p].first \in Of(p) /\ proc[p].last \in Of(p)
<1> DEFINE t == made + 1
           empty == proc[p].total = 0
           new == [proc |-> p, alive |-> TRUE,
                   next |-> IF empty THEN t ELSE proc[p].first,
                   back |-> IF empty THEN t ELSE proc[p].last]
           r == [proc[p] EXCEPT !.first = IF empty THEN t ELSE @, !.last = t,
                                !.total = @ + 1, !.regrown = @ \/ Regrows(p)]
<1>1. t \in Entries /\ t \in Nat /\ made \in Nat /\ made' = t
  BY PrAssumption DEF create_task, PrTypeOK, Entries
<1>2. t \notin Of(p) /\ t \notin Live(p)
  BY <1>1, LiveFacts
<1>3. empty <=> Live(p) = {}
  BY LiveFacts DEF Counted
<1>4. Live(p) # {} => proc[p].first \in Of(p) /\ proc[p].last \in Of(p)
  BY LiveFacts DEF LinksInside
<1>5. /\ proc \in [PrProcs -> ProcRecord] /\ thread \in [Entries -> ThreadRecord]
      /\ proc[p].total + 1 \in Int /\ Of(p) \subseteq Entries /\ proc[p] \in ProcRecord
  BY LiveFacts DEF PrTypeOK, ProcRecord
<1>6. new \in ThreadRecord
  BY <1>1, <1>3, <1>4, <1>5 DEF ThreadRecord
<1>7. proc' = [proc EXCEPT ![p] = r]
  BY DEF create_task
<1>8. /\ r.first = IF empty THEN t ELSE proc[p].first
      /\ r.last = t /\ r.total = proc[p].total + 1
  BY <1>5 DEF ProcRecord
<1>9. r.regrown = (proc[p].regrown \/ Regrows(p))
  <2>1. DOMAIN proc[p] = {"first", "last", "total", "open", "regrown"}
    BY <1>5 DEF ProcRecord
  <2>2. QED
    BY <2>1, Zenon
<1>10. r \in ProcRecord
  <2>1. proc[p].regrown \in BOOLEAN
    BY <1>5 DEF ProcRecord
  <2>2. Regrows(p) \in BOOLEAN
    BY DEF Regrows
  <2> DEFINE g == proc[p].regrown \/ Regrows(p)
             f == IF empty THEN t ELSE proc[p].first
             n == proc[p].total + 1
  <2>3. g \in BOOLEAN /\ f \in Entries \cup {Null} /\ n \in Int
    BY <1>1, <1>5, <2>1, <2>2 DEF ProcRecord
  <2>4. r = [proc[p] EXCEPT !.first = f, !.last = t, !.total = n, !.regrown = g]
    OBVIOUS
  <2> HIDE DEF g, f, n, r
  <2>5. QED
    BY <1>1, <1>5, <2>3, <2>4 DEF ProcRecord
<1>11. thread' = [u \in Entries |->
                    IF u = t THEN new
                    ELSE IF ~ empty /\ u = proc[p].last
                         THEN [thread[u] EXCEPT !.next = t] ELSE thread[u]]
  BY DEF create_task
<1> HIDE DEF r
<1>12. /\ proc' \in [PrProcs -> ProcRecord] /\ proc'[p] = r
       /\ \A q \in PrProcs : q # p => proc'[q] = proc[q]
  BY <1>5, <1>7, <1>10
<1>13. thread'[t] = new
  BY <1>1, <1>11
<1>14. \A u \in Entries \ {t} :
         /\ thread'[u] \in ThreadRecord
         /\ thread'[u].proc = thread[u].proc
         /\ thread'[u].alive = thread[u].alive
         /\ thread'[u].back = thread[u].back
         /\ thread'[u].next = IF ~ empty /\ u = proc[p].last THEN t ELSE thread[u].next
  <2> SUFFICES ASSUME NEW u \in Entries \ {t}
               PROVE  /\ thread'[u] \in ThreadRecord
                      /\ thread'[u].proc = thread[u].proc
                      /\ thread'[u].alive = thread[u].alive
                      /\ thread'[u].back = thread[u].back
                      /\ thread'[u].next = IF ~ empty /\ u = proc[p].last THEN t
                                           ELSE thread[u].next
    OBVIOUS
  <2>1. thread[u] \in ThreadRecord
    BY <1>5
  <2>2. CASE ~ empty /\ u = proc[p].last
    <3>1. thread'[u] = [thread[u] EXCEPT !.next = t]
      BY <1>11, <2>2
    <3>2. QED
      BY <1>1, <2>1, <2>2, <3>1 DEF ThreadRecord
  <2>3. CASE ~ (~ empty /\ u = proc[p].last)
    BY <1>11, <2>1, <2>3
  <2>4. QED
    BY <2>2, <2>3
<1>15. thread' \in [Entries -> ThreadRecord]
  <2>1. \A u \in Entries : thread'[u] \in ThreadRecord
    BY <1>6, <1>13, <1>14
  <2> HIDE DEF new
  <2>2. QED
    BY <1>11, <2>1
<1>16. /\ new.proc = p /\ new.alive
       /\ new.next = IF empty THEN t ELSE proc[p].first
       /\ new.back = IF empty THEN t ELSE proc[p].last
  OBVIOUS
<1> HIDE DEF new, empty
<1>17. QED
  BY <1>1, <1>2, <1>3, <1>4, <1>8, <1>9, <1>12, <1>13, <1>14, <1>15, <1>16

(* A list with one more entry, which becomes the last one.                  *)
LEMMA ListGrows ==
  ASSUME NEW L \in SUBSET Nat, NEW a, NEW z, NEW th, NEW th2, NEW t \in Nat,
         List(L, a, z, th), \A u \in L : u < t,
         \A u \in L : th2[u].back = th[u].back
                    /\ th2[u].next = IF u = z THEN t ELSE th[u].next,
         th2[t].next = a, th2[t].back = z,
         th[a].back \notin L \ {a}, th[a].back # t
  PROVE  List(L \cup {t}, a, t, th2)
<1> DEFINE K == L \cup {t}
<1>0. a \in L /\ z \in L /\ a \in Nat /\ z \in Nat /\ a < t /\ z < t /\ t \notin L
  BY DEF List
<1>1. \A u \in K : a <= u /\ u <= t /\ u \in Nat
  BY <1>0 DEF List
<1>2. ASSUME NEW u \in K \ {t}
      PROVE  /\ th2[u].next \in K /\ u < th2[u].next
             /\ \A v \in K : v <= u \/ th2[u].next <= v
  <2>1. CASE u = z
    <3>1. th2[u].next = t
      BY <1>0, <2>1
    <3>2. \A v \in K : v <= z \/ v = t
      BY DEF List
    <3>3. QED
      BY <1>0, <2>1, <3>1, <3>2
  <2>2. CASE u # z
    <3>1. th2[u].next = th[u].next /\ u \in L
      BY <2>2
    <3>2. th[u].next \in L /\ u < th[u].next /\ (\A v \in L : v <= u \/ th[u].next <= v)
      BY <2>2, <3>1 DEF List
    <3>3. th[u].next < t /\ th[u].next \in Nat
      BY <3>2
    <3>4. \A v \in K : v <= u \/ th[u].next <= v
      BY <3>2, <3>3
    <3>5. QED
      BY <3>1, <3>2, <3>4
  <2>3. QED
    BY <2>1, <2>2
<1>3. ASSUME NEW u \in K \ {a}
      PROVE  th2[u].back \in K /\ th2[u].back < u /\ th2[th2[u].back].next = u
  <2>1. CASE u = t
    BY <1>0, <2>1
  <2>2. CASE u # t
    <3>1. th2[u].back = th[u].back /\ u \in L
      BY <2>2
    <3>2. th[u].back \in L /\ th[u].back < u /\ th[th[u].back].next = u
      BY <3>1 DEF List
    <3>3. th[u].back # z
      BY <1>0, <3>1, <3>2 DEF List
    <3>4. QED
      BY <3>1, <3>2, <3>3
  <2>3. QED
    BY <2>1, <2>2
<1>4. th2[a].back \in K => th2[a].back \in {a, t}
  BY <1>0
<1>5. QED
  BY <1>0, <1>1, <1>2, <1>3, <1>4 DEF List

LEMMA CreateKeeps ==
  ASSUME PrInv, NEW p \in PrProcs, create_task(p)
  PROVE  PrInv'
<1> DEFINE t == made + 1
<1>0. /\ PrTypeOK /\ LinksInside /\ Counted /\ Lists
      /\ deleting = NoDelete /\ deleting' = NoDelete /\ made < PrMax
  BY DEF PrInv, create_task
<1>1. /\ t \in Entries /\ made' = t /\ t \notin Of(p) /\ t \notin Live(p) /\ t \in Nat
      /\ \A u \in Entries : u <= t <=> u <= made \/ u = t
      /\ \A q \in PrProcs : t \notin Of(q)
  BY <1>0, CreateEffect, LiveFacts DEF Entries, PrTypeOK
<1>2. /\ Of(p)' = Of(p) \cup {t} /\ Live(p)' = Live(p) \cup {t}
      /\ \A q \in PrProcs : q # p => Of(q)' = Of(q) /\ Live(q)' = Live(q)
  BY <1>0, <1>1, CreateEffect DEF Of, Live
<1>3. PrTypeOK'
  BY <1>0, <1>1, CreateEffect DEF PrTypeOK, Entries
<1>4. LinksInside'
  <2>1. ASSUME NEW u \in Entries, u > made'
        PROVE  thread'[u].proc = Nobody /\ ~ thread'[u].alive
    <3>1. u > made /\ u # t
      BY <1>0, <1>1, <2>1 DEF Entries, PrTypeOK
    <3>2. QED
      BY <1>0, <1>1, <3>1, CreateEffect DEF LinksInside
  <2>2. ASSUME NEW u \in Entries, u <= made'
        PROVE  /\ thread'[u].proc \in PrProcs
               /\ thread'[u].next \in Of(thread'[u].proc) \cup {t}
               /\ thread'[u].back \in Of(thread'[u].proc) \cup {t}
               /\ thread'[u].next = t \/ thread'[u].back = t => thread'[u].proc = p
    <3>1. CASE u = t
      BY <1>0, <1>1, <3>1, CreateEffect
    <3>2. CASE u # t
      <4>1. /\ u <= made /\ thread'[u].proc = thread[u].proc /\ thread[u].proc \in PrProcs
            /\ thread[u].next \in Of(thread[u].proc) /\ thread[u].back \in Of(thread[u].proc)
        BY <1>0, <1>1, <2>2, <3>2, CreateEffect DEF LinksInside
      <4>2. thread[u].next # t /\ thread[u].back # t
        BY <1>1, <4>1
      <4>3. Live(p) # {} /\ u = proc[p].last => thread[u].proc = p
        BY <1>0, CreateEffect DEF Of
      <4>4. QED
        BY <1>0, <1>1, <3>2, <4>1, <4>2, <4>3, CreateEffect
    <3>3. QED
      BY <3>1, <3>2
  <2>3. ASSUME NEW u \in Entries, u <= made'
        PROVE  /\ thread'[u].next \in Entries /\ thread'[thread'[u].next].proc = thread'[u].proc
               /\ thread'[u].back \in Entries /\ thread'[thread'[u].back].proc = thread'[u].proc
    <3>1. \A v \in Entries : v # t => thread'[v].proc = thread[v].proc
      BY <1>0, <1>1, CreateEffect
    <3>2. thread'[t].proc = p
      BY <1>0, CreateEffect
    <3>3. QED
      BY <1>1, <2>2, <2>3, <3>1, <3>2 DEF Of
  <2>4. ASSUME NEW q \in PrProcs, Of(q)' # {}
        PROVE  proc'[q].first \in Of(q)' /\ proc'[q].last \in Of(q)'
    <3>1. CASE q = p
      BY <1>0, <1>1, <1>2, <3>1, CreateEffect
    <3>2. CASE q # p
      BY <1>0, <1>2, <2>4, <3>2, CreateEffect DEF LinksInside
    <3>3. QED
      BY <3>1, <3>2
  <2>5. QED
    BY <2>1, <2>2, <2>3, <2>4 DEF LinksInside, Of
<1>5. Counted'
  <2> SUFFICES ASSUME NEW q \in PrProcs PROVE proc'[q].total = Cardinality(Live(q)')
    BY DEF Counted
  <2>1. CASE q = p
    <3>1. Cardinality(Live(p) \cup {t}) = Cardinality(Live(p)) + 1
      BY <1>0, <1>1, LiveFacts, FS_AddElement
    <3>2. proc'[p].total = proc[p].total + 1 /\ proc[p].total = Cardinality(Live(p))
      BY <1>0, CreateEffect DEF Counted
    <3>3. QED
      BY <1>2, <2>1, <3>1, <3>2
  <2>2. CASE q # p
    BY <1>0, <1>2, <2>2, CreateEffect DEF Counted
  <2>3. QED
    BY <2>1, <2>2
<1>6. Lists'
  <2> SUFFICES ASSUME NEW q \in PrProcs, ~ proc'[q].regrown, Live(q)' # {}
               PROVE  List(Live(q)', proc'[q].first, proc'[q].last, thread')
    BY DEF Lists
  <2>1. CASE q # p
    <3>1. /\ Live(q)' = Live(q) /\ proc'[q] = proc[q]
          /\ List(Live(q), proc[q].first, proc[q].last, thread)
      BY <1>0, <1>2, <2>1, CreateEffect DEF Lists
    <3>2. \A u \in Live(q) : thread'[u].next = thread[u].next
                            /\ thread'[u].back = thread[u].back
      <4>1. \A u \in Live(q) : u \in Entries \ {t} /\ u \notin Of(p)
        BY <1>1, <2>1, <1>0, LiveFacts DEF Live, Of
      <4>2. QED
        BY <1>0, <4>1, CreateEffect
    <3>3. QED
      BY <3>1, <3>2 DEF List
  <2>2. CASE q = p /\ Live(p) = {}
    <3>1. /\ Live(q)' = {t} /\ proc'[q].first = t /\ proc'[q].last = t
          /\ thread'[t].next = t /\ thread'[t].back = t
      BY <1>0, <1>2, <2>2, CreateEffect
    <3>2. QED
      BY <1>1, <3>1 DEF List
  <2>3. CASE q = p /\ Live(p) # {}
    <3> DEFINE L == Live(p)
               a == proc[p].first
               z == proc[p].last
    <3>1. ~ proc[p].regrown /\ ~ Regrows(p)
      BY <1>0, <2>3, CreateEffect
    <3>2. List(L, a, z, thread) /\ L \in SUBSET Nat
      BY <1>0, <2>3, <3>1, LiveFacts DEF Lists
    <3>3. thread[a].back \notin L \ {a}
      <4>1. proc[p].total # 0
        BY <1>0, <2>3, LiveFacts DEF Counted
      <4>2. QED
        BY <3>1, <4>1 DEF Regrows
    <3>4. thread[a].back # t
      <4>1. a \in Of(p)
        BY <1>0, <2>3, CreateEffect
      <4>2. a \in Entries /\ a <= made /\ thread[a].proc = p
        BY <1>0, <4>1, LiveFacts DEF Of
      <4>3. thread[a].back \in Of(p)
        BY <1>0, <4>2 DEF LinksInside
      <4>4. QED
        BY <1>1, <4>3
    <3>5. \A u \in L : u < t
      BY <1>0, LiveFacts DEF PrTypeOK
    <3>6. /\ thread'[t].next = a /\ thread'[t].back = z
          /\ proc'[p].first = a /\ proc'[p].last = t /\ Live(p)' = L \cup {t}
      BY <1>0, <1>2, <2>3, CreateEffect
    <3>7. \A u \in L : /\ thread'[u].back = thread[u].back
                       /\ thread'[u].next = IF u = z THEN t ELSE thread[u].next
      <4>1. \A u \in L : u \in Entries \ {t}
        BY <1>1 DEF Live
      <4>2. QED
        BY <1>0, <2>3, <4>1, CreateEffect
    <3> HIDE DEF L, a, z, t
    <3>8. List(L \cup {t}, a, t, thread')
      BY <1>1, <3>2, <3>3, <3>4, <3>5, <3>6, <3>7, ListGrows
    <3>9. QED
      BY <2>3, <3>6, <3>8
  <2>4. QED
    BY <2>1, <2>2, <2>3
<1>7. WalkInside'
  BY <1>0 DEF WalkInside
<1>8. QED
  BY <1>3, <1>4, <1>5, <1>6, <1>7 DEF PrInv

-----------------------------------------------------------------------------
(* The other steps.                                                         *)

LEMMA OpenKeeps ==
  ASSUME PrInv, NEW p \in PrProcs, create_process(p)
  PROVE  PrInv'
<1>1. /\ PrTypeOK /\ LinksInside /\ Counted /\ Lists /\ WalkInside
      /\ UNCHANGED <<thread, made, deleting>> /\ deleting = NoDelete
      /\ proc' = [proc EXCEPT ![p].open = TRUE]
  BY DEF PrInv, create_process
<1>2. /\ proc' \in [PrProcs -> ProcRecord]
      /\ \A q \in PrProcs : /\ proc'[q].first = proc[q].first /\ proc'[q].last = proc[q].last
                            /\ proc'[q].total = proc[q].total
                            /\ proc'[q].regrown = proc[q].regrown
  BY <1>1 DEF PrTypeOK, ProcRecord
<1>3. /\ PrTypeOK' /\ LinksInside' /\ Counted' /\ WalkInside'
  BY <1>1, <1>2 DEF PrTypeOK, LinksInside, Counted, WalkInside, Of, Live
<1>4. Lists'
  BY <1>1, <1>2 DEF Lists, Live
<1>5. QED
  BY <1>3, <1>4 DEF PrInv

LEMMA KillKeeps ==
  ASSUME PrInv, NEW t \in Entries, Kill(t)
  PROVE  PrInv'
<1>1. /\ PrTypeOK /\ LinksInside /\ Counted /\ Lists
      /\ UNCHANGED <<made, deleting>> /\ deleting = NoDelete
      /\ Unlink(t) /\ thread[t].alive
  BY DEF PrInv, Kill
<1>2. thread[t].proc \in PrProcs /\ t \in Live(thread[t].proc)
  BY <1>1 DEF LinksInside, Live, PrTypeOK, Entries
<1>3. LinksInside' /\ Counted' /\ Lists'
  BY <1>1, <1>2, UnlinkKeeps
<1>4. PrTypeOK'
  BY <1>1, <1>2, UnlinkEffect DEF PrTypeOK
<1>5. WalkInside'
  BY <1>1 DEF WalkInside
<1>6. QED
  BY <1>3, <1>4, <1>5 DEF PrInv

LEMMA DeleteKeeps ==
  ASSUME PrInv, NEW p \in PrProcs, Delete_Process(p)
  PROVE  PrInv'
<1>1. /\ PrTypeOK /\ LinksInside /\ Counted /\ Lists
      /\ UNCHANGED <<proc, thread, made>> /\ ~ proc[p].regrown
      /\ deleting' = [proc |-> p, i |-> 0, tmp |-> proc[p].first]
  BY DEF PrInv, Delete_Process
<1>2. PrTypeOK'
  BY <1>1 DEF PrTypeOK, ProcRecord
<1>3. LinksInside' /\ Counted' /\ Lists'
  BY <1>1 DEF LinksInside, Counted, Lists, Of, Live
<1>4. WalkInside'
  <2>1. CASE Live(p) = {}
    <3>1. proc[p].total = 0
      BY <1>1, <2>1, LiveFacts DEF Counted
    <3>2. QED
      BY <1>1, <3>1 DEF WalkInside
  <2>2. CASE Live(p) # {}
    <3>1. proc[p].first \in Live(p) /\ \A u \in Live(p) : proc[p].first <= u
      BY <1>1, <2>2 DEF Lists, List
    <3>2. Before(p, proc[p].first) = {}
      BY <1>1, <3>1, LiveFacts DEF Before
    <3>3. Cardinality(Before(p, proc[p].first)) <= 0
      BY <3>2, FS_EmptySet
    <3>4. Live(p)' = Live(p) /\ Before(p, proc[p].first)' = Before(p, proc[p].first)
      BY <1>1 DEF Live, Before
    <3>5. QED
      BY <1>1, <3>1, <3>3, <3>4 DEF WalkInside, Before, Live
  <2>3. QED
    BY <2>1, <2>2
<1>5. QED
  BY <1>2, <1>3, <1>4 DEF PrInv

(* One round of the walk: t is behind it now.                               *)
LEMMA WalkStep ==
  ASSUME NEW L \in SUBSET Nat, IsFiniteSet(L), NEW a, NEW z, NEW th, List(L, a, z, th),
         NEW t \in L, NEW i \in Nat, Cardinality({u \in L : u < t}) <= i,
         NEW K, K \in {L, L \ {t}}
  PROVE  \/ Cardinality(K) <= i + 1
         \/ th[t].next \in K /\ Cardinality({u \in K : u < th[t].next}) <= i + 1
<1> DEFINE S == {u \in L : u < t}
<1>1. IsFiniteSet(S) /\ Cardinality(S) \in Nat /\ t \notin S /\ Cardinality(S) <= i
  <2>1. S \subseteq L /\ t \notin S
    OBVIOUS
  <2>2. QED
    BY <2>1, FS_Subset, FS_CardinalityType
<1>2. \A u \in L : u \in S \/ u = t \/ t < u
  OBVIOUS
<1>3. /\ K \subseteq L /\ t \in Nat
      /\ \A u \in L : u \in Nat
      /\ \A u \in L \ {t} : u \in K
  OBVIOUS
<1> HIDE DEF S
<1>4. /\ IsFiniteSet(S \cup {t}) /\ Cardinality(S \cup {t}) = Cardinality(S) + 1
  BY <1>1, FS_AddElement
<1>5. ASSUME NEW U \in SUBSET (S \cup {t})
      PROVE  Cardinality(U) <= i + 1
  <2>1. IsFiniteSet(U) /\ Cardinality(U) <= Cardinality(S \cup {t})
    BY <1>4, FS_Subset
  <2>2. Cardinality(U) \in Nat
    BY <2>1, FS_CardinalityType
  <2>3. QED
    BY <1>1, <1>4, <2>1, <2>2
<1>6. CASE t = z
  <2>1. \A u \in L : u <= t
    BY <1>6 DEF List
  <2>2. K \subseteq S \cup {t}
    BY <1>2, <1>3, <2>1
  <2>3. QED
    BY <1>5, <2>2
<1>7. CASE t # z
  <2> DEFINE n == th[t].next
  <2>1. n \in L /\ t < n /\ \A u \in L : u <= t \/ n <= u
    BY <1>7 DEF List
  <2> HIDE DEF n
  <2>2. ASSUME NEW u \in K, u < n
        PROVE  u \in S \cup {t}
    <3>1. u \in L /\ u \in Nat /\ n \in Nat
      BY <1>3, <2>1
    <3>2. u <= t
      BY <2>1, <2>2, <3>1
    <3>3. QED
      BY <1>2, <1>3, <3>1, <3>2
  <2>3. n \in K
    BY <1>3, <2>1
  <2>4. QED
    <3>1. {u \in K : u < n} \subseteq S \cup {t}
      BY <2>2
    <3>2. QED
      BY <1>5, <2>3, <3>1 DEF n
<1>8. QED
  BY <1>6, <1>7

(* The walk alone moves.                                                    *)
LEMMA ListsStay ==
  ASSUME PrInv, UNCHANGED <<proc, thread, made>>
  PROVE  /\ LinksInside' /\ Counted' /\ Lists'
         /\ proc' \in [PrProcs -> ProcRecord] /\ thread' \in [Entries -> ThreadRecord]
         /\ made' \in 0..PrMax
         /\ \A q \in PrProcs : Live(q)' = Live(q)
<1>1. \A q \in PrProcs : Live(q)' = Live(q) /\ Of(q)' = Of(q)
  BY DEF Live, Of
<1>2. LinksInside'
  BY DEF PrInv, LinksInside, Of
<1>3. Counted'
  BY <1>1 DEF PrInv, Counted
<1>4. Lists'
  BY <1>1 DEF PrInv, Lists
<1>5. QED
  BY <1>1, <1>2, <1>3, <1>4 DEF PrInv, PrTypeOK

LEMMA DeleteThreadKeeps ==
  ASSUME PrInv, DeleteThread,
         NEW p, NEW t, NEW i, p = deleting.proc, t = deleting.tmp, i = deleting.i
  PROVE  PrInv'
<1>1. /\ PrTypeOK /\ LinksInside /\ Counted /\ Lists /\ WalkInside /\ made' = made
      /\ deleting # NoDelete /\ i < proc[p].total /\ i \in Nat
      /\ deleting' = [deleting EXCEPT !.i = @ + 1, !.tmp = thread[t].next]
      /\ Unlink(t) \/ UNCHANGED <<proc, thread>>
  BY DEF PrInv, DeleteThread, PrTypeOK
<1>2. p \in PrProcs /\ ~ proc[p].regrown
  BY <1>1 DEF WalkInside
<1>3. t \in Live(p) /\ Cardinality(Before(p, t)) <= i
  <2>1. proc[p].total \in Nat
    BY <1>1, <1>2, LiveFacts DEF Counted
  <2>2. QED
    BY <1>1, <2>1 DEF WalkInside
<1>4. thread[t].next \in Entries
  <2>1. t \in Entries /\ thread[t].proc = p
    BY <1>3 DEF Live
  <2>2. t \in 1..made
    BY <1>1, <1>2, <1>3, LiveFacts
  <2>3. thread[t].next \in Of(thread[t].proc)
    BY <1>1, <2>1, <2>2 DEF LinksInside
  <2>4. QED
    BY <2>3 DEF Of
<1>5. /\ deleting' \in [proc : PrProcs \cup {Nobody}, i : Nat, tmp : Entries \cup {Null}]
      /\ deleting'.proc = p /\ deleting'.i = i + 1 /\ deleting'.tmp = thread[t].next
  <2>1. deleting \in [proc : PrProcs \cup {Nobody}, i : Nat, tmp : Entries \cup {Null}]
    BY <1>1 DEF PrTypeOK
  <2>2. i + 1 \in Nat
    BY <1>1
  <2>3. QED
    BY <1>1, <1>4, <2>1, <2>2
<1>6. /\ LinksInside' /\ Counted' /\ Lists'
      /\ proc' \in [PrProcs -> ProcRecord] /\ thread' \in [Entries -> ThreadRecord]
      /\ proc'[p].regrown = proc[p].regrown
      /\ Live(p)' \in {Live(p), Live(p) \ {t}}
  <2>1. CASE Unlink(t)
    BY <1>1, <1>2, <1>3, <2>1, UnlinkKeeps, UnlinkEffect
  <2>2. CASE UNCHANGED <<proc, thread>>
    BY <1>1, <1>2, <2>2, ListsStay
  <2>3. QED
    BY <1>1, <2>1, <2>2
<1>7. PrTypeOK'
  BY <1>1, <1>5, <1>6 DEF PrTypeOK
<1>8. WalkInside'
  <2>1. List(Live(p), proc[p].first, proc[p].last, thread)
    BY <1>1, <1>2, <1>3 DEF Lists
  <2>2. /\ Live(p) \in SUBSET Nat /\ IsFiniteSet(Live(p))
        /\ Cardinality({u \in Live(p) : u < t}) <= i
    BY <1>1, <1>2, <1>3, LiveFacts DEF Before
  <2>3. PICK K : K = Live(p)'
    OBVIOUS
  <2>4. PICK n : n = thread[t].next
    OBVIOUS
  <2>5. \/ Cardinality(K) <= i + 1
        \/ n \in K /\ Cardinality({u \in K : u < n}) <= i + 1
    <3>1. K \in {Live(p), Live(p) \ {t}}
      BY <1>6, <2>3
    <3>2. \/ Cardinality(K) <= i + 1
          \/ /\ thread[t].next \in K
             /\ Cardinality({u \in K : u < thread[t].next}) <= i + 1
      BY <1>1, <1>3, <2>1, <2>2, <3>1, WalkStep
    <3>3. QED
      BY <2>4, <3>2
  <2>6. proc'[p].total = Cardinality(K) /\ ~ proc'[p].regrown
    BY <1>2, <1>6, <2>3 DEF Counted
  <2>7. /\ deleting'.proc = p /\ deleting'.i = i + 1 /\ deleting'.tmp = n
    BY <1>5, <2>4
  <2>8. Before(p, n)' = {u \in K : u < n}
    BY <2>3 DEF Before
  <2>9. QED
    BY <1>2, <2>3, <2>5, <2>6, <2>7, <2>8 DEF WalkInside
<1>9. QED
  BY <1>6, <1>7, <1>8 DEF PrInv

LEMMA DeleteEndKeeps ==
  ASSUME PrInv, DeleteEnd
  PROVE  PrInv'
<1> DEFINE p == deleting.proc
<1>1. /\ PrTypeOK /\ LinksInside /\ Counted /\ Lists /\ p \in PrProcs
      /\ UNCHANGED <<thread, made>> /\ deleting' = NoDelete
      /\ proc' = [proc EXCEPT ![p].open = FALSE]
  BY DEF PrInv, DeleteEnd, WalkInside
<1>2. /\ proc' \in [PrProcs -> ProcRecord]
      /\ \A q \in PrProcs : /\ proc'[q].first = proc[q].first /\ proc'[q].last = proc[q].last
                            /\ proc'[q].total = proc[q].total
                            /\ proc'[q].regrown = proc[q].regrown
  <2>1. proc \in [PrProcs -> ProcRecord]
    BY <1>1 DEF PrTypeOK
  <2>2. proc[p] \in ProcRecord /\ [proc[p] EXCEPT !.open = FALSE] \in ProcRecord
    BY <1>1, <2>1 DEF ProcRecord
  <2>3. \A q \in PrProcs : proc'[q] = IF q = p THEN [proc[p] EXCEPT !.open = FALSE] ELSE proc[q]
    BY <1>1, <2>1
  <2>4. proc' \in [PrProcs -> ProcRecord]
    BY <1>1, <2>1, <2>2
  <2>5. QED
    BY <2>2, <2>3, <2>4 DEF ProcRecord
<1>3. PrTypeOK'
  <2>1. deleting' \in [proc : PrProcs \cup {Nobody}, i : Nat, tmp : Entries \cup {Null}]
    BY <1>1 DEF NoDelete
  <2>2. thread' \in [Entries -> ThreadRecord] /\ made' \in 0..PrMax
    BY <1>1 DEF PrTypeOK
  <2>3. QED
    BY <1>2, <2>1, <2>2 DEF PrTypeOK
<1>4. LinksInside'
  BY <1>1, <1>2 DEF LinksInside, Of
<1>5. Counted' /\ WalkInside'
  BY <1>1, <1>2 DEF Counted, WalkInside, Live
<1>6. Lists'
  <2>1. \A q \in PrProcs : Live(q)' = Live(q)
    BY <1>1 DEF Live
  <2>2. \A q \in PrProcs : /\ proc'[q].regrown = proc[q].regrown
                           /\ proc'[q].first = proc[q].first /\ proc'[q].last = proc[q].last
    BY <1>2
  <2>3. Lists /\ UNCHANGED thread
    BY <1>1
  <2>4. QED
    BY <2>1, <2>2, <2>3 DEF Lists
<1>7. QED
  BY <1>3, <1>4, <1>5, <1>6 DEF PrInv

-----------------------------------------------------------------------------
(* Both links, the ends, the number and the walk of Delete_Process are as   *)
(* they should be.                                                          *)
THEOREM PrInvariant == PrSpec => []PrInv
<1>1. PrInv /\ [PrNext]_prVars => PrInv'
  <2> SUFFICES ASSUME PrInv, [PrNext]_prVars PROVE PrInv'
    OBVIOUS
  <2>1. CASE UNCHANGED prVars
    <3>1. UNCHANGED <<proc, thread, made, deleting>>
      BY <2>1 DEF prVars
    <3>2. PrTypeOK' /\ LinksInside' /\ Counted' /\ Lists'
      BY <3>1, ListsStay DEF PrInv, PrTypeOK
    <3>3. WalkInside'
      BY <3>1 DEF PrInv, WalkInside, Before, Live
    <3>4. QED
      BY <3>2, <3>3 DEF PrInv
  <2>2. QED
    BY <2>1, OpenKeeps, CreateKeeps, KillKeeps, DeleteKeeps, DeleteThreadKeeps,
       DeleteEndKeeps DEF PrNext
<1>2. QED
  BY <1>1, PrInvInit, PTL DEF PrSpec

(* The walk of Delete_Process over `next' meets the live threads of a       *)
(* process in the order in which create_task made them, total_tasks of      *)
(* them, until the list has grown behind a stale link.                      *)
THEOREM PrWalkHolds == PrSpec => []PrWalk
<1>1. PrInv => PrWalk
  BY DEF PrInv, PrWalk, Counted, Lists, List
<1>2. QED
  BY <1>1, PrInvariant, PTL
=============================================================================
