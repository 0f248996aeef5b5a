----------------------------- MODULE CoresProofs -----------------------------
(* Proofs about what cores do to each other: the packet lists (Ipc) and the *)
(* start of the other cores (ApBoot).                                       *)
EXTENDS Ipc, ApBoot, TLAPS

(***************************************************************************)
(* Ipc: the packets of a list are carried out in the order in which they   *)
(* got into it, each of them once, for every number of senders and of      *)
(* packets, although the lock of the list keeps nobody out.                *)
(***************************************************************************)

SendPcs == {"idle", "test", "set", "empty", "start", "link", "store", "last",
            "end", "read", "count", "unlock"}
ReceivePcs == {"entries", "load", "test", "set", "execute", "advance", "store",
               "read", "count", "unlock", "wild"}

SenderTyped ==
  /\ sender \in [IpcSenders ->
       [pc : SendPcs, k : Nat, last : Packets \cup {NULL}, read : Nat]]
  /\ \A s \in IpcSenders : sender[s].pc # "idle" => sender[s].k \in 1..IpcEach[s]

RecordTyped ==
  record \in [start : Packets \cup {NULL}, last : Packets \cup {NULL},
             entries : Nat, lock : {0, 1}]

(* The types of the state.                                                  *)
IpcTypeOK ==
  /\ RecordTyped /\ SenderTyped
  /\ nextOf \in [Packets -> Packets \cup {NULL}]
  /\ receiver \in [pc : ReceivePcs, pp : Packets \cup {NULL}, next : Packets \cup {NULL},
                   read : Nat]
  /\ receiver.pc \in {"advance", "store"} => receiver.pp # NULL
  /\ executed \in Seq(Packets)
  /\ linked \in [clock : Nat, stamp : [Packets -> Nat]]

Stamp(p) == linked.stamp[p]
IsLinked(p) == 0 < Stamp(p)

(* A packet gets its stamp when it is linked, and not before.               *)
NotYetLinked ==
  \A s \in IpcSenders : \A k \in 1..IpcEach[s] :
    \/ k > sender[s].k
    \/ k = sender[s].k /\ sender[s].pc \in {"test", "set", "empty", "start", "link", "store"}
    => Stamp(<<s, k>>) = 0

LinkedByNow ==
  /\ \A p \in Packets : Stamp(p) <= linked.clock
  /\ \A s \in IpcSenders : sender[s].pc = "last" => IsLinked(Own(s))

(* Whatever can be reached is linked, and `next' leads to later packets.    *)
LinksAscend ==
  /\ record.start # NULL => IsLinked(record.start)
  /\ record.last # NULL => IsLinked(record.last)
  /\ receiver.pp # NULL => IsLinked(receiver.pp)
  /\ \A i \in DOMAIN executed : IsLinked(executed[i])
  /\ \A p \in Packets : nextOf[p] # NULL =>
       IsLinked(p) /\ Stamp(p) < Stamp(nextOf[p])
  /\ \A s \in IpcSenders : sender[s].last # NULL => IsLinked(sender[s].last)
  /\ receiver.pc = "store" /\ receiver.next # NULL =>
       Stamp(receiver.pp) < Stamp(receiver.next)

Newer(p) == \A i \in DOMAIN executed : Stamp(executed[i]) < Stamp(p)

(* Between Execute and Advance `start' may still name a packet that has     *)
(* been carried out; at all other times it is newer than those.             *)
StartNewer ==
  /\ receiver.pc \notin {"advance", "store"} /\ record.start # NULL => Newer(record.start)
  /\ receiver.pc \in {"test", "set", "execute"} /\ receiver.pp # NULL =>
       Newer(receiver.pp)
  /\ receiver.pc \in {"advance", "store"} =>
       \A i \in DOMAIN executed : Stamp(executed[i]) <= Stamp(receiver.pp)

IpcInv ==
  /\ IpcTypeOK /\ NotYetLinked /\ LinkedByNow /\ LinksAscend /\ StartNewer /\ IpcInOrder

-----------------------------------------------------------------------------
LEMMA PacketFacts ==
  /\ NULL \notin Packets
  /\ \A s \in IpcSenders : \A k \in 1..IpcEach[s] : <<s, k>> \in Packets
  /\ \A p \in Packets : \E s \in IpcSenders : \E k \in 1..IpcEach[s] : p = <<s, k>>
  BY DEF Packets, NULL

LEMMA OwnPacket ==
  ASSUME IpcTypeOK, NEW s \in IpcSenders, sender[s].pc # "idle"
  PROVE  Own(s) \in Packets
  BY PacketFacts DEF IpcTypeOK, SenderTyped, Own

LEMMA LinkedTyped ==
  ASSUME IpcTypeOK, NEW p \in Packets, Linked(p)
  PROVE  /\ linked' \in [clock : Nat, stamp : [Packets -> Nat]]
         /\ linked'.clock = linked.clock + 1
         /\ linked'.stamp[p] = linked.clock + 1
         /\ \A q \in Packets : q # p => linked'.stamp[q] = linked.stamp[q]
<1> DEFINE n == linked.clock + 1
<1>1. n \in Nat /\ linked.stamp \in [Packets -> Nat]
  BY DEF IpcTypeOK
<1>2. [linked.stamp EXCEPT ![p] = n] \in [Packets -> Nat]
  BY <1>1
<1>3. linked' = [clock |-> n, stamp |-> [linked.stamp EXCEPT ![p] = n]]
  BY DEF Linked, IpcTypeOK
<1>4. QED
  BY <1>1, <1>2, <1>3

LEMMA SendsTyped ==
  ASSUME SenderTyped, NEW s \in IpcSenders, NEW pc \in SendPcs, Sends(s, pc),
         pc = "idle" \/ sender[s].pc # "idle"
  PROVE  SenderTyped'
  BY DEF SenderTyped, Sends

LEMMA ReadsTyped ==
  ASSUME SenderTyped, NEW s \in IpcSenders, NEW pc \in SendPcs, NEW n \in Nat,
         NEW p \in Packets \cup {NULL},
         sender' \in {[sender EXCEPT ![s].pc = pc, ![s].read = n],
                     [sender EXCEPT ![s].pc = pc, ![s].last = p]},
         sender[s].pc # "idle"
  PROVE  SenderTyped'
<1> DEFINE S == [pc : SendPcs, k : Nat, last : Packets \cup {NULL}, read : Nat]
           x == IF sender' = [sender EXCEPT ![s].pc = pc, ![s].read = n]
                THEN [sender[s] EXCEPT !.pc = pc, !.read = n]
                ELSE [sender[s] EXCEPT !.pc = pc, !.last = p]
<1>1. sender \in [IpcSenders -> S] /\ sender[s] \in S
  BY DEF SenderTyped
<1>2. x \in S /\ x.k = sender[s].k
  BY <1>1
<1>3. sender' = [sender EXCEPT ![s] = x]
  OBVIOUS
<1> HIDE DEF x, S
<1>4. sender' \in [IpcSenders -> S] /\ sender'[s] = x
       /\ \A r \in IpcSenders : r # s => sender'[r] = sender[r]
  BY <1>1, <1>2, <1>3
<1>5. QED
  BY <1>2, <1>4 DEF SenderTyped, S

LEMMA RecordFacts ==
  ASSUME RecordTyped, NEW p \in Packets \cup {NULL}, NEW n \in Nat, NEW b \in {0, 1},
         record' \in {record, [record EXCEPT !.start = p], [record EXCEPT !.last = p],
                     [record EXCEPT !.entries = n], [record EXCEPT !.lock = b]}
  PROVE  RecordTyped'
  BY DEF RecordTyped

LEMMA IpcTypeInit == IpcInit => IpcTypeOK
  BY IpcAssumption DEF IpcInit, IpcTypeOK, RecordTyped, SenderTyped, SendPcs, ReceivePcs

LEMMA SendTypeStep ==
  ASSUME IpcTypeOK, NEW s \in IpcSenders, Send(s)
  PROVE  IpcTypeOK'
<1> USE DEF SendAt, SendPcs
<1>t. RecordTyped /\ SenderTyped
  BY DEF IpcTypeOK
<1>1. ASSUME UNCHANGED <<nextOf, receiver, executed, linked>>, RecordTyped', SenderTyped'
      PROVE  IpcTypeOK'
  BY <1>1 DEF IpcTypeOK
<1>2. CASE Dispatch(s)
  <2>1. sender[s].k + 1 \in 1..IpcEach[s]
    BY <1>2, <1>t, IpcAssumption DEF Dispatch, SenderTyped
  <2>2. sender' = [sender EXCEPT ![s] = [pc |-> "test", k |-> sender[s].k + 1,
                                         last |-> sender[s].last,
                                         read |-> sender[s].read]]
    BY <1>2, <1>t DEF Dispatch, SenderTyped
  <2>3. SenderTyped'
    BY <1>t, <2>1, <2>2, IpcAssumption DEF SenderTyped
  <2>4. QED
    BY <1>1, <1>2, <1>t, <2>3 DEF Dispatch, RecordTyped
<1>3. CASE TestLock(s)
  BY <1>1, <1>3, <1>t, SendsTyped DEF TestLock, RecordTyped
<1>4. CASE SetLock(s)
  <2>1. RecordTyped' /\ SenderTyped'
    BY <1>4, <1>t, RecordFacts, SendsTyped DEF SetLock
  <2>2. QED
    BY <1>1, <1>4, <2>1 DEF SetLock
<1>5. CASE TestEmpty(s)
  BY <1>1, <1>5, <1>t, SendsTyped DEF TestEmpty, RecordTyped
<1>6. CASE SetStart(s)
  <2>1. Own(s) \in Packets /\ Linked(Own(s))
    BY <1>6, OwnPacket DEF SetStart
  <2>2. linked' \in [clock : Nat, stamp : [Packets -> Nat]]
    BY <2>1, LinkedTyped
  <2>3. RecordTyped' /\ SenderTyped'
    BY <1>6, <1>t, <2>1, RecordFacts, SendsTyped DEF SetStart
  <2>4. QED
    BY <1>6, <2>2, <2>3 DEF SetStart, IpcTypeOK
<1>7. CASE LinkLast(s)
  <2>1. Own(s) \in Packets /\ Linked(Own(s))
    BY <1>7, OwnPacket DEF LinkLast
  <2>2. linked' \in [clock : Nat, stamp : [Packets -> Nat]]
    BY <2>1, LinkedTyped
  <2>3. nextOf' \in [Packets -> Packets \cup {NULL}]
    BY <1>7, <2>1 DEF LinkLast, IpcTypeOK
  <2>4. SenderTyped'
    BY <1>7, <1>t, ReadsTyped DEF LinkLast
  <2>5. QED
    BY <1>7, <1>t, <2>2, <2>3, <2>4 DEF LinkLast, RecordTyped, IpcTypeOK
<1>8. CASE SetLast(s)
  <2>1. Own(s) \in Packets
    BY <1>8, OwnPacket DEF SetLast
  <2>2. RecordTyped' /\ SenderTyped'
    BY <1>8, <1>t, <2>1, RecordFacts, SendsTyped DEF SetLast
  <2>3. QED
    BY <1>1, <1>8, <2>2 DEF SetLast
<1>9. CASE EndList(s)
  <2>1. nextOf' \in [Packets -> Packets \cup {NULL}]
    BY <1>9 DEF EndList, IpcTypeOK
  <2>2. SenderTyped'
    BY <1>9, <1>t, SendsTyped DEF EndList
  <2>3. QED
    BY <1>9, <1>t, <2>1, <2>2 DEF EndList, RecordTyped, IpcTypeOK
<1>10. CASE ReadCount(s)
  <2>1. record.entries \in Nat
    BY <1>t DEF RecordTyped
  <2>2. SenderTyped'
    BY <1>10, <1>t, <2>1, ReadsTyped DEF ReadCount
  <2>3. QED
    BY <1>1, <1>10, <1>t, <2>2 DEF ReadCount, RecordTyped
<1>11. CASE WriteCount(s)
  <2>1. sender[s].read + 1 \in Nat
    BY <1>t DEF SenderTyped
  <2>2. SenderTyped'
    BY <1>11, <1>t, ReadsTyped DEF WriteCount
  <2>3. RecordTyped'
    BY <1>11, <1>t, <2>1, RecordFacts DEF WriteCount
  <2>4. QED
    BY <1>1, <1>11, <2>2, <2>3 DEF WriteCount
<1>12. CASE ClearLock(s)
  <2>1. RecordTyped' /\ SenderTyped'
    BY <1>12, <1>t, RecordFacts, SendsTyped DEF ClearLock
  <2>2. QED
    BY <1>1, <1>12, <2>1 DEF ClearLock
<1>13. CASE LoadLast(s)
  <2>1. record.last \in Packets \cup {NULL}
    BY <1>t DEF RecordTyped
  <2>2. SenderTyped'
    BY <1>13, <1>t, <2>1, ReadsTyped DEF LoadLast
  <2>3. QED
    BY <1>1, <1>13, <1>t, <2>2 DEF LoadLast, RecordTyped
<1>14. QED
  BY <1>2, <1>3, <1>4, <1>5, <1>6, <1>7, <1>8, <1>9, <1>10, <1>11, <1>12, <1>13 DEF Send

LEMMA ReceiveTypeStep ==
  ASSUME IpcTypeOK, Receive
  PROVE  IpcTypeOK'
<1> DEFINE ReceiverTyped ==
             /\ receiver \in [pc : ReceivePcs, pp : Packets \cup {NULL},
                              next : Packets \cup {NULL}, read : Nat]
             /\ receiver.pc \in {"advance", "store"} => receiver.pp # NULL
<1> USE DEF RecvAt, ReceivePcs, Receives
<1>t. RecordTyped /\ ReceiverTyped
  BY DEF IpcTypeOK
<1>1. ASSUME UNCHANGED <<nextOf, sender, executed, linked>>, RecordTyped', ReceiverTyped'
      PROVE  IpcTypeOK'
  BY <1>1 DEF IpcTypeOK, SenderTyped
<1>2. CASE TestEntries
  BY <1>1, <1>2, <1>t DEF TestEntries, RecordTyped
<1>3. CASE LoadFirst
  BY <1>1, <1>3, <1>t DEF LoadFirst, RecordTyped
<1>4. CASE ReceiverTestLock
  BY <1>1, <1>4, <1>t DEF ReceiverTestLock, RecordTyped
<1>5. CASE ReceiverSetLock
  <2>1. RecordTyped' /\ ReceiverTyped'
    BY <1>5, <1>t, RecordFacts DEF ReceiverSetLock
  <2>2. QED
    BY <1>1, <1>5, <2>1 DEF ReceiverSetLock
<1>6. CASE Execute
  <2>1. CASE receiver.pp = NULL
    BY <1>1, <1>6, <1>t, <2>1 DEF Execute, RecordTyped
  <2>2. CASE receiver.pp # NULL
    <3>1. executed \in Seq(Packets) /\ receiver.pp \in Packets
      BY <1>t, <2>2 DEF IpcTypeOK
    <3>2. executed' = Append(executed, receiver.pp)
      BY <1>6, <2>2 DEF Execute
    <3>3. executed' \in Seq(Packets)
      BY <3>1, <3>2
    <3>4. ReceiverTyped' /\ RecordTyped'
      BY <1>6, <1>t, <2>2 DEF Execute, RecordTyped
    <3>5. QED
      BY <1>6, <3>3, <3>4 DEF Execute, IpcTypeOK, SenderTyped
  <2>3. QED
    BY <2>1, <2>2
<1>7. CASE Advance
  <2>1. RecordTyped'
    BY <1>7, <1>t, RecordFacts DEF Advance
  <2>2. ReceiverTyped'
    BY <1>7, <1>t DEF Advance
  <2>3. QED
    BY <1>1, <1>7, <2>1, <2>2 DEF Advance
<1>8. CASE ReceiverReadCount
  <2>1. RecordTyped' /\ ReceiverTyped'
    BY <1>8, <1>t DEF ReceiverReadCount, RecordTyped
  <2>2. QED
    BY <1>1, <1>8, <2>1 DEF ReceiverReadCount
<1>9. CASE ReceiverWriteCount
  <2>1. CASE receiver.read = 0
    BY <1>1, <1>9, <1>t, <2>1 DEF ReceiverWriteCount, RecordTyped
  <2>2. CASE receiver.read # 0
    <3>1. receiver.read - 1 \in Nat
      BY <1>t, <2>2
    <3>2. RecordTyped'
      BY <1>9, <1>t, <2>2, <3>1, RecordFacts DEF ReceiverWriteCount
    <3>3. receiver' = [receiver EXCEPT !.pc = "unlock", !.read = 0]
      BY <1>9, <2>2 DEF ReceiverWriteCount
    <3>4. ReceiverTyped'
      BY <1>t, <3>3
    <3>5. QED
      BY <1>1, <1>9, <3>2, <3>4 DEF ReceiverWriteCount
  <2>3. QED
    BY <2>1, <2>2
<1>10. CASE ReceiverClearLock
  <2>1. RecordTyped'
    BY <1>10, <1>t, RecordFacts DEF ReceiverClearLock
  <2>2. receiver' = [receiver EXCEPT !.pc = "entries", !.pp = NULL]
    BY <1>10 DEF ReceiverClearLock
  <2>3. ReceiverTyped'
    BY <1>t, <2>2
  <2>4. QED
    BY <1>1, <1>10, <2>1, <2>3 DEF ReceiverClearLock
<1>11. CASE LoadNext
  <2>1. nextOf[receiver.pp] \in Packets \cup {NULL}
    BY <1>11, <1>t DEF LoadNext, IpcTypeOK
  <2>2. ReceiverTyped'
    BY <1>11, <1>t, <2>1 DEF LoadNext
  <2>3. QED
    BY <1>1, <1>11, <1>t, <2>2 DEF LoadNext, RecordTyped
<1>12. QED
  BY <1>2, <1>3, <1>4, <1>5, <1>6, <1>7, <1>8, <1>9, <1>10, <1>11 DEF Receive

LEMMA IpcTypeStep ==
  ASSUME IpcTypeOK, [IpcNext]_ipcVars
  PROVE  IpcTypeOK'
<1>1. CASE UNCHANGED ipcVars
  BY <1>1 DEF ipcVars, IpcTypeOK, RecordTyped, SenderTyped
<1>2. QED
  BY <1>1, SendTypeStep, ReceiveTypeStep DEF IpcNext

-----------------------------------------------------------------------------
(* The stamps.                                                              *)

LEMMA Linking ==
  ASSUME IpcTypeOK, NotYetLinked, NEW s \in IpcSenders, SetStart(s) \/ LinkLast(s)
  PROVE  /\ Own(s) \in Packets /\ ~ IsLinked(Own(s))
         /\ linked'.clock = linked.clock + 1
         /\ linked'.stamp[Own(s)] = linked.clock + 1
         /\ \A q \in Packets : q # Own(s) => linked'.stamp[q] = linked.stamp[q]
<1>1. Own(s) \in Packets /\ sender[s].k \in 1..IpcEach[s]
  BY OwnPacket DEF SetStart, LinkLast, SendAt, IpcTypeOK, RecordTyped, SenderTyped
<1>2. Stamp(Own(s)) = 0
  BY <1>1 DEF NotYetLinked, SetStart, LinkLast, SendAt, Own
<1>3. Linked(Own(s))
  BY DEF SetStart, LinkLast
<1>4. QED
  BY <1>1, <1>2, <1>3, LinkedTyped DEF IsLinked

(* All other steps leave the stamps alone.                                  *)
LEMMA StepLinks ==
  ASSUME [IpcNext]_ipcVars
  PROVE  \/ linked' = linked
         \/ \E s \in IpcSenders : SetStart(s) \/ LinkLast(s)
  BY DEF IpcNext, Send, Receive, ipcVars, Dispatch, TestLock, SetLock, TestEmpty,
         SetLast, EndList, LoadLast, ReadCount, WriteCount, ClearLock, TestEntries, LoadFirst,
         ReceiverTestLock, ReceiverSetLock, Execute, Advance, LoadNext, ReceiverReadCount,
         ReceiverWriteCount, ReceiverClearLock

LEMMA StampsKept ==
  ASSUME IpcTypeOK, NotYetLinked, [IpcNext]_ipcVars
  PROVE  \A p \in Packets : IsLinked(p) => Stamp(p)' = Stamp(p) /\ IsLinked(p)'
<1>1. CASE linked' = linked
  BY <1>1 DEF IsLinked, Stamp
<1>2. ASSUME NEW s \in IpcSenders, SetStart(s) \/ LinkLast(s)
      PROVE  \A p \in Packets : IsLinked(p) => Stamp(p)' = Stamp(p) /\ IsLinked(p)'
  BY <1>2, Linking DEF IsLinked, Stamp
<1>3. QED
  BY <1>1, <1>2, StepLinks

LEMMA NotYetLinkedStep ==
  ASSUME IpcTypeOK, NotYetLinked, [IpcNext]_ipcVars
  PROVE  NotYetLinked'
<1> SUFFICES ASSUME NEW r \in IpcSenders, NEW k \in 1..IpcEach[r],
                    \/ k > sender'[r].k
                    \/ /\ k = sender'[r].k
                       /\ sender'[r].pc \in {"test", "set", "empty", "start", "link", "store"}
             PROVE  linked'.stamp[<<r, k>>] = 0
  BY DEF NotYetLinked, Stamp
<1>p. <<r, k>> \in Packets /\ k \in Nat
  BY PacketFacts, IpcAssumption
<1>1. ASSUME NEW s \in IpcSenders, SetStart(s) \/ LinkLast(s)
      PROVE  linked'.stamp[<<r, k>>] = 0
  <2>0. \/ sender'[r] = sender[r]
        \/ sender'[r].pc = "last" /\ sender'[r].k = sender[r].k
    BY <1>1 DEF SetStart, LinkLast, Sends, IpcTypeOK, SenderTyped
  <2>1. \/ k > sender[r].k
        \/ k = sender[r].k /\ sender[r].pc \in {"test", "set", "empty", "start", "link", "store"}
    BY <2>0
  <2>2. Stamp(<<r, k>>) = 0
    BY <2>1 DEF NotYetLinked
  <2>3. <<r, k>> # Own(s)
    <3>1. s \in IpcSenders /\ sender'[s].pc = "last" /\ sender'[s].k = sender[s].k
      BY <1>1 DEF SetStart, LinkLast, Sends, IpcTypeOK, SenderTyped
    <3>2. <<r, k>> = <<s, sender[s].k>> => r = s /\ k = sender'[s].k
      BY <3>1
    <3>3. QED
      BY <1>p, <3>1, <3>2 DEF Own
  <2>4. QED
    BY <1>1, <1>p, <2>2, <2>3, Linking DEF Stamp
<1>2. CASE linked' = linked
  <2>1. \/ k > sender[r].k
        \/ k = sender[r].k /\ sender[r].pc \in {"test", "set", "empty", "start", "link", "store"}
    <3>1. ASSUME NEW s \in IpcSenders, Send(s)
          PROVE  \/ sender'[r] = sender[r]
                 \/ sender'[r].k = sender[r].k + 1
                 \/ /\ sender'[r].k = sender[r].k
                    /\ \/ sender[r].pc \in {"test", "set", "empty", "start", "link", "store"}
                       \/ sender'[r].pc \notin {"test", "set", "empty", "start", "link", "store"}
      BY <3>1 DEF Send, Dispatch, TestLock, SetLock, TestEmpty, SetStart, LinkLast, SetLast,
         EndList, LoadLast, ReadCount, WriteCount, ClearLock, Sends, SendAt, IpcTypeOK,
            RecordTyped, SenderTyped
    <3>2. ASSUME Receive \/ UNCHANGED ipcVars
          PROVE  sender' = sender
      BY <3>2 DEF Receive, ipcVars, TestEntries, LoadFirst, ReceiverTestLock,
         ReceiverSetLock, Execute, Advance, LoadNext, ReceiverReadCount, ReceiverWriteCount,
         ReceiverClearLock
    <3>3. sender[r].k \in Nat
      BY DEF IpcTypeOK, RecordTyped, SenderTyped
    <3>4. QED
      BY <1>p, <3>1, <3>2, <3>3 DEF IpcNext
  <2>2. QED
    BY <1>2, <2>1 DEF NotYetLinked, Stamp
<1>3. QED
  BY <1>1, <1>2, StepLinks

LEMMA LinkedByNowStep ==
  ASSUME IpcTypeOK, NotYetLinked, LinkedByNow, [IpcNext]_ipcVars
  PROVE  LinkedByNow'
<1>1. \A p \in Packets : linked'.stamp[p] <= linked'.clock
  <2>1. CASE linked' = linked
    BY <2>1 DEF LinkedByNow, Stamp
  <2>2. ASSUME NEW s \in IpcSenders, SetStart(s) \/ LinkLast(s)
        PROVE  \A p \in Packets : linked'.stamp[p] <= linked'.clock
    <3> SUFFICES ASSUME NEW p \in Packets PROVE linked'.stamp[p] <= linked'.clock
      OBVIOUS
    <3>1. linked.stamp[p] <= linked.clock /\ linked.clock \in Nat /\ linked.stamp[p] \in Nat
      BY DEF LinkedByNow, Stamp, IpcTypeOK, RecordTyped, SenderTyped
    <3>2. /\ linked'.clock = linked.clock + 1
          /\ linked'.stamp[p] \in {linked.stamp[p], linked.clock + 1}
      BY <2>2, Linking
    <3>3. QED
      BY <3>1, <3>2
  <2>3. QED
    BY <2>1, <2>2, StepLinks
<1>2. ASSUME NEW r \in IpcSenders, sender'[r].pc = "last"
      PROVE  0 < linked'.stamp[Own(r)']
  <2>1. CASE sender'[r] = sender[r]
    <3>1. Own(r) \in Packets /\ Own(r)' = Own(r) /\ IsLinked(Own(r))
      BY <1>2, <2>1, OwnPacket DEF LinkedByNow, Own
    <3>2. QED
      BY <3>1, StampsKept DEF IsLinked, Stamp
  <2>2. CASE sender'[r] # sender[r]
    <3>1. SetStart(r) \/ LinkLast(r)
      <4>1. ASSUME NEW s \in IpcSenders, Send(s)
            PROVE  SetStart(r) \/ LinkLast(r)
        <5>1. CASE SetStart(s) \/ LinkLast(s)
          BY <2>2, <5>1 DEF SetStart, LinkLast, Sends, IpcTypeOK, SenderTyped
        <5>2. ASSUME \/ Dispatch(s) \/ TestLock(s) \/ SetLock(s) \/ TestEmpty(s)
                     \/ LoadLast(s)
              PROVE  FALSE
          BY <1>2, <2>2, <5>2 DEF Dispatch, TestLock, SetLock, TestEmpty, LoadLast, Sends,
             IpcTypeOK, SenderTyped
        <5>3. ASSUME \/ SetLast(s) \/ EndList(s) \/ ReadCount(s) \/ WriteCount(s)
                     \/ ClearLock(s)
              PROVE  FALSE
          BY <1>2, <2>2, <5>3 DEF SetLast, EndList, ReadCount, WriteCount, ClearLock, Sends,
             IpcTypeOK, SenderTyped
        <5>4. QED
          BY <4>1, <5>1, <5>2, <5>3 DEF Send
      <4>2. ASSUME Receive \/ UNCHANGED ipcVars
            PROVE  sender' = sender
        BY <4>2 DEF Receive, ipcVars, TestEntries, LoadFirst, ReceiverTestLock,
           ReceiverSetLock, Execute, Advance, LoadNext, ReceiverReadCount, ReceiverWriteCount,
           ReceiverClearLock
      <4>3. QED
        BY <2>2, <4>1, <4>2 DEF IpcNext
    <3>2. Own(r)' = Own(r)
      BY <3>1 DEF SetStart, LinkLast, Sends, Own, IpcTypeOK, RecordTyped, SenderTyped
    <3>3. QED
      BY <3>1, <3>2, Linking DEF IpcTypeOK, RecordTyped, SenderTyped
  <2>3. QED
    BY <2>1, <2>2
<1>3. QED
  BY <1>1, <1>2 DEF LinkedByNow, IsLinked, Stamp
-----------------------------------------------------------------------------
(* Which steps write the links.                                             *)

LEMMA StepStart ==
  ASSUME IpcTypeOK, [IpcNext]_ipcVars
  PROVE  record'.start = record.start \/ Advance \/ \E s \in IpcSenders : SetStart(s)
  BY DEF IpcTypeOK, RecordTyped, SenderTyped, IpcNext, Send, Receive, ipcVars, Dispatch,
     TestLock, SetLock, TestEmpty,
         LinkLast, SetLast, EndList, LoadLast, ReadCount, WriteCount, ClearLock, TestEntries,
         LoadFirst, ReceiverTestLock, ReceiverSetLock, Execute, LoadNext, ReceiverReadCount,
         ReceiverWriteCount, ReceiverClearLock

LEMMA StepLast ==
  ASSUME IpcTypeOK, [IpcNext]_ipcVars
  PROVE  record'.last = record.last \/ \E s \in IpcSenders : SetLast(s)
  BY DEF IpcTypeOK, RecordTyped, SenderTyped, IpcNext, Send, Receive, ipcVars, Dispatch,
     TestLock, SetLock, TestEmpty,
         SetStart, LinkLast, EndList, LoadLast, ReadCount, WriteCount, ClearLock, TestEntries,
         LoadFirst, ReceiverTestLock, ReceiverSetLock, Execute, Advance,
         LoadNext, ReceiverReadCount, ReceiverWriteCount, ReceiverClearLock

LEMMA StepLoads ==
  ASSUME IpcTypeOK, [IpcNext]_ipcVars, NEW s \in IpcSenders, sender'[s].last # NULL
  PROVE  \/ sender'[s].last = sender[s].last
         \/ sender'[s].last = record.last /\ linked' = linked
<1>1. ASSUME NEW r \in IpcSenders, Send(r)
      PROVE  \/ sender'[s].last = sender[s].last
             \/ sender'[s].last = record.last /\ linked' = linked
             \/ sender'[s].last = NULL
  <2>1. CASE LoadLast(r)
    BY <2>1 DEF LoadLast, IpcTypeOK, SenderTyped
  <2>2. CASE LinkLast(r)
    BY <2>2 DEF LinkLast, IpcTypeOK, SenderTyped
  <2>3. CASE Dispatch(r) \/ ReadCount(r) \/ WriteCount(r)
    <3>0. \E S : sender \in [IpcSenders -> [pc : SendPcs, k : Nat, last : S, read : Nat]]
      BY DEF IpcTypeOK, SenderTyped
    <3>1. CASE Dispatch(r)
      BY <3>0, <3>1 DEF Dispatch
    <3>2. CASE ReadCount(r)
      BY <3>0, <3>2 DEF ReadCount
    <3>3. CASE WriteCount(r)
      BY <3>0, <3>3 DEF WriteCount
    <3>4. QED
      BY <2>3, <3>1, <3>2, <3>3
  <2>4. ASSUME NEW pc, Sends(r, pc)
        PROVE  sender'[s].last = sender[s].last
    <3>1. \E S : sender \in [IpcSenders -> [pc : SendPcs, k : Nat, last : S, read : Nat]]
      BY DEF IpcTypeOK, SenderTyped
    <3>2. QED
      BY <2>4, <3>1 DEF Sends
  <2>5. CASE TestLock(r) \/ SetLock(r) \/ TestEmpty(r) \/ SetStart(r)
    BY <2>4, <2>5 DEF TestLock, SetLock, TestEmpty, SetStart
  <2>6. CASE SetLast(r) \/ EndList(r) \/ ClearLock(r)
    BY <2>4, <2>6 DEF SetLast, EndList, ClearLock
  <2>7. QED
    BY <1>1, <2>1, <2>2, <2>3, <2>5, <2>6 DEF Send
<1>2. ASSUME Receive \/ UNCHANGED ipcVars
      PROVE  sender' = sender
  BY <1>2 DEF Receive, ipcVars, TestEntries, LoadFirst, ReceiverTestLock, ReceiverSetLock,
     Execute, LoadNext, Advance, ReceiverReadCount, ReceiverWriteCount, ReceiverClearLock
<1>3. QED
  BY <1>1, <1>2 DEF IpcNext

LEMMA StepNext ==
  ASSUME IpcTypeOK, [IpcNext]_ipcVars
  PROVE  \/ nextOf' = nextOf
         \/ \E s \in IpcSenders : LinkLast(s) \/ EndList(s)
  BY DEF IpcNext, Send, Receive, ipcVars, Dispatch, TestLock, SetLock, TestEmpty,
         SetStart, SetLast, LoadLast, ReadCount, WriteCount, ClearLock, TestEntries,
         LoadFirst, ReceiverTestLock, ReceiverSetLock, Execute, Advance,
         LoadNext, ReceiverReadCount, ReceiverWriteCount, ReceiverClearLock

LEMMA StepReceiver ==
  ASSUME IpcTypeOK, [IpcNext]_ipcVars
  PROVE  \/ receiver' = receiver /\ executed' = executed
         \/ TestEntries \/ LoadFirst \/ ReceiverTestLock \/ ReceiverSetLock \/ Execute
         \/ LoadNext \/ Advance \/ ReceiverReadCount \/ ReceiverWriteCount \/ ReceiverClearLock
  BY DEF IpcNext, Send, Receive, ipcVars, Dispatch, TestLock, SetLock, TestEmpty,
         SetStart, LinkLast, SetLast, EndList, LoadLast, ReadCount, WriteCount, ClearLock

LEMMA StepPP ==
  ASSUME IpcTypeOK, [IpcNext]_ipcVars
  PROVE  receiver'.pp \in {receiver.pp, NULL} \/ LoadFirst
  BY StepReceiver DEF IpcTypeOK, RecordTyped, SenderTyped, TestEntries, ReceiverTestLock,
     ReceiverSetLock, Execute,
     Advance, LoadNext, ReceiverReadCount, ReceiverWriteCount, ReceiverClearLock, Receives

LEMMA StepExecuted ==
  ASSUME IpcTypeOK, [IpcNext]_ipcVars
  PROVE  \/ executed' = executed
         \/ /\ Execute /\ receiver.pp \in Packets
            /\ executed' = Append(executed, receiver.pp)
            /\ DOMAIN executed' = 1..(Len(executed) + 1)
            /\ executed'[Len(executed) + 1] = receiver.pp
            /\ \A i \in 1..Len(executed) : executed'[i] = executed[i]
<1>1. \/ executed' = executed
      \/ Execute /\ receiver.pp \in Packets /\ executed' = Append(executed, receiver.pp)
  BY StepReceiver DEF IpcTypeOK, RecordTyped, SenderTyped, TestEntries, LoadFirst,
     ReceiverTestLock, ReceiverSetLock,
     Execute, Advance, LoadNext, ReceiverReadCount, ReceiverWriteCount, ReceiverClearLock
<1>2. executed \in Seq(Packets)
  BY DEF IpcTypeOK, RecordTyped, SenderTyped
<1>3. QED
  BY <1>1, <1>2

LEMMA ExecutedFacts ==
  ASSUME IpcTypeOK
  PROVE  /\ DOMAIN executed = 1..Len(executed) /\ Len(executed) \in Nat
         /\ \A i \in DOMAIN executed : executed[i] \in Packets
  BY DEF IpcTypeOK, RecordTyped, SenderTyped

-----------------------------------------------------------------------------
LEMMA LinksAscendStep ==
  ASSUME IpcTypeOK, IpcTypeOK', NotYetLinked, LinkedByNow, LinksAscend, [IpcNext]_ipcVars
  PROVE  LinksAscend'
<1>1. ASSUME record'.start # NULL
      PROVE  0 < linked'.stamp[record'.start]
  <2>1. CASE record'.start = record.start
    BY <1>1, <2>1, StampsKept DEF LinksAscend, IsLinked, Stamp, IpcTypeOK, RecordTyped,
       SenderTyped
  <2>2. CASE Advance
    <3>1. /\ record'.start = receiver.next /\ receiver.pc = "store"
          /\ receiver.pp \in Packets /\ linked' = linked
      BY <2>2 DEF Advance, RecvAt, IpcTypeOK, RecordTyped, SenderTyped
    <3>2. Stamp(receiver.pp) < Stamp(receiver.next) /\ receiver.next \in Packets
      BY <1>1, <3>1 DEF LinksAscend, IpcTypeOK, RecordTyped, SenderTyped
    <3>3. QED
      BY <3>1, <3>2 DEF Stamp, IpcTypeOK, RecordTyped, SenderTyped
  <2>3. ASSUME NEW s \in IpcSenders, SetStart(s)
        PROVE  0 < linked'.stamp[record'.start]
    <3>1. record'.start = Own(s)
      BY <2>3 DEF SetStart, IpcTypeOK, RecordTyped, SenderTyped
    <3>2. QED
      BY <2>3, <3>1, Linking DEF IpcTypeOK, RecordTyped, SenderTyped
  <2>4. QED
    BY <2>1, <2>2, <2>3, StepStart
<1>2. ASSUME record'.last # NULL
      PROVE  0 < linked'.stamp[record'.last]
  <2>1. CASE record'.last = record.last
    BY <1>2, <2>1, StampsKept DEF LinksAscend, IsLinked, Stamp, IpcTypeOK, RecordTyped,
       SenderTyped
  <2>2. ASSUME NEW s \in IpcSenders, SetLast(s)
        PROVE  0 < linked'.stamp[record'.last]
    <3>1. record'.last = Own(s) /\ linked' = linked /\ IsLinked(Own(s))
      BY <2>2 DEF SetLast, SendAt, LinkedByNow, IpcTypeOK, RecordTyped, SenderTyped
    <3>2. QED
      BY <3>1 DEF IsLinked, Stamp
  <2>3. QED
    BY <2>1, <2>2, StepLast
<1>3. ASSUME receiver'.pp # NULL
      PROVE  0 < linked'.stamp[receiver'.pp]
  <2>1. CASE receiver'.pp = receiver.pp
    BY <1>3, <2>1, StampsKept DEF LinksAscend, IsLinked, Stamp, IpcTypeOK, RecordTyped,
       SenderTyped
  <2>2. CASE LoadFirst
    BY <1>3, <2>2 DEF LoadFirst, LinksAscend, IsLinked, Stamp, IpcTypeOK, RecordTyped,
       SenderTyped
  <2>3. QED
    BY <1>3, <2>1, <2>2, StepPP
<1>4. ASSUME NEW i \in DOMAIN executed'
      PROVE  0 < linked'.stamp[executed'[i]]
  <2>1. CASE executed' = executed
    BY <1>4, <2>1, StampsKept, ExecutedFacts DEF LinksAscend, IsLinked, Stamp
  <2>2. CASE executed' # executed
    <3>1. Execute /\ receiver.pp \in Packets /\ linked' = linked
      BY <2>2, StepExecuted DEF Execute
    <3>2. CASE i = Len(executed) + 1
      BY <2>2, <3>1, <3>2, StepExecuted, PacketFacts DEF LinksAscend, IsLinked, Stamp
    <3>3. CASE i # Len(executed) + 1
      <4>1. DOMAIN executed' = 1..(Len(executed) + 1) /\ Len(executed) \in Nat
        BY <2>2, StepExecuted, ExecutedFacts DEF IpcTypeOK, RecordTyped, SenderTyped
      <4>2. i \in 1..Len(executed)
        BY <1>4, <3>3, <4>1
      <4>3. executed'[i] = executed[i]
        BY <2>2, <4>2, StepExecuted
      <4>4. QED
        BY <3>1, <4>2, <4>3, ExecutedFacts DEF LinksAscend, IsLinked, Stamp
    <3>4. QED
      BY <3>2, <3>3
  <2>3. QED
    BY <2>1, <2>2
<1>5. ASSUME NEW p \in Packets, nextOf'[p] # NULL
      PROVE  0 < linked'.stamp[p] /\ linked'.stamp[p] < linked'.stamp[nextOf'[p]]
  <2>1. CASE nextOf'[p] = nextOf[p]
    <3>1. IsLinked(p) /\ Stamp(p) < Stamp(nextOf[p]) /\ nextOf[p] \in Packets
      BY <1>5, <2>1 DEF LinksAscend, IpcTypeOK, RecordTyped, SenderTyped
    <3>2. IsLinked(nextOf[p])
      BY <3>1 DEF IsLinked, Stamp, IpcTypeOK, RecordTyped, SenderTyped
    <3>3. QED
      BY <2>1, <3>1, <3>2, StampsKept DEF IsLinked, Stamp
  <2>2. ASSUME NEW s \in IpcSenders, LinkLast(s), nextOf'[p] # nextOf[p]
        PROVE  0 < linked'.stamp[p] /\ linked'.stamp[p] < linked'.stamp[nextOf'[p]]
    <3>1. p = sender[s].last /\ nextOf'[p] = Own(s)
      BY <2>2 DEF LinkLast, IpcTypeOK, RecordTyped, SenderTyped
    <3>2. IsLinked(p) /\ Stamp(p) <= linked.clock
      BY <3>1, PacketFacts DEF LinksAscend, LinkedByNow
    <3>3. p # Own(s)
      BY <2>2, <3>2, Linking
    <3>4. linked'.stamp[Own(s)] = linked.clock + 1 /\ linked'.stamp[p] = linked.stamp[p]
      BY <2>2, <3>3, Linking
    <3>5. linked.stamp[p] \in Nat /\ linked.clock \in Nat
      BY DEF IpcTypeOK
    <3>6. 0 < linked.stamp[p] /\ linked.stamp[p] <= linked.clock
      BY <3>2 DEF IsLinked, Stamp
    <3>7. QED
      BY <3>1, <3>4, <3>5, <3>6
  <2>3. ASSUME NEW s \in IpcSenders, EndList(s)
        PROVE  nextOf'[p] \in {nextOf[p], NULL}
    BY <2>3 DEF EndList, IpcTypeOK, RecordTyped, SenderTyped
  <2>4. QED
    BY <1>5, <2>1, <2>2, <2>3, StepNext
<1>6. ASSUME NEW s \in IpcSenders, sender'[s].last # NULL
      PROVE  0 < linked'.stamp[sender'[s].last]
  <2>1. \/ sender'[s].last = sender[s].last
        \/ sender'[s].last = record.last /\ linked' = linked
    BY <1>6, StepLoads
  <2>2. CASE sender'[s].last = sender[s].last
    <3>1. sender[s].last \in Packets /\ IsLinked(sender[s].last)
      BY <1>6, <2>2 DEF LinksAscend, IpcTypeOK, SenderTyped
    <3>2. QED
      BY <2>2, <3>1, StampsKept DEF IsLinked, Stamp
  <2>3. CASE sender'[s].last = record.last /\ linked' = linked
    BY <1>6, <2>3 DEF LinksAscend, IsLinked, Stamp
  <2>4. QED
    BY <2>1, <2>2, <2>3
<1>7. ASSUME receiver'.pc = "store", receiver'.next # NULL
      PROVE  linked'.stamp[receiver'.pp] < linked'.stamp[receiver'.next]
  <2>1. CASE LoadNext
    <3>1. /\ receiver'.pp = receiver.pp /\ receiver'.next = nextOf[receiver.pp]
          /\ receiver.pp \in Packets /\ linked' = linked
      BY <2>1 DEF LoadNext, RecvAt, IpcTypeOK
    <3>2. QED
      BY <1>7, <3>1 DEF LinksAscend, Stamp
  <2>2. CASE ~ LoadNext
    <3>1. receiver' = receiver
      <4>1. CASE receiver' = receiver
        BY <4>1
      <4>2. ASSUME TestEntries \/ LoadFirst \/ ReceiverTestLock \/ ReceiverSetLock \/ Execute
            PROVE  FALSE
        BY <1>7, <4>2 DEF TestEntries, LoadFirst, ReceiverTestLock, ReceiverSetLock, Execute,
           Receives, IpcTypeOK
      <4>3. ASSUME Advance \/ ReceiverReadCount \/ ReceiverWriteCount \/ ReceiverClearLock
            PROVE  FALSE
        BY <1>7, <4>3 DEF Advance, ReceiverReadCount, ReceiverWriteCount, ReceiverClearLock,
           Receives, IpcTypeOK
      <4>4. QED
        BY <2>2, <4>1, <4>2, <4>3, StepReceiver
    <3>2. /\ receiver.pp \in Packets /\ receiver.next \in Packets
          /\ IsLinked(receiver.pp) /\ Stamp(receiver.pp) < Stamp(receiver.next)
      BY <1>7, <3>1, PacketFacts DEF LinksAscend, IpcTypeOK
    <3>3. IsLinked(receiver.next)
      BY <3>2 DEF IsLinked, Stamp, IpcTypeOK
    <3>4. QED
      BY <3>1, <3>2, <3>3, StampsKept DEF Stamp
  <2>3. QED
    BY <2>1, <2>2
<1>8. QED
  BY <1>1, <1>2, <1>3, <1>4, <1>5, <1>6, <1>7 DEF LinksAscend, IsLinked, Stamp

-----------------------------------------------------------------------------
(* What is newer than all executed packets remains so while none is added.  *)
LEMMA NewerKept ==
  ASSUME IpcTypeOK, NotYetLinked, LinksAscend, [IpcNext]_ipcVars, executed' = executed,
         NEW p \in Packets, IsLinked(p), Newer(p)
  PROVE  Newer(p)'
  BY StampsKept, ExecutedFacts DEF Newer, LinksAscend, Stamp, IsLinked

LEMMA StartNewerStep ==
  ASSUME IpcTypeOK, IpcTypeOK', NotYetLinked, LinkedByNow, LinksAscend, StartNewer,
         [IpcNext]_ipcVars
  PROVE  StartNewer'
<1>1. ASSUME receiver'.pc \notin {"advance", "store"}, record'.start # NULL
      PROVE  Newer(record.start)'
  <2>1. ASSUME NEW s \in IpcSenders, SetStart(s)
        PROVE  Newer(record.start)'
    <3>1. record'.start = Own(s) /\ executed' = executed
      BY <2>1 DEF SetStart, IpcTypeOK, RecordTyped, SenderTyped
    <3>2. ASSUME NEW i \in DOMAIN executed
          PROVE  linked'.stamp[executed[i]] < linked'.stamp[Own(s)]
      <4>1. executed[i] \in Packets /\ IsLinked(executed[i])
        BY <3>2, ExecutedFacts DEF LinksAscend
      <4>2. Stamp(executed[i]) <= linked.clock /\ executed[i] # Own(s)
        BY <2>1, <4>1, Linking DEF LinkedByNow
      <4>3. linked.clock \in Nat /\ linked.stamp[executed[i]] \in Nat
        BY <4>1 DEF IpcTypeOK
      <4>4. QED
        BY <2>1, <4>1, <4>2, <4>3, Linking DEF Stamp
    <3>3. QED
      BY <3>1, <3>2 DEF Newer, Stamp
  <2>2. CASE Advance
    <3>1. /\ receiver.pc = "store" /\ receiver.pp \in Packets
          /\ record'.start = receiver.next
          /\ UNCHANGED <<executed, linked>>
      BY <2>2 DEF Advance, RecvAt, IpcTypeOK, RecordTyped, SenderTyped
    <3>2. Stamp(receiver.pp) < Stamp(receiver.next) /\ receiver.next \in Packets
      BY <1>1, <3>1 DEF LinksAscend, IpcTypeOK, RecordTyped, SenderTyped
    <3>3. \A i \in DOMAIN executed : Stamp(executed[i]) <= Stamp(receiver.pp)
      BY <3>1 DEF StartNewer
    <3>4. \A i \in DOMAIN executed : Stamp(executed[i]) < Stamp(receiver.next)
      BY <3>1, <3>2, <3>3, ExecutedFacts DEF Stamp, IpcTypeOK, RecordTyped, SenderTyped
    <3>5. QED
      BY <3>1, <3>4 DEF Newer, Stamp
  <2>3. CASE record'.start = record.start /\ ~ Advance
    <3>1. receiver.pc \notin {"advance", "store"} /\ executed' = executed
      BY <1>1, <2>3, StepReceiver DEF TestEntries, LoadFirst, ReceiverTestLock,
         ReceiverSetLock, Execute, LoadNext, ReceiverReadCount, ReceiverWriteCount,
         ReceiverClearLock, RecvAt, Receives, IpcTypeOK, RecordTyped, SenderTyped
    <3>2. record.start \in Packets /\ IsLinked(record.start) /\ Newer(record.start)
      BY <1>1, <2>3, <3>1 DEF StartNewer, LinksAscend, IpcTypeOK, RecordTyped, SenderTyped
    <3>3. Newer(record.start)' = (\A i \in DOMAIN executed' :
                                   linked'.stamp[executed'[i]] <
                                      linked'.stamp[record.start])
      BY <2>3 DEF Newer, Stamp
    <3>4. \A i \in DOMAIN executed' :
            linked'.stamp[executed'[i]] < linked'.stamp[record.start]
      BY <3>1, <3>2, StampsKept, ExecutedFacts DEF Newer, LinksAscend, Stamp
    <3>5. QED
      BY <3>3, <3>4
  <2>4. QED
    BY <2>1, <2>2, <2>3, StepStart
<1>2. ASSUME receiver'.pc \in {"test", "set", "execute"}, receiver'.pp # NULL
      PROVE  \A i \in DOMAIN executed' :
               linked'.stamp[executed'[i]] < linked'.stamp[receiver'.pp]
  <2>1. CASE LoadFirst
    <3>1. /\ receiver.pc \notin {"advance", "store"} /\ receiver'.pp = record.start
          /\ UNCHANGED <<executed, linked>>
      BY <2>1 DEF LoadFirst, RecvAt, IpcTypeOK, RecordTyped, SenderTyped
    <3>2. QED
      <4>1. \A i \in DOMAIN executed : linked.stamp[executed[i]] < linked.stamp[record.start]
        BY <1>2, <3>1 DEF StartNewer, Newer, Stamp
      <4>2. executed' = executed /\ linked'.stamp = linked.stamp
        BY <3>1
      <4>3. \A i \in DOMAIN executed' :
              linked'.stamp[executed'[i]] < linked'.stamp[record.start]
        BY <4>1, <4>2, Zenon
      <4>4. QED
        BY <3>1, <4>3, Zenon
  <2>2. CASE ~ LoadFirst
    <3>1. /\ receiver.pc \in {"test", "set", "execute"}
          /\ receiver'.pp = receiver.pp /\ executed' = executed
      <4>1. CASE receiver' = receiver /\ executed' = executed
        BY <1>2, <4>1
      <4>2. CASE ReceiverTestLock \/ ReceiverSetLock
        BY <4>2 DEF ReceiverTestLock, ReceiverSetLock, RecvAt, Receives, IpcTypeOK
      <4>3. ASSUME TestEntries \/ Execute \/ LoadNext \/ Advance
            PROVE  FALSE
        BY <1>2, <4>3 DEF TestEntries, Execute, LoadNext, Advance, Receives, IpcTypeOK
      <4>4. ASSUME ReceiverReadCount \/ ReceiverWriteCount \/ ReceiverClearLock
            PROVE  FALSE
        BY <1>2, <4>4 DEF LoadNext, ReceiverReadCount, ReceiverWriteCount, ReceiverClearLock,
           Receives, IpcTypeOK
      <4>5. QED
        BY <2>2, <4>1, <4>2, <4>3, <4>4, StepReceiver
    <3>2. receiver.pp \in Packets /\ IsLinked(receiver.pp) /\ Newer(receiver.pp)
      BY <1>2, <3>1 DEF StartNewer, LinksAscend, IpcTypeOK, RecordTyped, SenderTyped
    <3>3. QED
      BY <3>1, <3>2, StampsKept, ExecutedFacts DEF Newer, LinksAscend, Stamp
  <2>3. QED
    BY <2>1, <2>2
<1>3. ASSUME receiver'.pc \in {"advance", "store"}
      PROVE  \A i \in DOMAIN executed' :
               linked'.stamp[executed'[i]] <= linked'.stamp[receiver'.pp]
  <2>1. CASE Execute
    <3>1. /\ receiver.pp # NULL /\ receiver.pc = "execute" /\ receiver'.pp = receiver.pp
          /\ linked' = linked /\ executed' = Append(executed, receiver.pp)
      BY <1>3, <2>1 DEF Execute, RecvAt, Receives, IpcTypeOK, RecordTyped, SenderTyped
    <3>2. Newer(receiver.pp) /\ receiver.pp \in Packets /\ executed \in Seq(Packets)
      BY <3>1 DEF StartNewer, IpcTypeOK, RecordTyped, SenderTyped
    <3>3. ASSUME NEW i \in DOMAIN executed'
          PROVE  linked.stamp[executed'[i]] <= linked.stamp[receiver.pp]
      <4>1. CASE i = Len(executed) + 1
        BY <3>1, <3>2, <4>1 DEF IpcTypeOK, RecordTyped, SenderTyped
      <4>2. CASE i # Len(executed) + 1
        <5>1. i \in DOMAIN executed /\ executed'[i] = executed[i]
          BY <3>1, <3>2, <3>3, <4>2
        <5>2. linked.stamp[executed[i]] < linked.stamp[receiver.pp]
          BY <3>2, <5>1 DEF Newer, Stamp
        <5>3. linked.stamp[executed[i]] \in Nat /\ linked.stamp[receiver.pp] \in Nat
          BY <3>2, <5>1, ExecutedFacts DEF IpcTypeOK
        <5>4. QED
          BY <5>1, <5>2, <5>3
      <4>3. QED
        BY <4>1, <4>2
    <3>4. QED
      BY <3>1, <3>3
  <2>2. CASE ~ Execute
    <3>1. /\ receiver.pc \in {"advance", "store"} /\ receiver'.pp = receiver.pp
          /\ executed' = executed
      <4>1. CASE receiver' = receiver /\ executed' = executed
        BY <1>3, <4>1
      <4>2. CASE LoadNext
        BY <4>2 DEF LoadNext, RecvAt, IpcTypeOK
      <4>3. ASSUME TestEntries \/ LoadFirst \/ ReceiverTestLock \/ ReceiverSetLock \/ Advance
            PROVE  FALSE
        BY <1>3, <4>3 DEF TestEntries, LoadFirst, ReceiverTestLock, ReceiverSetLock, Advance,
           Receives, IpcTypeOK
      <4>4. ASSUME ReceiverReadCount \/ ReceiverWriteCount \/ ReceiverClearLock
            PROVE  FALSE
        BY <1>3, <4>4 DEF ReceiverReadCount, ReceiverWriteCount, ReceiverClearLock, Receives,
           IpcTypeOK
      <4>5. QED
        BY <2>2, <4>1, <4>2, <4>3, <4>4, StepReceiver
    <3>2. /\ receiver.pp \in Packets /\ IsLinked(receiver.pp)
          /\ \A i \in DOMAIN executed : Stamp(executed[i]) <= Stamp(receiver.pp)
      BY <3>1 DEF StartNewer, LinksAscend, IpcTypeOK, RecordTyped, SenderTyped
    <3>3. QED
      BY <3>1, <3>2, StampsKept, ExecutedFacts DEF LinksAscend, Stamp
  <2>3. QED
    BY <2>1, <2>2
<1>4. QED
  BY <1>1, <1>2, <1>3 DEF StartNewer, Newer, Stamp

-----------------------------------------------------------------------------
LEMMA InOrderStep ==
  ASSUME IpcTypeOK, NotYetLinked, LinksAscend, StartNewer, IpcInOrder, [IpcNext]_ipcVars
  PROVE  IpcInOrder'
<1> SUFFICES ASSUME NEW i \in DOMAIN executed', NEW j \in DOMAIN executed', i < j
             PROVE  linked'.stamp[executed'[i]] < linked'.stamp[executed'[j]]
  BY DEF IpcInOrder
<1>1. CASE executed' = executed
  <2>1. /\ linked.stamp[executed[i]] < linked.stamp[executed[j]]
        /\ executed[i] \in Packets /\ IsLinked(executed[i])
        /\ executed[j] \in Packets /\ IsLinked(executed[j])
    BY <1>1, ExecutedFacts DEF IpcInOrder, LinksAscend
  <2>2. QED
    BY <1>1, <2>1, StampsKept DEF Stamp
<1>2. CASE executed' # executed
  <2>1. /\ Execute /\ receiver.pp \in Packets /\ receiver.pc = "execute"
        /\ executed' = Append(executed, receiver.pp) /\ linked' = linked
        /\ executed \in Seq(Packets)
    BY <1>2, StepExecuted DEF Execute, RecvAt, IpcTypeOK, RecordTyped, SenderTyped
  <2>2. i \in DOMAIN executed /\ executed'[i] = executed[i]
    BY <2>1
  <2>3. CASE j = Len(executed) + 1
    <3>1. executed'[j] = receiver.pp
      BY <2>1, <2>3
    <3>2. Newer(receiver.pp)
      BY <2>1, PacketFacts DEF StartNewer
    <3>3. QED
      BY <2>1, <2>2, <3>1, <3>2 DEF Newer, Stamp
  <2>4. CASE j # Len(executed) + 1
    <3>1. j \in DOMAIN executed /\ executed'[j] = executed[j]
      BY <2>1, <2>4
    <3>2. QED
      BY <2>1, <2>2, <3>1 DEF IpcInOrder
  <2>5. QED
    BY <2>3, <2>4
<1>3. QED
  BY <1>1, <1>2

LEMMA IpcInvInit == IpcInit => IpcInv
<1> SUFFICES ASSUME IpcInit PROVE IpcInv
  OBVIOUS
<1>1. IpcTypeOK
  BY IpcTypeInit
<1>2. NotYetLinked
  BY PacketFacts DEF IpcInit, NotYetLinked, Stamp
<1>3. LinkedByNow /\ LinksAscend /\ StartNewer /\ IpcInOrder
  BY DEF IpcInit, LinkedByNow, LinksAscend, StartNewer, IpcInOrder, IsLinked, Stamp
<1>4. QED
  BY <1>1, <1>2, <1>3 DEF IpcInv

(* The state keeps its types, and what can be reached through the links is  *)
(* newer than what has been carried out.                                    *)
THEOREM IpcInvariant == IpcSpec => []IpcInv
<1>1. IpcInv /\ [IpcNext]_ipcVars => IpcInv'
  BY IpcTypeStep, NotYetLinkedStep, LinkedByNowStep, LinksAscendStep, StartNewerStep,
     InOrderStep DEF IpcInv
<1>2. QED
  BY <1>1, IpcInvInit, PTL DEF IpcSpec

(* IPCprocessorP_t carries out the packets of a list in the order in which  *)
(* IPCdispatch linked them, each at most once.                              *)
THEOREM IpcInOrderHolds == IpcSpec => []IpcInOrder
<1>1. IpcInv => IpcInOrder
  BY DEF IpcInv
<1>2. QED
  BY <1>1, IpcInvariant, PTL

-----------------------------------------------------------------------------
(***************************************************************************)
(* ApBoot: every core gets its own tables, for any number of cores,        *)
(* although all of them read the same two words and the same pair of       *)
(* addresses, and although ClearTarget of one core may fall into the turn  *)
(* of the next.                                                            *)
(***************************************************************************)

BspPcs == {"kick", "sipi", "check", "gdt", "idt", "cmd", "target", "await", "running"}
ApPcs == {"off", "wait", "started", "count", "lpp", "set_DT", "lgdt", "lidt", "clear",
          "clear2", "set_smp", "smp"}
Core == [pc : ApPcs, read : Nat, gdt : Aps \cup {None}, idt : Aps \cup {None}]

BspTyped ==
  /\ bsp \in [pc : BspPcs, core : 1..BootCores, seen : Nat]
  /\ bsp.pc \in {"sipi", "check", "idt", "cmd", "target", "await"} => bsp.core \in Aps

(* The types of the state.                                                  *)
BootTypeOK ==
  /\ BspTyped
  /\ ap \in [Aps -> Core]
  /\ mail \in [cmd : {NO_COMMAND, SET_DT, SET_SMP}, target : 0..(BootCores - 1)]
  /\ tables \in [gdt : Aps \cup {None}, idt : Aps \cup {None}]
  /\ counter \in Nat

Kicking == bsp.pc \in {"kick", "sipi", "check"}
HasOwn(i) == ap[i].gdt = i /\ ap[i].idt = i

(* Core i's turn: its tables are there, and it has been called.             *)
Called(i) ==
  /\ bsp.pc = "await" /\ bsp.core = i /\ mail.cmd = SET_DT

(* Before the first turn nobody has been called.                            *)
QuietBefore ==
  Kicking => mail.cmd = NO_COMMAND /\ mail.target = 0

(* The pair of addresses belongs to the core whose turn it is.              *)
TablesOfTurn ==
  /\ bsp.pc \in {"idt", "cmd", "target", "await"} => tables.gdt = bsp.core
  /\ bsp.pc \in {"cmd", "target", "await"} => tables.idt = bsp.core
  /\ bsp.pc = "target" => mail.cmd = SET_DT
  /\ mail.cmd = SET_SMP <=> bsp.pc = "running"

(* A number in the word is of the core whose turn it is, or left over from  *)
(* the core before, which is about to wipe it out.                          *)
TargetOfTurn ==
  \A i \in Aps : mail.target = i => ap[i].pc = "clear2" \/ Called(i)

(* Only the core whose turn it is loads tables.                             *)
LoadsInTurn ==
  \A i \in Aps :
    /\ ap[i].pc \in {"lgdt", "lidt", "clear"} => Called(i)
    /\ ap[i].pc \in {"lidt", "clear"} => ap[i].gdt = i
    /\ ap[i].pc = "clear" => ap[i].idt = i
    /\ ap[i].pc \in {"clear2", "set_smp", "smp"} => HasOwn(i)

(* The cores that had their turn have their tables.                         *)
Served ==
  /\ ~ Kicking => \A i \in Aps : i < bsp.core => HasOwn(i)
  /\ bsp.pc = "await" /\ mail.cmd # SET_DT => HasOwn(bsp.core)
  /\ bsp.pc = "running" => bsp.core = BootCores

BootInv ==
  /\ BootTypeOK /\ QuietBefore /\ TablesOfTurn /\ TargetOfTurn /\ LoadsInTurn
  /\ Served /\ BootOwnTables

-----------------------------------------------------------------------------
LEMMA CoreFacts ==
  /\ BootCores \in Nat /\ BootCores >= 1
  /\ \A i \in Aps : i \in Nat /\ i # None /\ i # 0 /\ i \in 1..BootCores
                    /\ i + 1 \in 1..BootCores /\ i \in 0..(BootCores - 1)
  BY BootAssumption DEF Aps, None

LEMMA BootInvInit == BootInit => BootInv
<1> SUFFICES ASSUME BootInit PROVE BootInv
  OBVIOUS
<1> USE CoreFacts DEF BootInit
<1>1. BootTypeOK
  BY DEF BootTypeOK, BspTyped, Core, BspPcs, ApPcs, Aps
<1>2. QuietBefore /\ TablesOfTurn
  BY DEF QuietBefore, TablesOfTurn, NO_COMMAND, SET_SMP
<1>3. TargetOfTurn /\ LoadsInTurn /\ Served /\ BootOwnTables
  BY DEF TargetOfTurn, LoadsInTurn, Served, BootOwnTables, Kicking
<1>4. QED
  BY <1>1, <1>2, <1>3 DEF BootInv

(* What a step of the first core has to show, beyond the types, when the    *)
(* other cores and their words stay as they are.                            *)
Turn ==
  /\ QuietBefore /\ TablesOfTurn /\ TargetOfTurn /\ LoadsInTurn /\ Served /\ BootOwnTables

LEMMA BspTypeStep ==
  ASSUME BootTypeOK, BspStep
  PROVE  BootTypeOK'
<1> USE CoreFacts DEF At, Serving, BootTypeOK, BspTyped, BspPcs
<1>1. CASE ap_kickstart
  <2>1. ap' = [ap EXCEPT ![bsp.core] = [ap[bsp.core] EXCEPT !.pc = "wait"]]
    BY <1>1 DEF ap_kickstart
  <2>2. [ap[bsp.core] EXCEPT !.pc = "wait"] \in Core
    BY <1>1 DEF ap_kickstart, Core, ApPcs
  <2>3. ap' \in [Aps -> Core]
    BY <2>1, <2>2
  <2>4. QED
    BY <1>1, <2>3 DEF ap_kickstart
<1>2. ASSUME NEW after \in [pc : BspPcs, core : 1..BootCores, seen : Nat], Sipi(after),
             bsp.core \in Aps, after.pc \in {"sipi", "check"} => after.core \in Aps,
             after.pc \in {"sipi", "check", "kick"}
      PROVE  BootTypeOK'
  <2>1. [ap[bsp.core] EXCEPT !.pc = "started"] \in Core
    BY <1>2 DEF Core, ApPcs
  <2>2. ap' \in [Aps -> Core]
    BY <1>2, <2>1 DEF Sipi
  <2>3. QED
    BY <1>2, <2>2 DEF Sipi
<1>3. CASE FirstSipi
  <2>1. [bsp EXCEPT !.pc = "check"] \in [pc : BspPcs, core : 1..BootCores, seen : Nat]
    OBVIOUS
  <2>2. QED
    BY <1>2, <1>3, <2>1 DEF FirstSipi
<1>4. CASE SecondSipi
  <2> DEFINE after == [bsp EXCEPT !.pc = "kick", !.core = @ + 1]
  <2>1. bsp.core + 1 \in 1..BootCores /\ bsp.core \in Aps
    BY <1>4 DEF SecondSipi
  <2>2. after \in [pc : BspPcs, core : 1..BootCores, seen : Nat] /\ after.pc = "kick"
    BY <2>1
  <2>3. Sipi(after) \/ (bsp' = after /\ UNCHANGED <<ap, mail, tables, counter>>)
    BY <1>4 DEF SecondSipi
  <2> HIDE DEF after
  <2>4. QED
    BY <1>2, <2>1, <2>2, <2>3
<1>5. CASE Init_Core_0
  <2>1. 1 \in 1..BootCores
    OBVIOUS
  <2>2. bsp' = [bsp EXCEPT !.pc = "gdt", !.core = 1]
    BY <1>5 DEF Init_Core_0
  <2>3. bsp' = [pc |-> "gdt", core |-> 1, seen |-> bsp.seen]
    BY <2>2
  <2>4. QED
    BY <1>5, <2>1, <2>3 DEF Init_Core_0
<1>6. CASE SetGdt
  BY <1>6 DEF SetGdt
<1>7. CASE SetIdt
  BY <1>7 DEF SetIdt
<1>8. CASE SetCommand
  BY <1>8 DEF SetCommand
<1>9. CASE SetTarget
  BY <1>9 DEF SetTarget
<1>10. CASE AwaitCleared
  <2>1. bsp.core + 1 \in 1..BootCores
    BY <1>10 DEF AwaitCleared
  <2>2. QED
    BY <1>10, <2>1 DEF AwaitCleared
<1>11. CASE SetAllGoing
  BY <1>11 DEF SetAllGoing
<1>12. QED
  BY <1>1, <1>3, <1>4, <1>5, <1>6, <1>7, <1>8, <1>9, <1>10, <1>11 DEF BspStep

LEMMA BspTurnStep ==
  ASSUME BootInv, BspStep
  PROVE  Turn'
<1> USE CoreFacts DEF At, Serving, Turn, QuietBefore, TablesOfTurn, TargetOfTurn,
        LoadsInTurn, Served, BootOwnTables, Kicking, HasOwn, Called
<1>0. /\ QuietBefore /\ TablesOfTurn /\ TargetOfTurn /\ LoadsInTurn /\ Served /\ BootOwnTables
      /\ BootTypeOK /\ bsp.core \in Nat
      /\ NO_COMMAND # SET_DT /\ NO_COMMAND # SET_SMP /\ SET_DT # SET_SMP
  BY DEF BootInv, BootTypeOK, BspTyped, NO_COMMAND, SET_DT, SET_SMP
<1>1. ASSUME NEW pc \in ApPcs, pc \in {"wait", "started"}, Kicking, Kicking',
             bsp.core \in Aps, UNCHANGED <<mail, tables>>,
             ap' \in {ap, [ap EXCEPT ![bsp.core].pc = pc]}
      PROVE  Turn'
  <2>1. \A i \in Aps : /\ ap'[i].pc \in {ap[i].pc, "wait", "started"}
                       /\ ap'[i].gdt = ap[i].gdt /\ ap'[i].idt = ap[i].idt
    BY <1>0, <1>1 DEF BootTypeOK, Core
  <2>2. QED
    BY <1>0, <1>1, <2>1
<1>2. CASE ap_kickstart
  BY <1>0, <1>1, <1>2 DEF ap_kickstart, ApPcs, BootTypeOK, BspTyped
<1>3. CASE FirstSipi
  BY <1>0, <1>1, <1>3 DEF FirstSipi, Sipi, ApPcs, BootTypeOK, BspTyped
<1>4. CASE SecondSipi
  <2>1. bsp.pc = "check" /\ bsp'.pc = "kick" /\ bsp.core \in Aps
    BY <1>0, <1>4 DEF SecondSipi, Sipi, BootTypeOK, BspTyped
  <2>2. /\ UNCHANGED <<mail, tables>>
        /\ ap' \in {ap, [ap EXCEPT ![bsp.core].pc = "started"]}
    BY <1>4 DEF SecondSipi, Sipi
  <2>3. QED
    BY <1>1, <2>1, <2>2 DEF ApPcs
<1>5. CASE Init_Core_0
  <2>1. bsp'.pc = "gdt" /\ bsp'.core = 1 /\ UNCHANGED <<ap, mail, tables>> /\ Kicking
    BY <1>0, <1>5 DEF Init_Core_0, BootTypeOK, BspTyped
  <2>2. QED
    BY <1>0, <2>1
<1>6. CASE SetGdt
  <2>1. /\ bsp.pc = "gdt" /\ bsp'.pc = "idt" /\ bsp'.core = bsp.core
        /\ UNCHANGED <<ap, mail>> /\ tables'.gdt = bsp.core
    BY <1>0, <1>6 DEF SetGdt, BootTypeOK, BspTyped
  <2>2. QED
    BY <1>0, <2>1
<1>7. CASE SetIdt
  <2>1. /\ bsp.pc = "idt" /\ bsp'.pc = "cmd" /\ bsp'.core = bsp.core
        /\ UNCHANGED <<ap, mail>> /\ tables'.idt = bsp.core /\ tables'.gdt = tables.gdt
    BY <1>0, <1>7 DEF SetIdt, BootTypeOK, BspTyped
  <2>2. QED
    BY <1>0, <2>1
<1>8. CASE SetCommand
  <2>1. /\ bsp.pc = "cmd" /\ bsp'.pc = "target" /\ bsp'.core = bsp.core
        /\ UNCHANGED <<ap, tables>> /\ mail'.cmd = SET_DT /\ mail'.target = mail.target
    BY <1>0, <1>8 DEF SetCommand, BootTypeOK, BspTyped
  <2>2. QED
    BY <1>0, <2>1
<1>9. CASE SetTarget
  <2>1. /\ bsp.pc = "target" /\ bsp'.pc = "await" /\ bsp'.core = bsp.core
        /\ UNCHANGED <<ap, tables>> /\ mail'.cmd = mail.cmd /\ mail'.target = bsp.core
    BY <1>0, <1>9 DEF SetTarget, BootTypeOK, BspTyped
  <2>2. QED
    BY <1>0, <2>1
<1>10. CASE AwaitCleared
  <2>1. /\ bsp.pc = "await" /\ mail.cmd # SET_DT
        /\ bsp'.pc = "gdt" /\ bsp'.core = bsp.core + 1 /\ UNCHANGED <<ap, mail, tables>>
    BY <1>0, <1>10 DEF AwaitCleared, BootTypeOK, BspTyped
  <2>2. QED
    BY <1>0, <2>1
<1>11. CASE SetAllGoing
  <2>1. /\ bsp.pc = "gdt" /\ bsp'.pc = "running" /\ bsp'.core = bsp.core
        /\ UNCHANGED <<ap, tables>> /\ mail'.cmd = SET_SMP /\ mail'.target = mail.target
    BY <1>0, <1>11 DEF SetAllGoing, BootTypeOK, BspTyped
  <2>2. bsp.core = BootCores
    BY <1>0, <1>11 DEF SetAllGoing, BootTypeOK, BspTyped, Aps
  <2>3. QED
    BY <1>0, <2>1, <2>2
<1>12. QED
  BY <1>2, <1>3, <1>4, <1>5, <1>6, <1>7, <1>8, <1>9, <1>10, <1>11 DEF BspStep

-----------------------------------------------------------------------------
(* What a step of core i writes.                                            *)
LEMMA ApEffect ==
  ASSUME BootTypeOK, NEW i \in Aps, NEW c \in Core, ap' = [ap EXCEPT ![i] = c]
  PROVE  /\ ap' \in [Aps -> Core] /\ ap'[i] = c
         /\ \A j \in Aps : j # i => ap'[j] = ap[j]
  BY DEF BootTypeOK

(* A core that does not load a table and does not write to the words.       *)
LEMMA ApMoves ==
  ASSUME BootInv, NEW i \in Aps, NEW c \in Core, ap' = [ap EXCEPT ![i] = c],
         c.gdt = ap[i].gdt, c.idt = ap[i].idt, UNCHANGED <<bsp, mail, tables>>,
         counter' \in Nat, ap[i].pc # "clear2",
         c.pc \in {"count", "lpp", "set_DT", "lgdt", "set_smp", "smp"},
         c.pc \in {"set_smp", "smp"} => HasOwn(i),
         c.pc = "lgdt" => Called(i)
  PROVE  BootInv'
<1> USE CoreFacts
<1>1. /\ ap' \in [Aps -> Core] /\ ap'[i] = c
      /\ \A j \in Aps : j # i => ap'[j] = ap[j]
  BY ApEffect DEF BootInv
<1>2. BootTypeOK'
  BY <1>1 DEF BootInv, BootTypeOK, BspTyped
<1>3. \A j \in Aps : /\ ap'[j].gdt = ap[j].gdt /\ ap'[j].idt = ap[j].idt
                     /\ j = i \/ ap'[j].pc = ap[j].pc
  BY <1>1
<1>4. QED
  BY <1>1, <1>2, <1>3 DEF BootInv, QuietBefore, TablesOfTurn, TargetOfTurn, LoadsInTurn,
     Served, BootOwnTables, Kicking, HasOwn, Called

LEMMA ApInv ==
  ASSUME BootInv, NEW i \in Aps, ApStep(i)
  PROVE  BootInv'
<1> USE CoreFacts DEF ApPcs
<1>0. /\ QuietBefore /\ TablesOfTurn /\ TargetOfTurn /\ LoadsInTurn /\ Served /\ BootOwnTables
      /\ BootTypeOK /\ ap[i] \in Core /\ counter \in Nat
      /\ NO_COMMAND # SET_DT /\ NO_COMMAND # SET_SMP /\ SET_DT # SET_SMP
  BY DEF BootInv, BootTypeOK, NO_COMMAND, SET_DT, SET_SMP
<1>1. CASE CountRead(i)
  <2>1. [ap[i] EXCEPT !.pc = "count", !.read = counter] \in Core
    BY <1>0 DEF Core
  <2>2. ap' = [ap EXCEPT ![i] = [ap[i] EXCEPT !.pc = "count", !.read = counter]]
    BY <1>1 DEF CountRead
  <2>3. QED
    BY <1>0, <1>1, <2>1, <2>2, ApMoves DEF CountRead, Core
<1>2. CASE CountWrite(i)
  <2>0. ap[i].read + 1 \in Nat
    BY <1>0 DEF Core
  <2>1. [ap[i] EXCEPT !.pc = "lpp", !.read = 0] \in Core
    BY <1>0 DEF Core
  <2>2. ap' = [ap EXCEPT ![i] = [ap[i] EXCEPT !.pc = "lpp", !.read = 0]]
    BY <1>2 DEF CountWrite
  <2>3. QED
    BY <1>0, <1>2, <2>0, <2>1, <2>2, ApMoves DEF CountWrite, Core
<1>3. CASE lpp(i)
  <2> DEFINE pc == IF mail.cmd = SET_DT THEN "set_DT" ELSE "set_smp"
  <2>1. [ap[i] EXCEPT !.pc = pc] \in Core
    BY <1>0 DEF Core
  <2>2. ap' = [ap EXCEPT ![i] = [ap[i] EXCEPT !.pc = pc]]
    BY <1>3 DEF lpp
  <2>3. pc = "set_smp" => HasOwn(i)
    <3>1. SUFFICES ASSUME mail.cmd # SET_DT PROVE HasOwn(i)
      OBVIOUS
    <3>2. mail.cmd = SET_SMP
      BY <1>0, <1>3, <3>1 DEF lpp, BootTypeOK
    <3>3. bsp.pc = "running" /\ bsp.core = BootCores
      BY <1>0, <3>2 DEF TablesOfTurn, Served
    <3>4. i < bsp.core
      BY <3>3 DEF Aps
    <3>5. QED
      BY <1>0, <3>3, <3>4 DEF Served, Kicking
  <2>4. QED
    BY <1>0, <1>3, <2>1, <2>2, <2>3, ApMoves DEF lpp, Core
<1>4. CASE set_DT(i)
  <2> DEFINE pc == IF mail.target = i THEN "lgdt" ELSE "lpp"
  <2>1. [ap[i] EXCEPT !.pc = pc] \in Core
    BY <1>0 DEF Core
  <2>2. ap' = [ap EXCEPT ![i] = [ap[i] EXCEPT !.pc = pc]]
    BY <1>4 DEF set_DT
  <2>3. pc = "lgdt" => Called(i)
    BY <1>0, <1>4 DEF set_DT, TargetOfTurn
  <2>4. QED
    BY <1>0, <1>4, <2>1, <2>2, <2>3, ApMoves DEF set_DT, Core
<1>5. CASE set_smp(i)
  <2>1. [ap[i] EXCEPT !.pc = "smp"] \in Core
    BY <1>0 DEF Core
  <2>2. ap' = [ap EXCEPT ![i] = [ap[i] EXCEPT !.pc = "smp"]]
    BY <1>5 DEF set_smp
  <2>3. HasOwn(i)
    BY <1>0, <1>5 DEF set_smp, LoadsInTurn
  <2>4. QED
    BY <1>0, <1>5, <2>1, <2>2, <2>3, ApMoves DEF set_smp, Core
<1>6. CASE lgdt(i)
  <2>1. Called(i) /\ tables.gdt = i
    BY <1>0, <1>6 DEF lgdt, LoadsInTurn, Called, TablesOfTurn
  <2> DEFINE c == [ap[i] EXCEPT !.pc = "lidt", !.gdt = i]
  <2>2. c \in Core /\ c.pc = "lidt" /\ c.gdt = i /\ c.idt = ap[i].idt
    BY <1>0 DEF Core
  <2>3. ap' = [ap EXCEPT ![i] = c]
    BY <1>6, <2>1 DEF lgdt
  <2> HIDE DEF c
  <2>4. /\ ap' \in [Aps -> Core] /\ ap'[i] = c /\ \A j \in Aps : j # i => ap'[j] = ap[j]
    BY <1>0, <2>2, <2>3, ApEffect
  <2>5. UNCHANGED <<bsp, mail, tables, counter>> /\ ap[i].pc = "lgdt"
    BY <1>6 DEF lgdt
  <2>6. BootTypeOK'
    BY <1>0, <2>4, <2>5 DEF BootTypeOK, BspTyped
  <2>7. QED
    BY <1>0, <2>1, <2>2, <2>4, <2>5, <2>6 DEF BootInv, QuietBefore, TablesOfTurn,
       TargetOfTurn, LoadsInTurn, Served, BootOwnTables, Kicking, HasOwn, Called
<1>7. CASE lidt(i)
  <2>1. Called(i) /\ tables.idt = i /\ ap[i].gdt = i
    BY <1>0, <1>7 DEF lidt, LoadsInTurn, Called, TablesOfTurn
  <2> DEFINE c == [ap[i] EXCEPT !.pc = "clear", !.idt = i]
  <2>2. c \in Core /\ c.pc = "clear" /\ c.idt = i /\ c.gdt = i
    BY <1>0, <2>1 DEF Core
  <2>3. ap' = [ap EXCEPT ![i] = c]
    BY <1>7, <2>1 DEF lidt
  <2> HIDE DEF c
  <2>4. /\ ap' \in [Aps -> Core] /\ ap'[i] = c /\ \A j \in Aps : j # i => ap'[j] = ap[j]
    BY <1>0, <2>2, <2>3, ApEffect
  <2>5. UNCHANGED <<bsp, mail, tables, counter>> /\ ap[i].pc = "lidt"
    BY <1>7 DEF lidt
  <2>6. BootTypeOK'
    BY <1>0, <2>4, <2>5 DEF BootTypeOK, BspTyped
  <2>7. QED
    BY <1>0, <2>1, <2>2, <2>4, <2>5, <2>6 DEF BootInv, QuietBefore, TablesOfTurn,
       TargetOfTurn, LoadsInTurn, Served, BootOwnTables, Kicking, HasOwn, Called
<1>8. CASE ClearCommand(i)
  <2>1. Called(i) /\ HasOwn(i)
    BY <1>0, <1>8 DEF ClearCommand, LoadsInTurn, HasOwn
  <2> DEFINE c == [ap[i] EXCEPT !.pc = "clear2"]
  <2>2. c \in Core /\ c.pc = "clear2" /\ c.idt = ap[i].idt /\ c.gdt = ap[i].gdt
    BY <1>0 DEF Core
  <2>3. ap' = [ap EXCEPT ![i] = c]
    BY <1>8 DEF ClearCommand
  <2> HIDE DEF c
  <2>4. /\ ap' \in [Aps -> Core] /\ ap'[i] = c /\ \A j \in Aps : j # i => ap'[j] = ap[j]
    BY <1>0, <2>2, <2>3, ApEffect
  <2>5. /\ UNCHANGED <<bsp, tables, counter>> /\ ap[i].pc = "clear"
        /\ mail' = [mail EXCEPT !.cmd = NO_COMMAND]
    BY <1>8 DEF ClearCommand
  <2>6. mail'.cmd = NO_COMMAND /\ mail'.target = mail.target /\ BootTypeOK'
    BY <1>0, <2>4, <2>5 DEF BootTypeOK, BspTyped
  <2>7. QED
    BY <1>0, <2>1, <2>2, <2>4, <2>5, <2>6 DEF BootInv, QuietBefore, TablesOfTurn,
       TargetOfTurn, LoadsInTurn, Served, BootOwnTables, Kicking, HasOwn, Called
<1>9. CASE ClearTarget(i)
  <2> DEFINE c == [ap[i] EXCEPT !.pc = "lpp"]
  <2>2. c \in Core /\ c.pc = "lpp" /\ c.idt = ap[i].idt /\ c.gdt = ap[i].gdt
    BY <1>0 DEF Core
  <2>3. ap' = [ap EXCEPT ![i] = c]
    BY <1>9 DEF ClearTarget
  <2> HIDE DEF c
  <2>4. /\ ap' \in [Aps -> Core] /\ ap'[i] = c /\ \A j \in Aps : j # i => ap'[j] = ap[j]
    BY <1>0, <2>2, <2>3, ApEffect
  <2>5. /\ UNCHANGED <<bsp, tables, counter>> /\ ap[i].pc = "clear2"
        /\ mail' = [mail EXCEPT !.target = 0]
    BY <1>9 DEF ClearTarget
  <2>6. mail'.cmd = mail.cmd /\ mail'.target = 0 /\ BootTypeOK'
    BY <1>0, <2>4, <2>5 DEF BootTypeOK, BspTyped
  <2>7. \A j \in Aps : /\ ap'[j].gdt = ap[j].gdt /\ ap'[j].idt = ap[j].idt
                       /\ ap'[j].pc \in {ap[j].pc, "lpp"}
    BY <2>2, <2>4
  <2>8. TargetOfTurn' /\ QuietBefore' /\ TablesOfTurn'
    BY <1>0, <2>5, <2>6 DEF TargetOfTurn, QuietBefore, TablesOfTurn, Kicking
  <2>9. /\ Kicking' = Kicking /\ bsp'.core = bsp.core /\ bsp'.pc = bsp.pc
        /\ \A j \in Aps : HasOwn(j)' = HasOwn(j) /\ Called(j)' = Called(j)
    BY <2>5, <2>6, <2>7 DEF Kicking, HasOwn, Called
  <2>10. LoadsInTurn'
    BY <1>0, <2>7, <2>9 DEF LoadsInTurn
  <2>11. Served'
    <3>1. bsp.pc = "await" => HasOwn(bsp.core)' = HasOwn(bsp.core)
      BY <1>0, <2>5, <2>7 DEF HasOwn, BootTypeOK, BspTyped
    <3>2. QED
      BY <1>0, <2>5, <2>6, <2>9, <3>1 DEF Served
  <2>12. BootOwnTables'
    BY <1>0, <2>7 DEF BootOwnTables
  <2>13. QED
    BY <2>6, <2>8, <2>10, <2>11, <2>12 DEF BootInv
<1>10. QED
  BY <1>1, <1>2, <1>3, <1>4, <1>5, <1>6, <1>7, <1>8, <1>9 DEF ApStep

-----------------------------------------------------------------------------
(* Only the core whose turn it is loads tables, and those are its own.      *)
THEOREM BootInvariant == BootSpec => []BootInv
<1>1. BootInv /\ [BootNext]_bootVars => BootInv'
  <2> SUFFICES ASSUME BootInv, [BootNext]_bootVars PROVE BootInv'
    OBVIOUS
  <2>1. CASE BspStep
    BY <2>1, BspTypeStep, BspTurnStep DEF BootInv, Turn
  <2>2. ASSUME NEW i \in Aps, ApStep(i) PROVE BootInv'
    BY <2>2, ApInv
  <2>3. CASE UNCHANGED bootVars
    BY <2>3 DEF bootVars, BootInv, BootTypeOK, BspTyped, QuietBefore, TablesOfTurn,
       TargetOfTurn, LoadsInTurn, Served, BootOwnTables, Kicking, HasOwn, Called
  <2>4. QED
    BY <2>1, <2>2, <2>3 DEF BootNext
<1>2. QED
  BY <1>1, BootInvInit, PTL DEF BootSpec

(* A core loads the tables that Init_Core made for it and no other core's,  *)
(* and enters its switcher with both.                                       *)
THEOREM BootOwnTablesHolds == BootSpec => []BootOwnTables
<1>1. BootInv => BootOwnTables
  BY DEF BootInv
<1>2. QED
  BY <1>1, BootInvariant, PTL
=============================================================================
