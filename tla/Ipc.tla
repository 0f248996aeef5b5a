--------------------------------- MODULE Ipc ---------------------------------
(***************************************************************************)
(* The packet list of one core (IPCInterface.c): tasks of other cores      *)
(* append to it in IPCdispatch, the core's own task IPCprocessorP_t takes  *)
(* packets off it. Both run unoptimised and without an atomic instruction: *)
(* a step is one access to the shared record, the lock among them. What a  *)
(* packet asks for is left out; it is carried out in Execute.              *)
(***************************************************************************)
EXTENDS Integers, Sequences

CONSTANTS
  IpcSenders,  \* the tasks that send
  IpcEach      \* bound: packets each of them sends

ASSUME IpcAssumption == IpcEach \in [IpcSenders -> Nat]

VARIABLES
  record,   \* IPCRecord_t: [start, last, entries, lock]
  nextOf,     \* the field `next' of the packets
  sender,   \* [pc, k, last, read]: what a task does, the packets it has begun to
            \* send, what it has read of `last' and `entries'
  receiver, \* [pc, pp, next, read]
  executed, \* the packets in the order in which they were carried out
  linked    \* history: [clock, stamp], the order in which packets got into the list

ipcVars == <<record, nextOf, sender, receiver, executed, linked>>

(* Every packet is allocated anew, and none is freed.                       *)
Packets == UNION {{s} \X (1..IpcEach[s]) : s \in IpcSenders}
NULL == <<>>

IpcInit ==
  /\ record = [start |-> NULL, last |-> NULL, entries |-> 0, lock |-> 0]
  /\ nextOf = [p \in Packets |-> NULL]
  /\ sender = [s \in IpcSenders |-> [pc |-> "idle", k |-> 0, last |-> NULL, read |-> 0]]
  /\ receiver = [pc |-> "entries", pp |-> NULL, next |-> NULL, read |-> 0]
  /\ executed = <<>>
  /\ linked = [clock |-> 0, stamp |-> [p \in Packets |-> 0]]

-----------------------------------------------------------------------------
(* IPCdispatch                                                              *)

Own(s) == <<s, sender[s].k>>
SendAt(s, pc) == sender[s].pc = pc
Sends(s, pc) == sender' = [sender EXCEPT ![s].pc = pc]
Linked(p) == linked' = [linked EXCEPT !.clock = @ + 1, !.stamp[p] = linked.clock + 1]

Dispatch(s) ==
  /\ SendAt(s, "idle") /\ sender[s].k < IpcEach[s]
  /\ sender' = [sender EXCEPT ![s].pc = "test", ![s].k = @ + 1]
  /\ UNCHANGED <<record, nextOf, receiver, executed, linked>>

TestLock(s) ==
  /\ SendAt(s, "test") /\ record.lock = 0
  /\ Sends(s, "set")
  /\ UNCHANGED <<record, nextOf, receiver, executed, linked>>

SetLock(s) ==
  /\ SendAt(s, "set")
  /\ record' = [record EXCEPT !.lock = 1]
  /\ Sends(s, "empty")
  /\ UNCHANGED <<nextOf, receiver, executed, linked>>

TestEmpty(s) ==
  /\ SendAt(s, "empty")
  /\ Sends(s, IF record.entries = 0 THEN "start" ELSE "link")
  /\ UNCHANGED <<record, nextOf, receiver, executed, linked>>

SetStart(s) ==
  /\ SendAt(s, "start")
  /\ record' = [record EXCEPT !.start = Own(s)]
  /\ Linked(Own(s))
  /\ Sends(s, "last")
  /\ UNCHANGED <<nextOf, receiver, executed>>

(* Whoever finds an entry finds a last packet: `last' is set first and      *)
(* never cleared. It may be another one when the link is written.           *)
LoadLast(s) ==
  /\ SendAt(s, "link")
  /\ sender' = [sender EXCEPT ![s].pc = "store", ![s].last = record.last]
  /\ UNCHANGED <<record, nextOf, receiver, executed, linked>>

LinkLast(s) ==
  /\ SendAt(s, "store")
  /\ nextOf' = [nextOf EXCEPT ![sender[s].last] = Own(s)]
  /\ Linked(Own(s))
  /\ sender' = [sender EXCEPT ![s].pc = "last", ![s].last = NULL]
  /\ UNCHANGED <<record, receiver, executed>>

SetLast(s) ==
  /\ SendAt(s, "last")
  /\ record' = [record EXCEPT !.last = Own(s)]
  /\ Sends(s, "end")
  /\ UNCHANGED <<nextOf, receiver, executed, linked>>

EndList(s) ==
  /\ SendAt(s, "end")
  /\ nextOf' = [nextOf EXCEPT ![Own(s)] = NULL]
  /\ Sends(s, "read")
  /\ UNCHANGED <<record, receiver, executed, linked>>

ReadCount(s) ==
  /\ SendAt(s, "read")
  /\ sender' = [sender EXCEPT ![s].pc = "count", ![s].read = record.entries]
  /\ UNCHANGED <<record, nextOf, receiver, executed, linked>>

WriteCount(s) ==
  /\ SendAt(s, "count")
  /\ record' = [record EXCEPT !.entries = sender[s].read + 1]
  /\ sender' = [sender EXCEPT ![s].pc = "unlock", ![s].read = 0]
  /\ UNCHANGED <<nextOf, receiver, executed, linked>>

ClearLock(s) ==
  /\ SendAt(s, "unlock")
  /\ record' = [record EXCEPT !.lock = 0]
  /\ Sends(s, "idle")
  /\ UNCHANGED <<nextOf, receiver, executed, linked>>

-----------------------------------------------------------------------------
(* IPCprocessorP_t                                                          *)

RecvAt(pc) == receiver.pc = pc
Receives(pc) == receiver' = [receiver EXCEPT !.pc = pc]

TestEntries ==
  /\ RecvAt("entries")
  /\ Receives(IF record.entries = 0 THEN "unlock" ELSE "load")
  /\ UNCHANGED <<record, nextOf, sender, executed, linked>>

(* Before the lock is looked at.                                            *)
LoadFirst ==
  /\ RecvAt("load")
  /\ receiver' = [receiver EXCEPT !.pc = "test", !.pp = record.start]
  /\ UNCHANGED <<record, nextOf, sender, executed, linked>>

ReceiverTestLock ==
  /\ RecvAt("test") /\ record.lock = 0
  /\ Receives("set")
  /\ UNCHANGED <<record, nextOf, sender, executed, linked>>

ReceiverSetLock ==
  /\ RecvAt("set")
  /\ record' = [record EXCEPT !.lock = 1]
  /\ Receives("execute")
  /\ UNCHANGED <<nextOf, sender, executed, linked>>

(* The type of the packet selects what is done. With a null packet the type *)
(* and the next one come from address 0: that is the end of the model.      *)
Execute ==
  /\ RecvAt("execute")
  /\ IF receiver.pp = NULL THEN Receives("wild") /\ UNCHANGED executed
     ELSE Receives("advance") /\ executed' = Append(executed, receiver.pp)
  /\ UNCHANGED <<record, nextOf, sender, linked>>

LoadNext ==
  /\ RecvAt("advance")
  /\ receiver' = [receiver EXCEPT !.pc = "store", !.next = nextOf[receiver.pp]]
  /\ UNCHANGED <<record, nextOf, sender, executed, linked>>

(* Slip: the last packet stays in `start', entries says the list is empty.  *)
Advance_KeepsLast ==
  /\ RecvAt("store")
  /\ record' = [record EXCEPT !.start = IF record.entries = 1 THEN @ ELSE receiver.next]
  /\ receiver' = [receiver EXCEPT !.pc = "read", !.next = NULL]
  /\ UNCHANGED <<nextOf, sender, executed, linked>>

Advance ==
  /\ RecvAt("store")
  /\ record' = [record EXCEPT !.start = receiver.next]
  /\ receiver' = [receiver EXCEPT !.pc = "read", !.next = NULL]
  /\ UNCHANGED <<nextOf, sender, executed, linked>>

ReceiverReadCount ==
  /\ RecvAt("read")
  /\ receiver' = [receiver EXCEPT !.pc = "count", !.read = record.entries]
  /\ UNCHANGED <<record, nextOf, sender, executed, linked>>

(* uint32_t: below 0 it is a list that is never empty again. Bound: there   *)
(* the model ends.                                                          *)
ReceiverWriteCount ==
  /\ RecvAt("count")
  /\ IF receiver.read = 0 THEN Receives("wild") /\ UNCHANGED record
     ELSE /\ record' = [record EXCEPT !.entries = receiver.read - 1]
          /\ receiver' = [receiver EXCEPT !.pc = "unlock", !.read = 0]
  /\ UNCHANGED <<nextOf, sender, executed, linked>>

(* In every round, whoever has set the lock.                                *)
ReceiverClearLock ==
  /\ RecvAt("unlock")
  /\ record' = [record EXCEPT !.lock = 0]
  /\ receiver' = [receiver EXCEPT !.pc = "entries", !.pp = NULL]
  /\ UNCHANGED <<nextOf, sender, executed, linked>>

Send(s) ==
  \/ Dispatch(s) \/ TestLock(s) \/ SetLock(s) \/ TestEmpty(s) \/ SetStart(s)
  \/ LoadLast(s) \/ LinkLast(s) \/ SetLast(s) \/ EndList(s) \/ ReadCount(s)
  \/ WriteCount(s) \/ ClearLock(s)

Receive ==
  \/ TestEntries \/ LoadFirst \/ ReceiverTestLock \/ ReceiverSetLock \/ Execute
  \/ LoadNext \/ Advance \/ ReceiverReadCount \/ ReceiverWriteCount \/ ReceiverClearLock

IpcNext == Receive \/ \E s \in IpcSenders : Send(s)

IpcSpec == IpcInit /\ [][IpcNext]_ipcVars

-----------------------------------------------------------------------------
(* Properties                                                               *)

(* The lock keeps nobody out, so packets get lost. But no packet is ever    *)
(* carried out twice, and none before one that got into the list earlier:   *)
(* the activation of a task and its later kill never change places.         *)
IpcInOrder ==
  \A i, j \in DOMAIN executed :
    i < j => linked.stamp[executed[i]] < linked.stamp[executed[j]]
=============================================================================
