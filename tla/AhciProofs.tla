----------------------------- MODULE AhciProofs -----------------------------
(* Proofs about Ahci: what a transfer that reports success has moved, and   *)
(* what no transfer touches, for any number of controllers, ports, slots    *)
(* and sectors, any sizes of a PRD entry, a batch and a chunk, and wherever *)
(* the device fails.                                                        *)
EXTENDS Ahci, FiniteSetTheorems, TLAPS

Memories == {"buf", "iden"}
Sectors == 0..(AhSectors - 1)

(* The disk and the two memories are functions on sectors.                  *)
AhShape ==
  /\ ahDisk = [s \in Sectors |-> ahDisk[s]]
  /\ ahMem = [m \in Memories |-> ahMem[m]]
  /\ \A m \in Memories : ahMem[m] = [i \in AhMany |-> ahMem[m][i]]

(* The disk that Disk_Setup has chosen is a port.                           *)
AhSysOK ==
  /\ ahSys \in [at : {"probe", "wild", "ready", "no_disk"}, controller : Nat \ {0},
                disks : Nat, sata : Nat,
                table : [1..AhControllers -> SUBSET (0..(AhPorts - 1))],
                curr : AhAllPorts \cup {<<>>}]
  /\ ahSys.sata # 0 => 1 \in 1..AhControllers
  /\ ahSys.at = "ready" => ahSys.curr \in AhAllPorts

(* Commands that never come to an end leave their error behind.             *)
AhPortOK ==
  /\ ahPort \in [AhAllPorts -> [ci : SUBSET Nat, tfes : BOOLEAN]]
  /\ \A p \in AhAllPorts : ahPort[p].ci # {} => ahPort[p].tfes

(* The steps of a round.                                                    *)
AhSteps(op, count) ==
  IF op = "aq_read" THEN 2 * AhWhole(count) + 2
  ELSE IF op = "aq_write" THEN AhWhole(count) + 2
  ELSE IF op = "write_part" THEN 4 ELSE 1

AhRunning ==
  /\ ahCall.lower \in Nat /\ ahCall.count \in AhCounts
  /\ ahCall.round \in Nat \ {0} /\ ahCall.next \in Nat \ {0}
  /\ ahCall.last \in 0..AhSteps(ahCall.op, ahCall.count)
  /\ ahCall.next <= ahCall.last + 1
  /\ ahCall.was = [s \in Sectors |-> ahCall.was[s]]
  /\ ahSys.at \in {"ready", "no_disk"}
  /\ ahSys.at = "no_disk" => ahCall.last = 0
  /\ ~ (ahCall.op \in AhDirect /\ AhChunk < ahCall.count) =>
       ahCall.round = 1 /\ ahCall.rounds = 1
  /\ ahCall.result = 1 /\ ahSys.at = "ready" =>
       ahCall.last = AhSteps(ahCall.op, ahCall.count)

AhCallOK ==
  /\ ahCall = [op |-> ahCall.op, lower |-> ahCall.lower, count |-> ahCall.count,
               round |-> ahCall.round, rounds |-> ahCall.rounds, next |-> ahCall.next,
               last |-> ahCall.last, left |-> ahCall.left, was |-> ahCall.was,
               result |-> ahCall.result]
  /\ ahCall.op \in AhOps \cup {"none"}
  /\ ahCall.op = "none" => ahMem = AhFresh
  /\ ahCall.op # "none" => AhRunning

AhTyped == AhShape /\ AhSysOK /\ AhPortOK /\ AhCallOK

Failing == ahPort[ahSys.curr].tfes
Buf(i) == ahMem["buf"][i]
Iden(i) == ahMem["iden"][i]
Within == {j \in Nat : j < AhAsked}
Finished == ahCall.next = AhSteps(ahCall.op, ahCall.count) + 1

OnlyAsked ==
  \A s \in Sectors :
    \/ ahDisk[s] = ahCall.was[s]
    \/ /\ ahCall.lower <= s /\ s < ahCall.lower + AhAsked
       /\ ahDisk[s] = AhNew(s - ahCall.lower)

(* What a transfer leaves alone. The buffer of a write keeps what the       *)
(* caller put into it, a read leaves the disk as it was.                    *)
AhLeaves ==
  /\ ahCall.op \in AhWrites => \A i \in AhMany : Buf(i) = AhNew(i)
  /\ ahCall.op \notin AhWrites /\ ahCall.op # "none" => ahDisk = ahCall.was
  /\ ahCall.op = "aq_write" /\ ahCall.count <= AhChunk /\ ahCall.next >= 2 =>
       \A j \in Within : Iden(j) = AhNew(j)
  /\ ahCall.op \in AhWrites /\ (ahCall.op = "aq_write" => ahCall.count < AhBatch)
     /\ ~ (ahCall.op = "write_part" /\ ahCall.next = 5) =>
       OnlyAsked
  /\ ahCall.op = "write_part" /\ ahCall.next \in {3, 4} /\ ~ Failing =>
       /\ ahCall.lower + ahCall.count \in Sectors
       /\ Iden(0) = IF ahCall.next = 3 THEN ahCall.was[ahCall.lower + ahCall.count]
                    ELSE <<"part", AhNew(ahCall.count), ahCall.was[ahCall.lower + ahCall.count]>>
  /\ ahCall.op = "write_part" /\ ahCall.next = 5 /\ ~ Failing =>
       ahDisk[ahCall.lower + ahCall.count] =
         <<"part", AhNew(ahCall.count), ahCall.was[ahCall.lower + ahCall.count]>>
  /\ AhElsewhere

(* What a transfer that has met no error has moved so far.                  *)
Written(j) ==
  ahCall.lower + j \in Sectors /\ ahDisk[ahCall.lower + j] = AhNew(j)

Batches(k) == {j \in Within : j < k * AhBatch \/ k = AhWhole(ahCall.count) + 1}

AhProgress ==
  ahCall.op # "none" /\ ahCall.result = 1 /\ ahSys.at = "ready" /\ ahCall.count <= AhChunk =>
    /\ ahCall.op = "aq_write" /\ ahCall.next >= 2 =>
         \A j \in Batches(ahCall.next - 2) : Written(j)
    /\ ahCall.op \in AhWrites \ {"aq_write"} /\ ahCall.next >= 2 =>
         \A j \in Within : Written(j)
    /\ ahCall.op = "aq_read" =>
         /\ \A j \in Batches(ahCall.next \div 2) : Iden(j) = ahCall.was[ahCall.lower + j]
         /\ \A j \in Batches((ahCall.next - 1) \div 2) : Buf(j) = ahCall.was[ahCall.lower + j]
    /\ ahCall.op \in {"read", "sec_read"} /\ ahCall.next >= 2 =>
         \A j \in Within : Buf(j) = ahCall.was[ahCall.lower + j]

AhInv == AhTyped /\ AhLeaves /\ AhProgress

-----------------------------------------------------------------------------
(* Arithmetic.                                                              *)

LEMMA Multiples ==
  ASSUME NEW a \in Nat, NEW b \in Nat, NEW c \in Nat, a <= b
  PROVE  a * c <= b * c
<1>1. PICK d \in Nat : b = a + d
  <2>1. b - a \in Nat /\ b = a + (b - a)
    OBVIOUS
  <2> QED
    BY <2>1
<1>2. (a + d) * c = a * c + d * c /\ d * c >= 0 /\ d * c \in Nat /\ a * c \in Nat
  OBVIOUS
<1> QED
  BY <1>1, <1>2

LEMMA Quotient ==
  ASSUME NEW a \in Nat, NEW b \in Nat \ {0}
  PROVE  /\ a \div b \in Nat
         /\ (a \div b) * b <= a /\ a < (a \div b) * b + b
  OBVIOUS

(* Taken together the PRD entries of a command cover its sectors.           *)
LEMMA Covered ==
  ASSUME NEW n \in Nat \ {0}
  PROVE  AhCovered(n) = 0..(n - 1)
<1> USE AhAssumption
<1> DEFINE last == (n - 1) \div AhPrd
<1>1. last \in Nat /\ last * AhPrd <= n - 1 /\ n - 1 < last * AhPrd + AhPrd
  BY Quotient
<1>2. ASSUME NEW i \in 0..(n - 1)
      PROVE  \E e \in 0..last : e * AhPrd <= i /\ (e # last => i < (e + 1) * AhPrd)
  <2>1. CASE last * AhPrd <= i
    <3> WITNESS last \in 0..last
    <3> QED
      BY <2>1
  <2>2. CASE i < last * AhPrd
    <3> DEFINE e == i \div AhPrd
    <3>1. e \in Nat /\ e * AhPrd <= i /\ i < e * AhPrd + AhPrd
      BY Quotient
    <3>2. (e + 1) * AhPrd = e * AhPrd + AhPrd
      BY <3>1
    <3>3. e <= last
      <4>1. ~ (last <= e)  \/ last * AhPrd <= e * AhPrd
        BY <1>1, <3>1, Multiples
      <4> QED
        BY <1>1, <2>2, <3>1, <4>1
    <3> HIDE DEF e
    <3>4. e \in 0..last
      BY <3>1, <3>3, <1>1
    <3> QED
      BY <3>1, <3>2, <3>4
  <2>3. last * AhPrd \in Nat
    BY <1>1
  <2> QED
    BY <2>1, <2>2, <2>3, <1>1
<1> QED
  BY <1>2 DEF AhCovered

LEMMA Counts ==
  ASSUME NEW count \in AhCounts
  PROVE  /\ count \in Nat \ {0} /\ count <= AhMost
         /\ AhWhole(count) \in Nat
         /\ AhWhole(count) * AhBatch <= count
         /\ count < AhWhole(count) * AhBatch + AhBatch
         /\ AhChunkOf(count) \in Nat \ {0}
         /\ count <= AhChunk => AhChunkOf(count) = count
         /\ count <= AhChunk => count \div AhChunkOf(count) = 1
         /\ \A i \in Nat : AhSize(i, count) \in Nat \ {0}
         /\ \A op \in AhOps : AhSteps(op, count) \in Nat \ {0}
<1> USE AhAssumption
<1>1. count \in Nat \ {0} /\ count <= AhMost
  OBVIOUS
<1>2. /\ AhWhole(count) \in Nat /\ AhWhole(count) * AhBatch <= count
      /\ count < AhWhole(count) * AhBatch + AhBatch
  BY <1>1, Quotient DEF AhWhole
<1>3. AhChunkOf(count) \in Nat \ {0} /\ (count <= AhChunk => AhChunkOf(count) = count)
  BY <1>1 DEF AhChunkOf
<1>4. count \div count = 1
  <2> DEFINE q == count \div count
  <2>1. q \in Nat /\ q * count <= count /\ count < q * count + count
    BY <1>1, Quotient
  <2>2. 2 <= q => 2 * count <= q * count
    BY <1>1, <2>1, Multiples
  <2>3. q # 0
    BY <1>1, <2>1
  <2> HIDE DEF q
  <2>4. q = 1
    BY <1>1, <2>1, <2>2, <2>3
  <2> QED
    BY <2>4 DEF q
<1>5. \A i \in Nat : AhSize(i, count) \in Nat \ {0}
  BY <1>1 DEF AhSize
<1>6. \A op \in AhOps : AhSteps(op, count) \in Nat \ {0}
  BY <1>2 DEF AhSteps
<1> QED
  BY <1>1, <1>2, <1>3, <1>4, <1>5, <1>6
-----------------------------------------------------------------------------
(* What the steps of a plan do to the disk and to the memories.             *)

LEMMA MemoryPut ==
  ASSUME AhShape, NEW m \in Memories, NEW w, w = [i \in AhMany |-> w[i]],
         ahMem' = [ahMem EXCEPT ![m] = w], UNCHANGED ahDisk
  PROVE  AhShape' /\ \A x \in Memories : ahMem'[x] = IF x = m THEN w ELSE ahMem[x]
<1>1. \A x \in Memories : ahMem'[x] = IF x = m THEN w ELSE ahMem[x]
  BY DEF AhShape
<1>2. ahMem' = [x \in Memories |-> ahMem'[x]]
  BY DEF AhShape
<1> QED
  BY <1>1, <1>2 DEF AhShape

(* A copy between the memories.                                             *)
LEMMA CopyEffect ==
  ASSUME AhShape, NEW c, AhStepCopy(c), c.mem \in Memories
  PROVE  /\ AhShape' /\ ahDisk' = ahDisk
         /\ \A m \in Memories : m # c.mem => ahMem'[m] = ahMem[m]
         /\ \A i \in AhMany : ahMem'[c.mem][i] =
              IF i - c.off \in 0..(c.n - 1) THEN AhGet(ahMem[c.from], c.off + (i - c.off))
              ELSE ahMem[c.mem][i]
<1> DEFINE w == [i \in AhMany |-> IF i - c.off \in 0..(c.n - 1)
                                THEN AhGet(ahMem[c.from], c.off + (i - c.off))
                                ELSE ahMem[c.mem][i]]
<1>1. DOMAIN ahMem[c.mem] = AhMany
  BY DEF AhShape
<1>2. ahMem' = [ahMem EXCEPT ![c.mem] = w]
  BY <1>1 DEF AhStepCopy, AhPut
<1>3. w = [i \in AhMany |-> w[i]]
  OBVIOUS
<1>4. ahDisk' = ahDisk
  BY DEF AhStepCopy
<1>5. \A i \in AhMany : w[i] = IF i - c.off \in 0..(c.n - 1)
                               THEN AhGet(ahMem[c.from], c.off + (i - c.off))
                               ELSE ahMem[c.mem][i]
  OBVIOUS
<1> HIDE DEF w
<1>6. AhShape' /\ \A x \in Memories : ahMem'[x] = IF x = c.mem THEN w ELSE ahMem[x]
  BY <1>2, <1>3, <1>4, MemoryPut
<1> QED
  BY <1>4, <1>5, <1>6

(* The device reads the sectors of a command into a memory.                 *)
LEMMA ReadEffect ==
  ASSUME AhShape, NEW c, AhMove(c), c.do = "read", c.mem \in Memories, c.n \in Nat \ {0}
  PROVE  /\ AhShape' /\ ahDisk' = ahDisk
         /\ \A m \in Memories : m # c.mem => ahMem'[m] = ahMem[m]
         /\ \A i \in AhMany : ahMem'[c.mem][i] =
              IF i - c.off \in 0..(c.n - 1) THEN AhGet(ahDisk, c.sector + (i - c.off))
              ELSE ahMem[c.mem][i]
<1> DEFINE w == [i \in AhMany |-> IF i - c.off \in 0..(c.n - 1)
                                THEN AhGet(ahDisk, c.sector + (i - c.off))
                                ELSE ahMem[c.mem][i]]
<1>1. DOMAIN ahMem[c.mem] = AhMany
  BY DEF AhShape
<1>2. ahMem' = [ahMem EXCEPT ![c.mem] = w] /\ ahDisk' = ahDisk
  BY <1>1, Covered DEF AhMove, AhPut
<1>3. w = [i \in AhMany |-> w[i]]
  OBVIOUS
<1>4. \A i \in AhMany : w[i] = IF i - c.off \in 0..(c.n - 1)
                               THEN AhGet(ahDisk, c.sector + (i - c.off))
                               ELSE ahMem[c.mem][i]
  OBVIOUS
<1> HIDE DEF w
<1>5. AhShape' /\ \A x \in Memories : ahMem'[x] = IF x = c.mem THEN w ELSE ahMem[x]
  BY <1>2, <1>3, MemoryPut
<1> QED
  BY <1>2, <1>4, <1>5

(* The device writes the sectors of a command from a memory.                *)
LEMMA WriteEffect ==
  ASSUME AhShape, NEW c, AhMove(c), c.do = "write", c.n \in Nat \ {0}
  PROVE  /\ AhShape' /\ ahMem' = ahMem
         /\ \A s \in Sectors : ahDisk'[s] =
              IF s - c.sector \in 0..(c.n - 1) THEN AhGet(ahMem[c.mem], c.off + (s - c.sector))
              ELSE ahDisk[s]
<1>1. DOMAIN ahDisk = Sectors
  BY DEF AhShape
<1>2. /\ ahMem' = ahMem
      /\ ahDisk' = [s \in Sectors |->
           IF s - c.sector \in 0..(c.n - 1) THEN AhGet(ahMem[c.mem], c.off + (s - c.sector))
           ELSE ahDisk[s]]
  BY <1>1, Covered DEF AhMove, AhPut
<1>3. AhShape'
  BY <1>2 DEF AhShape
<1> QED
  BY <1>2, <1>3

(* disk_write puts the left-over bytes into the sector it has read.         *)
LEMMA MergeEffect ==
  ASSUME AhShape, NEW c, AhStepMerge(c)
  PROVE  /\ AhShape' /\ ahDisk' = ahDisk /\ ahMem'["buf"] = ahMem["buf"]
         /\ ahMem'["iden"][0] = <<"part", AhGet(ahMem["buf"], c.off), ahMem["iden"][0]>>
<1> DEFINE x == <<"part", AhGet(ahMem["buf"], c.off), ahMem["iden"][0]>>
           w == [ahMem["iden"] EXCEPT ![0] = x]
<1>1. ahMem' = [ahMem EXCEPT !["iden"] = w] /\ ahDisk' = ahDisk
  BY DEF AhStepMerge
<1>2. "iden" \in Memories /\ "buf" \in Memories /\ "iden" # "buf"
  BY DEF Memories
<1>3. 0 \in AhMany
  BY AhAssumption DEF AhMany
<1>4. w = [i \in AhMany |-> w[i]] /\ w[0] = x
  <2> HIDE DEF x
  <2> QED
    BY <1>2, <1>3 DEF AhShape
<1> HIDE DEF w
<1>5. AhShape' /\ \A m \in Memories : ahMem'[m] = IF m = "iden" THEN w ELSE ahMem[m]
  BY <1>1, <1>2, <1>4, MemoryPut
<1> QED
  BY <1>1, <1>2, <1>4, <1>5

-----------------------------------------------------------------------------
(* SATA_Commander.                                                          *)

(* A port on which nothing has failed has a slot to give.                   *)
LEMMA SlotOfPort ==
  ASSUME AhPortOK, NEW p \in AhAllPorts
  PROVE  /\ find_cmdslot(p) \subseteq Nat
         /\ AhSlots \in Nat \ {0} /\ ~ ahPort[p].tfes => find_cmdslot(p) # {}
<1>1. find_cmdslot(p) \subseteq Nat
  BY AhAssumption DEF find_cmdslot
<1>2. ASSUME AhSlots \in Nat \ {0}, ~ ahPort[p].tfes
      PROVE  0 \in find_cmdslot(p)
  <2>1. ahPort[p].ci = {}
    BY <1>2 DEF AhPortOK
  <2> QED
    BY <1>2, <2>1 DEF find_cmdslot
<1> QED
  BY <1>1, <1>2

LEMMA Commander ==
  ASSUME AhPortOK, ahSys.curr \in AhAllPorts, NEW c, NEW result, SATA_Commander(c, result)
  PROVE  /\ AhPortOK'
         /\ \/ c.sector + c.n <= AhSectors /\ AhMove(c)
            \/ UNCHANGED <<ahDisk, ahMem>>
         /\ Failing => ahPort'[ahSys.curr].tfes /\ UNCHANGED <<ahDisk, ahMem>>
         /\ result = 0 => c.sector + c.n <= AhSectors /\ AhMove(c)
         /\ AhSlots \in Nat \ {0} /\ ~ ahPort'[ahSys.curr].tfes =>
              result = 0
<1> DEFINE p == ahSys.curr
<1>1. p \in AhAllPorts /\ find_cmdslot(p) \subseteq Nat
  BY SlotOfPort
<1>2. AhSlots \in Nat \ {0} /\ ~ ahPort[p].tfes => find_cmdslot(p) # {}
  BY SlotOfPort
<1>3. ahPort \in [AhAllPorts -> [ci : SUBSET Nat, tfes : BOOLEAN]]
  BY DEF AhPortOK
<1>4. CASE find_cmdslot(p) = {} /\ result = 2 /\ UNCHANGED <<ahPort, ahDisk, ahMem>>
  BY <1>2, <1>4 DEF AhPortOK, Failing
<1>5. CASE /\ find_cmdslot(p) # {} /\ ahPort[p].tfes /\ result = 1
           /\ ahPort' = [ahPort EXCEPT ![p].ci = ahPort[p].ci \cup find_cmdslot(p)]
           /\ UNCHANGED <<ahDisk, ahMem>>
  <2>1. ahPort' \in [AhAllPorts -> [ci : SUBSET Nat, tfes : BOOLEAN]]
    BY <1>1, <1>3, <1>5
  <2>2. \A q \in AhAllPorts : ahPort'[q].tfes = ahPort[q].tfes
    BY <1>1, <1>3, <1>5
  <2>3. \A q \in AhAllPorts : q # p => ahPort'[q] = ahPort[q]
    BY <1>1, <1>3, <1>5
  <2>4. AhPortOK'
    BY <1>5, <2>1, <2>2, <2>3 DEF AhPortOK
  <2> QED
    BY <1>1, <1>5, <2>2, <2>4
<1>6. CASE /\ find_cmdslot(p) # {} /\ ~ ahPort[p].tfes /\ c.sector + c.n <= AhSectors
           /\ result = 0 /\ AhMove(c) /\ UNCHANGED ahPort
  BY <1>6 DEF AhPortOK, Failing
<1>7. CASE /\ find_cmdslot(p) # {} /\ ~ ahPort[p].tfes /\ result = 1
           /\ \E stays \in {{}, find_cmdslot(p)} :
                ahPort' = [ahPort EXCEPT ![p] = [ci |-> ahPort[p].ci \cup stays, tfes |-> TRUE]]
           /\ (c.sector + c.n <= AhSectors /\ AhMove(c)) \/ UNCHANGED <<ahDisk, ahMem>>
  <2>1. PICK stays \in {{}, find_cmdslot(p)} :
          ahPort' = [ahPort EXCEPT ![p] = [ci |-> ahPort[p].ci \cup stays, tfes |-> TRUE]]
    BY <1>7
  <2>2. stays \subseteq Nat
    BY <1>1
  <2>3. ahPort' \in [AhAllPorts -> [ci : SUBSET Nat, tfes : BOOLEAN]]
    BY <1>1, <1>3, <2>1, <2>2
  <2>4. ahPort'[p].tfes = TRUE /\ \A q \in AhAllPorts : q # p => ahPort'[q] = ahPort[q]
    BY <1>1, <1>3, <2>1
  <2>5. AhPortOK'
    BY <2>3, <2>4 DEF AhPortOK
  <2> QED
    BY <1>7, <2>4, <2>5 DEF Failing
<1> QED
  BY <1>4, <1>5, <1>6, <1>7 DEF SATA_Commander

-----------------------------------------------------------------------------
(* The steps of the plans.                                                  *)

LEMMA LengthOf ==
  ASSUME NEW n \in Nat, NEW f, f = [k \in 1..n |-> f[k]]
  PROVE  Len(f) = n
<1> DEFINE S == {f[k] : k \in 1..n}
<1>1. f \in [1..n -> S]
  OBVIOUS
<1>2. f \in Seq(S)
  BY <1>1
<1> QED
  BY <1>1, <1>2

LEMMA PlanLength ==
  ASSUME NEW op \in AhOps, NEW count \in AhCounts, NEW lower, NEW base
  PROVE  Len(AhPlan(op, lower, count, base)) = AhSteps(op, count)
<1>1. AhWhole(count) \in Nat
  BY Counts
<1>2. CASE op = "aq_read"
  <2>1. Len(AqDirect_read(lower, count, base)) = 2 * AhWhole(count) + 2
    <3> DEFINE f == AqDirect_read(lower, count, base)
    <3>1. f = [k \in 1..(2 * AhWhole(count) + 2) |-> f[k]]
      BY DEF AqDirect_read
    <3> HIDE DEF f
    <3> QED
      BY <1>1, <3>1, LengthOf DEF f
  <2> QED
    BY <1>2, <2>1 DEF AhPlan, AhSteps
<1>3. CASE op = "aq_write"
  <2>1. Len(AqDirect_write(lower, count, base)) = AhWhole(count) + 2
    <3> DEFINE f == AqDirect_write(lower, count, base)
    <3>1. f = [k \in 1..(AhWhole(count) + 2) |-> f[k]]
      BY DEF AqDirect_write
    <3> HIDE DEF f
    <3> QED
      BY <1>1, <3>1, LengthOf DEF f
  <2> QED
    BY <1>3, <2>1 DEF AhPlan, AhSteps
<1>4. CASE op \in {"read", "write", "write_more", "sec_read", "sec_write"}
  BY <1>4 DEF AhPlan, AhSteps, disk_read, disk_write, disk_write_sector, sec_read_static,
              sec_write_static
<1>5. CASE op = "write_part"
  BY <1>5 DEF AhPlan, AhSteps, disk_write
<1> QED
  BY <1>2, <1>3, <1>4, <1>5 DEF AhOps

(* Where a round begins; the first begins where the transfer does.          *)
Base == (ahCall.round - 1) * (AhWhole(ahCall.count) * AhBatch)

Stepping == ahCall.op # "none" /\ ahCall.next <= ahCall.last

LEMMA InThePlan ==
  ASSUME AhCallOK, Stepping
  PROVE  /\ AhRunning /\ ahCall.op \in AhOps /\ ahCall.op # "none"
         /\ ahCall.next \in 1..AhSteps(ahCall.op, ahCall.count)
         /\ ahCall.count \in AhCounts /\ AhSteps(ahCall.op, ahCall.count) \in Nat
         /\ ahSys.at = "ready" /\ Base \in Nat
<1>1. AhRunning /\ ahCall.op \in AhOps /\ ahCall.op # "none"
  BY DEF AhCallOK, Stepping
<1>2. ahCall.count \in AhCounts /\ AhSteps(ahCall.op, ahCall.count) \in Nat
  BY <1>1, Counts DEF AhRunning
<1>3. ahCall.next \in 1..AhSteps(ahCall.op, ahCall.count)
  BY <1>1, <1>2 DEF AhRunning, Stepping
<1>4. ahSys.at = "ready"
  BY <1>1 DEF AhRunning, Stepping
<1>5. Base \in Nat
  <2>1. AhWhole(ahCall.count) \in Nat /\ AhBatch \in Nat /\ ahCall.round - 1 \in Nat
    <3>1. AhWhole(ahCall.count) \in Nat
      BY <1>2, Counts
    <3>2. ahCall.round - 1 \in Nat
      BY <1>1 DEF AhRunning
    <3> QED
      BY <3>1, <3>2, AhAssumption
  <2> DEFINE whole == AhWhole(ahCall.count) * AhBatch
  <2>2. whole \in Nat
    BY <2>1
  <2> HIDE DEF whole
  <2>3. (ahCall.round - 1) * whole \in Nat
    BY <2>1, <2>2
  <2>4. Base = (ahCall.round - 1) * whole
    BY DEF Base, whole
  <2> QED
    BY <2>3, <2>4
<1> QED
  BY <1>1, <1>2, <1>3, <1>4, <1>5

(* AqDirect_read: a command, and the copy of what it has read.              *)
LEMMA ReadPlan ==
  ASSUME AhCallOK, Stepping, ahCall.op = "aq_read"
  PROVE  \E i \in 0..AhWhole(ahCall.count) :
           \/ /\ ahCall.next = 2 * i + 1
              /\ AhCurrent = AhRead("iden", Base + i * AhBatch,
                                    ahCall.lower + (Base + i * AhBatch),
                                    AhSize(i, ahCall.count))
           \/ /\ ahCall.next = 2 * i + 2
              /\ AhCurrent = AhCopy("iden", "buf", Base + i * AhBatch,
                                    AhChunkOf(ahCall.count))
<1> DEFINE k == ahCall.next
           i == (k - 1) \div 2
<1>1. k \in 1..(2 * AhWhole(ahCall.count) + 2) /\ AhWhole(ahCall.count) \in Nat
  BY InThePlan, Counts DEF AhSteps
<1>2. i \in 0..AhWhole(ahCall.count) /\ (k = 2 * i + 1 \/ k = 2 * i + 2)
  BY <1>1
<1>3. AhCurrent = AqDirect_read(ahCall.lower, ahCall.count, Base)[k]
  BY DEF AhCurrent, AhPlan, Base
<1>4. AhCurrent = IF k = 2 * i + 1
                  THEN AhRead("iden", Base + i * AhBatch, ahCall.lower + (Base + i * AhBatch),
                              AhSize(i, ahCall.count))
                  ELSE AhCopy("iden", "buf", Base + i * AhBatch, AhChunkOf(ahCall.count))
  BY <1>1, <1>3 DEF AqDirect_read
<1> QED
  BY <1>1, <1>2, <1>4

(* AqDirect_write: the copy of a chunk, and the commands of its batches.    *)
LEMMA WritePlan ==
  ASSUME AhCallOK, Stepping, ahCall.op = "aq_write"
  PROVE  /\ AhWhole(ahCall.count) \in Nat
         /\ \/ /\ ahCall.next = 1
               /\ AhCurrent = AhCopy("buf", "iden", Base, AhChunkOf(ahCall.count))
            \/ \E i \in 0..AhWhole(ahCall.count) :
                 /\ ahCall.next = i + 2
                 /\ AhCurrent = AhWrite("iden", Base + i * AhBatch,
                                        ahCall.lower + (Base + i * AhBatch),
                                        AhSize(i, ahCall.count))
<1> DEFINE k == ahCall.next
<1>1. k \in 1..(AhWhole(ahCall.count) + 2) /\ AhWhole(ahCall.count) \in Nat
  BY InThePlan, Counts DEF AhSteps
<1>2. AhCurrent = AqDirect_write(ahCall.lower, ahCall.count, Base)[k]
  BY DEF AhCurrent, AhPlan, Base
<1>3. CASE k = 1
  BY <1>1, <1>2, <1>3 DEF AqDirect_write
<1>4. CASE k # 1
  <2>1. k - 2 \in 0..AhWhole(ahCall.count) /\ k = (k - 2) + 2
    BY <1>1, <1>4
  <2>2. AhCurrent = AhWrite("iden", Base + (k - 2) * AhBatch,
                            ahCall.lower + (Base + (k - 2) * AhBatch),
                            AhSize(k - 2, ahCall.count))
    BY <1>1, <1>2, <1>4 DEF AqDirect_write
  <2> QED
    BY <1>1, <2>1, <2>2
<1> QED
  BY <1>3, <1>4

(* The functions of ext2.                                                   *)
LEMMA OtherPlans ==
  ASSUME AhCallOK, Stepping
  PROVE  /\ ahCall.op = "read" =>
              AhCurrent = AhRead("buf", 0, ahCall.lower, ahCall.count + 1)
         /\ ahCall.op = "sec_read" =>
              AhCurrent = AhRead("buf", 0, ahCall.lower, ahCall.count)
         /\ ahCall.op \in {"write", "sec_write"} =>
              AhCurrent = AhWrite("buf", 0, ahCall.lower, ahCall.count)
         /\ ahCall.op = "write_more" =>
              AhCurrent = AhWrite("buf", 0, ahCall.lower, ahCall.count + 1)
         /\ ahCall.op = "write_part" =>
              \/ /\ ahCall.next = 1
                 /\ AhCurrent = AhWrite("buf", 0, ahCall.lower, ahCall.count)
              \/ /\ ahCall.next = 2
                 /\ AhCurrent = AhCommand("read", "iden", 0, ahCall.lower + ahCall.count, 1, FALSE)
              \/ ahCall.next = 3 /\ AhCurrent = [do |-> "merge", off |-> ahCall.count]
              \/ /\ ahCall.next = 4
                 /\ AhCurrent = AhCommand("write", "iden", 0, ahCall.lower + ahCall.count, 1, FALSE)
<1>1. ahCall.next \in 1..AhSteps(ahCall.op, ahCall.count)
  BY InThePlan
<1>2. ahCall.op = "write_part" => ahCall.next \in {1, 2, 3, 4}
  BY <1>1 DEF AhSteps
<1>3. ahCall.op \in {"read", "sec_read", "write", "sec_write", "write_more"} => ahCall.next = 1
  BY <1>1 DEF AhSteps
<1> USE DEF AhCurrent, AhPlan, disk_read, disk_write, disk_write_sector, sec_read_static,
            sec_write_static
<1>4. ahCall.op = "write_part" =>
        AhCurrent = <<AhWrite("buf", 0, ahCall.lower, ahCall.count),
                      AhCommand("read", "iden", 0, ahCall.lower + ahCall.count, 1, FALSE),
                      [do |-> "merge", off |-> ahCall.count],
                      AhCommand("write", "iden", 0, ahCall.lower + ahCall.count, 1, FALSE)>>[ahCall.next]
  OBVIOUS
<1>5. ahCall.op = "read" => AhCurrent = AhRead("buf", 0, ahCall.lower, ahCall.count + 1)
  BY <1>3
<1>6. ahCall.op = "sec_read" => AhCurrent = AhRead("buf", 0, ahCall.lower, ahCall.count)
  BY <1>3
<1>7. ahCall.op \in {"write", "sec_write"} =>
        AhCurrent = AhWrite("buf", 0, ahCall.lower, ahCall.count)
  BY <1>3
<1>8. ahCall.op = "write_more" =>
        AhCurrent = AhWrite("buf", 0, ahCall.lower, ahCall.count + 1)
  BY <1>3
<1> HIDE DEF AhCurrent, AhPlan, disk_read, disk_write, disk_write_sector, sec_read_static,
             sec_write_static
<1>9. ASSUME ahCall.op = "write_part"
      PROVE  \/ /\ ahCall.next = 1
                /\ AhCurrent = AhWrite("buf", 0, ahCall.lower, ahCall.count)
             \/ /\ ahCall.next = 2
                /\ AhCurrent = AhCommand("read", "iden", 0, ahCall.lower + ahCall.count, 1, FALSE)
             \/ ahCall.next = 3 /\ AhCurrent = [do |-> "merge", off |-> ahCall.count]
             \/ /\ ahCall.next = 4
                /\ AhCurrent = AhCommand("write", "iden", 0, ahCall.lower + ahCall.count, 1, FALSE)
  <2>1. CASE ahCall.next = 1
    BY <1>4, <1>9, <2>1
  <2>2. CASE ahCall.next = 2
    BY <1>4, <1>9, <2>2
  <2>3. CASE ahCall.next = 3
    BY <1>4, <1>9, <2>3
  <2>4. CASE ahCall.next = 4
    BY <1>4, <1>9, <2>4
  <2> QED
    BY <1>2, <1>9, <2>1, <2>2, <2>3, <2>4
<1> QED
  BY <1>5, <1>6, <1>7, <1>8, <1>9

(* What every step of a plan has in common.                                 *)
LEMMA CurrentFields ==
  ASSUME AhCallOK, Stepping
  PROVE  /\ AhCurrent.do \in {"read", "write"} =>
              AhCurrent.mem \in Memories /\ AhCurrent.n \in Nat \ {0}
         /\ AhCurrent.do = "copy" => AhCurrent.mem \in Memories
         /\ ahCall.op \notin AhWrites => AhCurrent.do \in {"read", "copy"}
         /\ ahCall.op \in AhWrites /\ AhCurrent.do \in {"read", "copy"} =>
              AhCurrent.mem = "iden"
         /\ ahCall.op = "aq_read" /\ AhCurrent.do = "read" =>
              ahCall.next < AhSteps("aq_read", ahCall.count)
<1> USE DEF AhRead, AhWrite, AhCommand, AhCopy, Memories
<1>1. /\ ahCall.op \in AhOps /\ ahCall.count \in Nat \ {0}
      /\ AhWhole(ahCall.count) \in Nat
      /\ \A i \in Nat : AhSize(i, ahCall.count) \in Nat \ {0}
  BY InThePlan, Counts
<1>2. CASE ahCall.op = "aq_read"
  <2>1. PICK i \in 0..AhWhole(ahCall.count) :
          \/ /\ ahCall.next = 2 * i + 1
             /\ AhCurrent = AhRead("iden", Base + i * AhBatch,
                                   ahCall.lower + (Base + i * AhBatch), AhSize(i, ahCall.count))
          \/ /\ ahCall.next = 2 * i + 2
             /\ AhCurrent = AhCopy("iden", "buf", Base + i * AhBatch, AhChunkOf(ahCall.count))
    BY <1>2, ReadPlan
  <2>2. CASE /\ ahCall.next = 2 * i + 1
             /\ AhCurrent = AhRead("iden", Base + i * AhBatch,
                                   ahCall.lower + (Base + i * AhBatch), AhSize(i, ahCall.count))
    <3>1. i \in Nat /\ AhSize(i, ahCall.count) \in Nat \ {0}
      BY <1>1
    <3>2. ahCall.next < AhSteps("aq_read", ahCall.count)
      BY <1>1, <2>2 DEF AhSteps
    <3>3. AhCurrent.do = "read" /\ AhCurrent.mem = "iden" /\ AhCurrent.n = AhSize(i, ahCall.count)
      BY <2>2
    <3> QED
      BY <1>2, <3>1, <3>2, <3>3 DEF AhWrites
  <2>3. CASE AhCurrent = AhCopy("iden", "buf", Base + i * AhBatch, AhChunkOf(ahCall.count))
    <3>1. AhCurrent.do = "copy" /\ AhCurrent.mem = "buf"
      BY <2>3
    <3> QED
      BY <1>2, <3>1 DEF AhWrites
  <2> QED
    BY <2>1, <2>2, <2>3
<1>3. CASE ahCall.op = "aq_write"
  <2>1. \/ AhCurrent.do = "copy" /\ AhCurrent.mem = "iden"
        \/ /\ AhCurrent.do = "write" /\ AhCurrent.mem = "iden"
           /\ \E i \in 0..AhWhole(ahCall.count) : AhCurrent.n = AhSize(i, ahCall.count)
    BY <1>3, WritePlan
  <2>2. AhCurrent.do = "write" => AhCurrent.n \in Nat \ {0}
    BY <1>1, <2>1
  <2> QED
    BY <1>3, <2>1, <2>2 DEF AhWrites
<1>4. CASE ahCall.op \in {"read", "sec_read"}
  <2>1. AhCurrent.do = "read" /\ AhCurrent.mem = "buf" /\ AhCurrent.n \in Nat \ {0}
    BY <1>1, <1>4, OtherPlans
  <2> QED
    BY <1>4, <2>1 DEF AhWrites
<1>5. CASE ahCall.op \in {"write", "sec_write", "write_more"}
  <2>1. AhCurrent.do = "write" /\ AhCurrent.mem = "buf" /\ AhCurrent.n \in Nat \ {0}
    BY <1>1, <1>5, OtherPlans
  <2> QED
    BY <1>5, <2>1 DEF AhWrites
<1>6. CASE ahCall.op = "write_part"
  <2>1. \/ AhCurrent.do = "write" /\ AhCurrent.mem \in Memories /\ AhCurrent.n \in Nat \ {0}
        \/ AhCurrent.do = "read" /\ AhCurrent.mem = "iden" /\ AhCurrent.n \in Nat \ {0}
        \/ AhCurrent.do = "merge"
    BY <1>1, <1>6, OtherPlans
  <2> QED
    BY <1>6, <2>1 DEF AhWrites
<1> QED
  BY <1>1, <1>2, <1>3, <1>4, <1>5, <1>6 DEF AhOps

-----------------------------------------------------------------------------
(* The call after a step.                                                   *)

SameCall ==
  /\ ahCall'.op = ahCall.op /\ ahCall'.lower = ahCall.lower
  /\ ahCall'.count = ahCall.count /\ ahCall'.was = ahCall.was

LEMMA AfterDone ==
  ASSUME AhCallOK, Stepping, ahCall' = AhDone, UNCHANGED ahSys
  PROVE  /\ AhCallOK' /\ SameCall /\ ahCall'.result = ahCall.result
         /\ ahCall'.next \in {1, ahCall.next + 1}
         /\ ~ (ahCall.op \in AhDirect /\ AhChunk < ahCall.count) =>
              ahCall'.next = ahCall.next + 1
<1>1. AhRunning /\ ahCall.op \in AhOps /\ ahCall.op # "none" /\ ahSys.at = "ready"
  BY InThePlan
<1>2. AhSteps(ahCall.op, ahCall.count) \in Nat
  BY InThePlan
<1>3. CASE ahCall.next = ahCall.last /\ ahCall.round < ahCall.rounds
  <2>1. ahCall' = [op |-> ahCall.op, lower |-> ahCall.lower, count |-> ahCall.count,
               round |-> ahCall.round + 1, rounds |-> ahCall.rounds, next |-> 1,
               last |-> ahCall.last, left |-> ahCall.left, was |-> ahCall.was,
               result |-> ahCall.result]
    BY <1>3 DEF AhDone, AhCallOK
  <2>2. ahCall.op \in AhDirect /\ AhChunk < ahCall.count
    BY <1>1, <1>3 DEF AhRunning
  <2>3. AhRunning'
    BY <1>1, <1>2, <1>3, <2>1, <2>2 DEF AhRunning
  <2>4. ahCall'.op \in AhOps /\ ahCall'.op # "none"
    BY <1>1, <2>1
  <2>5. ahCall' = [op |-> ahCall'.op, lower |-> ahCall'.lower, count |-> ahCall'.count,
               round |-> ahCall'.round, rounds |-> ahCall'.rounds, next |-> ahCall'.next,
               last |-> ahCall'.last, left |-> ahCall'.left, was |-> ahCall'.was,
               result |-> ahCall'.result]
    BY <2>1
  <2> QED
    BY <2>1, <2>2, <2>3, <2>4, <2>5 DEF AhCallOK, SameCall
<1>4. CASE ~ (ahCall.next = ahCall.last /\ ahCall.round < ahCall.rounds)
  <2>1. ahCall' = [op |-> ahCall.op, lower |-> ahCall.lower, count |-> ahCall.count,
               round |-> ahCall.round, rounds |-> ahCall.rounds, next |-> ahCall.next + 1,
               last |-> ahCall.last, left |-> ahCall.left, was |-> ahCall.was,
               result |-> ahCall.result]
    BY <1>4 DEF AhDone, AhCallOK
  <2>2. AhRunning'
    BY <1>1, <1>2, <2>1 DEF AhRunning, Stepping
  <2>3. ahCall'.op \in AhOps /\ ahCall'.op # "none"
    BY <1>1, <2>1
  <2>4. ahCall' = [op |-> ahCall'.op, lower |-> ahCall'.lower, count |-> ahCall'.count,
               round |-> ahCall'.round, rounds |-> ahCall'.rounds, next |-> ahCall'.next,
               last |-> ahCall'.last, left |-> ahCall'.left, was |-> ahCall'.was,
               result |-> ahCall'.result]
    BY <2>1
  <2> QED
    BY <2>1, <2>2, <2>3, <2>4 DEF AhCallOK, SameCall
<1> QED
  BY <1>3, <1>4

LEMMA AfterFailed ==
  ASSUME AhCallOK, Stepping, ahCall' = AhFailed, UNCHANGED ahSys,
         ahCall.op = "aq_read" => ahCall.next < AhSteps(ahCall.op, ahCall.count)
  PROVE  AhCallOK' /\ SameCall /\ ahCall'.result = 0 /\ ahCall'.next = ahCall.next + 1
<1>1. AhRunning /\ ahCall.op \in AhOps /\ ahCall.op # "none" /\ ahSys.at = "ready"
  BY InThePlan
<1>2. AhSteps(ahCall.op, ahCall.count) \in Nat
  BY InThePlan
<1>3. ahCall' = [op |-> ahCall.op, lower |-> ahCall.lower, count |-> ahCall.count,
               round |-> ahCall.round, rounds |-> ahCall.round, next |-> ahCall.next + 1,
               last |-> IF ahCall.op = "aq_read" THEN ahCall.next + 1 ELSE ahCall.next,
               left |-> ahCall.left, was |-> ahCall.was, result |-> 0]
  BY DEF AhFailed, AhCallOK
<1>4. AhRunning'
  BY <1>1, <1>2, <1>3 DEF AhRunning, Stepping
<1>5. ahCall'.op \in AhOps /\ ahCall'.op # "none"
  BY <1>1, <1>3
<1>6. ahCall' = [op |-> ahCall'.op, lower |-> ahCall'.lower, count |-> ahCall'.count,
             round |-> ahCall'.round, rounds |-> ahCall'.rounds, next |-> ahCall'.next,
             last |-> ahCall'.last, left |-> ahCall'.left, was |-> ahCall'.was,
             result |-> ahCall'.result]
  BY <1>3
<1> QED
  BY <1>3, <1>4, <1>5, <1>6 DEF AhCallOK, SameCall

(* A step of a plan is a copy, a merge, a command whose failure ends the    *)
(* call, a checked command that has been carried out, or a command whose    *)
(* result nobody looks at.                                                  *)
CommandDone(c) ==
  /\ c.do \in {"read", "write"} /\ ahCall' = AhDone
  /\ \/ c.sector + c.n <= AhSectors /\ AhMove(c)
     \/ UNCHANGED <<ahDisk, ahMem>>
  /\ (c.checked /\ AhSlots # 0) \/ (AhSlots # 0 /\ ~ Failing') =>
       c.sector + c.n <= AhSectors /\ AhMove(c)
  /\ Failing => Failing' /\ UNCHANGED <<ahDisk, ahMem>>

CommandFailed(c) ==
  /\ c.do \in {"read", "write"} /\ c.checked /\ ahCall' = AhFailed
  /\ AhMove(c) \/ UNCHANGED <<ahDisk, ahMem>>

LEMMA StepIs ==
  ASSUME AhTyped, AhStep
  PROVE  /\ Stepping /\ AhPortOK' /\ AhSysOK' /\ UNCHANGED ahSys
         /\ \/ AhStepCopy(AhCurrent) /\ UNCHANGED ahPort /\ ahCall' = AhDone
            \/ AhStepMerge(AhCurrent) /\ UNCHANGED ahPort /\ ahCall' = AhDone
            \/ CommandDone(AhCurrent)
            \/ CommandFailed(AhCurrent)
<1>1. Stepping /\ UNCHANGED ahSys
  BY DEF AhStep, Stepping
<1>2. AhSysOK'
  BY <1>1 DEF AhTyped, AhSysOK
<1>3. ahSys.curr \in AhAllPorts
  BY <1>1, InThePlan DEF AhTyped, AhSysOK
<1>4. CASE AhStepCopy(AhCurrent)
  BY <1>1, <1>2, <1>4 DEF AhStepCopy, AhTyped, AhPortOK
<1>5. CASE AhStepMerge(AhCurrent)
  BY <1>1, <1>2, <1>5 DEF AhStepMerge, AhTyped, AhPortOK
<1>6. CASE AhStepCommand(AhCurrent)
  <2> DEFINE c == AhCurrent
  <2>1. PICK result \in 0..2 :
          /\ SATA_Commander(c, result)
          /\ ahCall' = IF c.checked /\ ((ahCall.op \in AhDirect /\ result # 0)
                                        \/ ahPort'[ahSys.curr].tfes)
                       THEN AhFailed ELSE AhDone
    BY <1>6 DEF AhStepCommand
  <2>2. c.do \in {"read", "write"}
    BY <1>6 DEF AhStepCommand
  <2>3. AhPortOK /\ AhSlots \in Nat
    BY AhAssumption DEF AhTyped
  <2>4. /\ AhPortOK'
        /\ \/ c.sector + c.n <= AhSectors /\ AhMove(c)
           \/ UNCHANGED <<ahDisk, ahMem>>
        /\ Failing => ahPort'[ahSys.curr].tfes /\ UNCHANGED <<ahDisk, ahMem>>
        /\ result = 0 => c.sector + c.n <= AhSectors /\ AhMove(c)
        /\ AhSlots \in Nat \ {0} /\ ~ ahPort'[ahSys.curr].tfes => result = 0
    BY <1>3, <2>1, <2>3, Commander
  <2>5. Failing' <=> ahPort'[ahSys.curr].tfes
    BY <1>1 DEF Failing
  <2>6. CASE c.checked /\ ((ahCall.op \in AhDirect /\ result # 0) \/ ahPort'[ahSys.curr].tfes)
    BY <1>1, <1>2, <2>1, <2>2, <2>4, <2>6 DEF CommandFailed
  <2>7. CASE ~ (c.checked /\ ((ahCall.op \in AhDirect /\ result # 0)
                              \/ ahPort'[ahSys.curr].tfes))
    <3>1. (c.checked /\ AhSlots # 0) \/ (AhSlots # 0 /\ ~ Failing') => result = 0
      BY <2>3, <2>4, <2>5, <2>7
    <3>2. ahCall' = AhDone
      BY <2>1, <2>7
    <3> HIDE DEF c
    <3> QED
      BY <1>1, <1>2, <2>2, <2>4, <2>5, <3>1, <3>2 DEF CommandDone, c
  <2> QED
    BY <2>6, <2>7
<1> QED
  BY <1>4, <1>5, <1>6 DEF AhStep

-----------------------------------------------------------------------------
(* A step keeps the types.                                                  *)

LEMMA StepTyped ==
  ASSUME AhTyped, AhStep
  PROVE  AhTyped' /\ SameCall /\ ahCall'.op # "none"
<1>1. Stepping /\ AhPortOK' /\ AhSysOK' /\ UNCHANGED ahSys /\ AhShape /\ AhCallOK
  BY StepIs DEF AhTyped
<1>2. ahCall.op # "none"
  BY <1>1 DEF Stepping
<1>3. ASSUME ahCall' = AhDone PROVE AhCallOK' /\ SameCall /\ ahCall'.op # "none"
  BY <1>1, <1>2, <1>3, AfterDone DEF SameCall
<1>4. ASSUME ahCall' = AhFailed, AhCurrent.do \in {"read", "write"}
      PROVE  AhCallOK' /\ SameCall /\ ahCall'.op # "none"
  <2>1. ahCall.op = "aq_read" => ahCall.next < AhSteps(ahCall.op, ahCall.count)
    BY <1>1, <1>4, CurrentFields DEF AhWrites
  <2> QED
    BY <1>1, <1>2, <1>4, <2>1, AfterFailed DEF SameCall
<1>5. ASSUME AhMove(AhCurrent), AhCurrent.do \in {"read", "write"}
      PROVE  AhShape'
  <2>1. AhCurrent.mem \in Memories /\ AhCurrent.n \in Nat \ {0}
    BY <1>1, <1>5, CurrentFields
  <2>2. CASE AhCurrent.do = "read"
    BY <1>1, <1>5, <2>1, <2>2, ReadEffect
  <2>3. CASE AhCurrent.do = "write"
    BY <1>1, <1>5, <2>1, <2>3, WriteEffect
  <2> QED
    BY <1>5, <2>2, <2>3
<1>6. ASSUME UNCHANGED <<ahDisk, ahMem>> PROVE AhShape'
  BY <1>1, <1>6 DEF AhShape
<1>7. CASE AhStepCopy(AhCurrent) /\ ahCall' = AhDone
  <2>1. AhCurrent.mem \in Memories
    BY <1>1, <1>7, CurrentFields DEF AhStepCopy
  <2>2. AhShape'
    BY <1>1, <1>7, <2>1, CopyEffect
  <2> QED
    BY <1>1, <1>3, <1>7, <2>2 DEF AhTyped
<1>8. CASE AhStepMerge(AhCurrent) /\ ahCall' = AhDone
  <2>1. AhShape'
    BY <1>1, <1>8, MergeEffect
  <2> QED
    BY <1>1, <1>3, <1>8, <2>1 DEF AhTyped
<1>9. CASE CommandDone(AhCurrent)
  <2>1. AhShape'
    BY <1>5, <1>6, <1>9 DEF CommandDone
  <2> QED
    BY <1>1, <1>3, <1>9, <2>1 DEF AhTyped, CommandDone
<1>10. CASE CommandFailed(AhCurrent)
  <2>1. AhShape'
    BY <1>5, <1>6, <1>10 DEF CommandFailed
  <2> QED
    BY <1>1, <1>4, <1>10, <2>1 DEF AhTyped, CommandFailed
<1> QED
  BY <1>7, <1>8, <1>9, <1>10, StepIs

(* What a call keeps to: its numbers, and the first round.                  *)
LEMMA CallNumbers ==
  ASSUME AhTyped, Stepping
  PROVE  /\ ahCall.lower \in Nat /\ ahCall.count \in Nat \ {0} /\ ahCall.count <= AhMost
         /\ ahCall.next \in Nat \ {0}
         /\ AhBatch \in Nat \ {0} /\ AhWhole(ahCall.count) \in Nat
         /\ AhAsked \in {ahCall.count, ahCall.count + 1}
         /\ \A j \in Within : j \in Nat /\ j < AhAsked /\ j \in AhMany
         /\ ahCall.op \notin {"read", "write_more"} =>
              AhAsked = ahCall.count /\ \A j \in Within : j < ahCall.count
         /\ ~ (ahCall.op \in AhDirect /\ AhChunk < ahCall.count) => Base = 0
         /\ ahCall.op \notin AhDirect => Base = 0
<1>1. /\ ahCall.lower \in Nat /\ ahCall.count \in AhCounts /\ ahCall.next \in Nat \ {0}
      /\ ~ (ahCall.op \in AhDirect /\ AhChunk < ahCall.count) => ahCall.round = 1
  BY InThePlan DEF AhTyped, AhRunning
<1>2. ahCall.count \in Nat \ {0} /\ ahCall.count <= AhMost /\ AhWhole(ahCall.count) \in Nat
  BY <1>1, Counts
<1>3. /\ AhAsked \in {ahCall.count, ahCall.count + 1}
      /\ ahCall.op \notin {"read", "write_more"} => AhAsked = ahCall.count
  BY <1>2 DEF AhAsked
<1>4. /\ \A j \in Within : j \in Nat /\ j < AhAsked /\ j \in AhMany
      /\ ahCall.op \notin {"read", "write_more"} => \A j \in Within : j < ahCall.count
  BY <1>2, <1>3, AhAssumption DEF Within, AhMany
<1>5. ahCall.round = 1 => Base = 0
  <2>1. AhWhole(ahCall.count) * AhBatch \in Nat
    BY <1>2, AhAssumption
  <2> QED
    BY <2>1 DEF Base
<1> QED
  BY <1>1, <1>2, <1>3, <1>4, <1>5, AhAssumption

(* Outside disk_write's last step the two ways of saying what a write may   *)
(* touch agree.                                                             *)
LEMMA FromOnlyAsked ==
  ASSUME ahCall.op \in AhWrites /\ (ahCall.op = "aq_write" => ahCall.count < AhBatch) =>
           OnlyAsked
  PROVE  AhElsewhere
  BY DEF AhElsewhere, OnlyAsked, AhAsked, Sectors

-----------------------------------------------------------------------------
(* The reads.                                                               *)

LEMMA ReadLeaves ==
  ASSUME AhTyped, AhLeaves, AhStep, ahCall.op \notin AhWrites
  PROVE  AhLeaves' /\ ahDisk' = ahDisk /\ ahDisk = ahCall.was
<1>1. Stepping /\ AhShape /\ AhCallOK /\ ahCall.op # "none"
  BY StepIs DEF AhTyped, Stepping
<1>2. AhCurrent.do \in {"read", "copy"}
  BY <1>1, CurrentFields
<1>3. ahDisk' = ahDisk
  <2>1. AhMove(AhCurrent) /\ AhCurrent.do = "read" => ahDisk' = ahDisk
    BY DEF AhMove
  <2> QED
    BY <1>2, <2>1, StepIs DEF AhStepCopy, AhStepMerge, CommandDone, CommandFailed
<1>4. SameCall
  BY StepTyped
<1>5. ahDisk = ahCall.was
  BY <1>1 DEF AhLeaves
<1>6. AhElsewhere'
  BY <1>4 DEF AhElsewhere, SameCall
<1>7. ahCall.op # "write_part" /\ ahCall.op # "aq_write"
  BY DEF AhWrites
<1> QED
  BY <1>3, <1>4, <1>5, <1>6, <1>7 DEF AhLeaves, SameCall

(* A call that still reports success has carried its checked command out.   *)
LEMMA CheckedDone ==
  ASSUME AhTyped, AhStep, AhSlots # 0, ahCall'.result = 1,
         AhCurrent.do \in {"read", "write"}, AhCurrent.checked
  PROVE  /\ ahCall' = AhDone /\ ahCall.result = 1 /\ AhMove(AhCurrent)
         /\ AhCurrent.sector + AhCurrent.n <= AhSectors
<1>1. Stepping /\ AhCallOK /\ UNCHANGED ahSys
  BY StepIs DEF AhTyped
<1>2. ~ CommandFailed(AhCurrent)
  <2>1. ASSUME CommandFailed(AhCurrent) PROVE FALSE
    <3>1. ahCall.op = "aq_read" => ahCall.next < AhSteps(ahCall.op, ahCall.count)
      <4>1. AhCurrent.do = "read" \/ ahCall.op # "aq_read"
        BY <1>1, CurrentFields DEF AhWrites
      <4> QED
        BY <1>1, <4>1, CurrentFields
    <3> QED
      BY <1>1, <2>1, <3>1, AfterFailed DEF CommandFailed
  <2> QED
    BY <2>1
<1>3. CommandDone(AhCurrent)
  BY <1>2, StepIs DEF AhStepCopy, AhStepMerge
<1> QED
  BY <1>1, <1>3, AfterDone DEF CommandDone

(* disk_read and sec_read_static are one command.                           *)
LEMMA ReadProgress ==
  ASSUME AhInv, AhStep, ahCall.op \in {"read", "sec_read"}, AhSlots # 0
  PROVE  AhProgress'
<1>1. Stepping /\ AhShape /\ AhCallOK /\ AhTyped /\ AhLeaves
  BY StepIs DEF AhTyped, Stepping, AhInv
<1>2. SameCall /\ ahDisk = ahCall.was /\ AhShape'
  BY <1>1, StepTyped, ReadLeaves DEF AhWrites, AhTyped
<1>3. /\ ahCall.lower \in Nat /\ ahCall.count \in Nat \ {0}
      /\ \A j \in Within : j \in Nat /\ j < AhAsked /\ j \in AhMany
  BY <1>1, CallNumbers
<1>4. AhAsked \in Nat \ {0} /\ AhCurrent = AhRead("buf", 0, ahCall.lower, AhAsked)
  BY <1>1, <1>3, OtherPlans DEF AhAsked
<1>5. /\ AhCurrent.do = "read" /\ AhCurrent.mem = "buf" /\ AhCurrent.off = 0
      /\ AhCurrent.sector = ahCall.lower /\ AhCurrent.n = AhAsked /\ AhCurrent.checked = TRUE
  BY <1>4 DEF AhRead, AhCommand
<1>6. ASSUME ahCall'.result = 1, NEW j \in Within
      PROVE  Buf(j)' = ahCall.was[ahCall.lower + j]
  <2>2. AhMove(AhCurrent) /\ ahCall.lower + AhAsked <= AhSectors
    BY <1>1, <1>5, <1>6, CheckedDone
  <2>3. \A i \in AhMany : ahMem'["buf"][i] =
          IF i - 0 \in 0..(AhAsked - 1)
          THEN AhGet(ahDisk, ahCall.lower + (i - 0)) ELSE ahMem["buf"][i]
    <3>1. "buf" \in Memories /\ AhAsked \in Nat \ {0}
      BY <1>4 DEF Memories
    <3> QED
      BY <1>1, <1>5, <2>2, <3>1, ReadEffect
  <2>4. j \in AhMany /\ j \in 0..(AhAsked - 1) /\ ahCall.lower + j \in Sectors /\ j - 0 = j
    BY <1>3, <1>4, <1>6, <2>2, AhAssumption DEF Sectors
  <2>5. AhGet(ahDisk, ahCall.lower + j) = ahDisk[ahCall.lower + j]
    BY <1>1, <2>4 DEF AhGet, AhShape
  <2> QED
    BY <1>2, <2>3, <2>4, <2>5 DEF Buf
<1>7. Within' = Within
  BY <1>2 DEF Within, SameCall, AhAsked
<1> QED
  BY <1>2, <1>6, <1>7 DEF AhProgress, SameCall, AhWrites

(* AqDirect_read: after i batches both memories hold i batches of the disk. *)
LEMMA AqReadProgress ==
  ASSUME AhInv, AhStep, ahCall.op = "aq_read", AhSlots # 0
  PROVE  AhProgress'
<1>1. Stepping /\ AhShape /\ AhCallOK /\ AhTyped /\ AhLeaves /\ UNCHANGED ahSys
  BY StepIs DEF AhTyped, Stepping, AhInv
<1>2. SameCall /\ ahDisk' = ahDisk /\ ahDisk = ahCall.was /\ AhShape'
  BY <1>1, StepTyped, ReadLeaves DEF AhWrites, AhTyped
<1> SUFFICES ASSUME ahCall'.result = 1, ahCall.count <= AhChunk
             PROVE  /\ \A j \in Batches(ahCall.next \div 2)' : Iden(j)' = ahCall.was[ahCall.lower + j]
                    /\ \A j \in Batches((ahCall.next - 1) \div 2)' :
                         Buf(j)' = ahCall.was[ahCall.lower + j]
  BY <1>2 DEF AhProgress, SameCall, AhWrites
<1> DEFINE W == AhWhole(ahCall.count)
<1>3. /\ ahCall.lower \in Nat /\ ahCall.count \in Nat \ {0} /\ Base = 0
      /\ AhBatch \in Nat \ {0} /\ W \in Nat
      /\ \A j \in Within : j \in Nat /\ j < ahCall.count /\ j \in AhMany
      /\ ahSys.at = "ready" /\ ahCall.op # "none"
  <2>1. ~ (ahCall.op \in AhDirect /\ AhChunk < ahCall.count)
    <3>1. ahCall.count \in Nat
      BY <1>1, CallNumbers
    <3> QED
      BY <3>1, AhAssumption
  <2> QED
    BY <1>1, <2>1, CallNumbers, InThePlan
<1>9. ~ (ahCall.op \in AhDirect /\ AhChunk < ahCall.count)
  BY <1>3, AhAssumption
<1>4. /\ "buf" \in Memories /\ "iden" \in Memories /\ "iden" # "buf"
      /\ Within' = Within /\ AhWhole(ahCall.count)' = W
  BY <1>2 DEF Memories, Within, SameCall, AhWhole, AhAsked
<1>5. PICK i \in 0..W :
        \/ /\ ahCall.next = 2 * i + 1
           /\ AhCurrent = AhRead("iden", Base + i * AhBatch,
                                 ahCall.lower + (Base + i * AhBatch), AhSize(i, ahCall.count))
        \/ /\ ahCall.next = 2 * i + 2
           /\ AhCurrent = AhCopy("iden", "buf", Base + i * AhBatch, AhChunkOf(ahCall.count))
  BY <1>1, ReadPlan
<1> DEFINE at == i * AhBatch
<1>6. at \in Nat /\ Base + i * AhBatch = at /\ (i + 1) * AhBatch = at + AhBatch /\ i \in Nat
  BY <1>3
<1> HIDE DEF at, W
<1>7. CASE /\ ahCall.next = 2 * i + 1
           /\ AhCurrent = AhRead("iden", Base + i * AhBatch,
                                 ahCall.lower + (Base + i * AhBatch), AhSize(i, ahCall.count))
  <2> DEFINE n == AhSize(i, ahCall.count)
  <2>1. /\ AhCurrent.do = "read" /\ AhCurrent.mem = "iden" /\ AhCurrent.off = at
        /\ AhCurrent.sector = ahCall.lower + at /\ AhCurrent.n = n
        /\ AhCurrent.checked = TRUE
    BY <1>6, <1>7 DEF AhRead, AhCommand
  <2>2. /\ ahCall' = AhDone /\ ahCall.result = 1 /\ AhMove(AhCurrent)
        /\ (ahCall.lower + at) + n <= AhSectors
    BY <1>1, <2>1, CheckedDone
  <2>3. ahCall'.next = 2 * i + 2
    BY <1>1, <1>6, <1>7, <1>9, <2>2, AfterDone
  <2>4. n \in Nat \ {0} /\ (i # W => n = AhBatch) /\ (i = W => n = ahCall.count)
    BY <1>3, <1>6 DEF AhSize, W
  <2>5. /\ ahMem'["buf"] = ahMem["buf"]
        /\ \A x \in AhMany : ahMem'["iden"][x] =
             IF x - at \in 0..(n - 1) THEN AhGet(ahDisk, (ahCall.lower + at) + (x - at))
             ELSE ahMem["iden"][x]
    BY <1>1, <1>4, <2>1, <2>2, <2>4, ReadEffect
  <2> HIDE DEF n
  <2>6. ahCall'.next \div 2 = i + 1 /\ (ahCall'.next - 1) \div 2 = i
        /\ ahCall.next \div 2 = i /\ (ahCall.next - 1) \div 2 = i
    BY <1>6, <1>7, <2>3
  <2>7. /\ \A j \in Batches(i) : Iden(j) = ahCall.was[ahCall.lower + j]
        /\ \A j \in Batches(i) : Buf(j) = ahCall.was[ahCall.lower + j]
    BY <1>3, <2>2, <2>6 DEF AhProgress, AhInv
  <2>8. ASSUME NEW j \in Batches(i + 1)'
        PROVE  Iden(j)' = ahCall.was[ahCall.lower + j]
    <3>1. j \in Within /\ (j < at + AhBatch \/ i = W)
      BY <1>3, <1>4, <1>6, <2>8 DEF Batches, W
    <3>2. j \in Nat /\ j < ahCall.count /\ j \in AhMany
      BY <1>3, <3>1
    <3>3. CASE j < at
      <4>1. j \in Batches(i)
        BY <3>1, <3>3 DEF Batches, at
      <4>2. j - at \notin 0..(n - 1)
        BY <1>6, <3>2, <3>3
      <4> QED
        BY <2>5, <2>7, <3>2, <4>1, <4>2 DEF Iden
    <3>4. CASE at <= j
      <4>1. j - at \in 0..(n - 1) /\ (ahCall.lower + at) + (j - at) = ahCall.lower + j
        BY <1>3, <1>6, <2>4, <3>1, <3>2, <3>4
      <4>2. ahCall.lower + j \in Sectors
        BY <1>3, <1>6, <2>2, <2>4, <3>2, <4>1, AhAssumption DEF Sectors
      <4>3. AhGet(ahDisk, ahCall.lower + j) = ahDisk[ahCall.lower + j]
        BY <1>1, <4>2 DEF AhGet, AhShape
      <4> QED
        BY <1>2, <2>5, <3>2, <4>1, <4>3 DEF Iden
    <3> QED
      BY <1>6, <3>2, <3>3, <3>4
  <2>9. Batches(i)' = Batches(i)
    BY <1>4 DEF Batches, W
  <2>10. \A j \in Batches(i)' : Buf(j)' = ahCall.was[ahCall.lower + j]
    BY <2>5, <2>7, <2>9 DEF Buf
  <2>11. /\ Batches(ahCall.next \div 2)' = Batches(i + 1)'
         /\ Batches((ahCall.next - 1) \div 2)' = Batches(i)'
    BY <2>6 DEF Batches
  <2> QED
    BY <2>8, <2>10, <2>11
<1>8. CASE /\ ahCall.next = 2 * i + 2
           /\ AhCurrent = AhCopy("iden", "buf", Base + i * AhBatch, AhChunkOf(ahCall.count))
  <2>1. AhChunkOf(ahCall.count) = ahCall.count
    BY <1>3, AhAssumption DEF AhChunkOf
  <2>2. /\ AhCurrent.do = "copy" /\ AhCurrent.from = "iden" /\ AhCurrent.mem = "buf"
        /\ AhCurrent.off = at /\ AhCurrent.n = ahCall.count
    BY <1>6, <1>8, <2>1 DEF AhCopy
  <2>3. AhStepCopy(AhCurrent) /\ ahCall' = AhDone
    BY <1>1, <2>2, StepIs DEF AhStepMerge, CommandDone, CommandFailed
  <2>4. ahCall'.next = 2 * i + 3 /\ ahCall.result = 1
    BY <1>1, <1>6, <1>8, <1>9, <2>3, AfterDone
  <2>5. /\ ahMem'["iden"] = ahMem["iden"]
        /\ \A x \in AhMany : ahMem'["buf"][x] =
             IF x - at \in 0..(ahCall.count - 1) THEN AhGet(ahMem["iden"], at + (x - at))
             ELSE ahMem["buf"][x]
    BY <1>1, <1>4, <2>2, <2>3, CopyEffect
  <2>6. ahCall'.next \div 2 = i + 1 /\ (ahCall'.next - 1) \div 2 = i + 1
        /\ ahCall.next \div 2 = i + 1 /\ (ahCall.next - 1) \div 2 = i
    BY <1>6, <1>8, <2>4
  <2>7. /\ \A j \in Batches(i + 1) : Iden(j) = ahCall.was[ahCall.lower + j]
        /\ \A j \in Batches(i) : Buf(j) = ahCall.was[ahCall.lower + j]
    BY <1>3, <2>4, <2>6 DEF AhProgress, AhInv
  <2>8. Batches(i + 1)' = Batches(i + 1)
    BY <1>4 DEF Batches, W
  <2>9. ASSUME NEW j \in Batches(i + 1)
        PROVE  Buf(j)' = ahCall.was[ahCall.lower + j]
    <3>1. j \in Within /\ Iden(j) = ahCall.was[ahCall.lower + j]
      BY <2>7, <2>9 DEF Batches
    <3>2. j \in Nat /\ j < ahCall.count /\ j \in AhMany
      BY <1>3, <3>1
    <3>3. CASE j < at
      <4>1. j \in Batches(i)
        BY <3>1, <3>3 DEF Batches, at
      <4>2. j - at \notin 0..(ahCall.count - 1)
        BY <1>6, <3>2, <3>3
      <4> QED
        BY <2>5, <2>7, <3>2, <4>1, <4>2 DEF Buf
    <3>4. CASE at <= j
      <4>1. j - at \in 0..(ahCall.count - 1) /\ at + (j - at) = j
        BY <1>3, <1>6, <3>2, <3>4
      <4>2. AhGet(ahMem["iden"], j) = ahMem["iden"][j]
        BY <1>1, <1>4, <3>2 DEF AhGet, AhShape
      <4> QED
        BY <2>5, <3>1, <3>2, <4>1, <4>2 DEF Buf, Iden
    <3> QED
      BY <1>6, <3>2, <3>3, <3>4
  <2>10. \A j \in Batches(i + 1) : Iden(j)' = ahCall.was[ahCall.lower + j]
    BY <2>5, <2>7 DEF Iden
  <2>11. /\ Batches(ahCall.next \div 2)' = Batches(i + 1)'
         /\ Batches((ahCall.next - 1) \div 2)' = Batches(i + 1)'
    BY <2>6 DEF Batches
  <2> QED
    BY <2>8, <2>9, <2>10, <2>11
<1> QED
  BY <1>5, <1>7, <1>8

-----------------------------------------------------------------------------
(* The writes.                                                              *)

(* The caller's buffer stays as it was.                                     *)
LEMMA BufferKept ==
  ASSUME AhTyped, AhLeaves, AhStep, ahCall.op \in AhWrites
  PROVE  /\ ahMem'["buf"] = ahMem["buf"]
         /\ \A i \in AhMany : Buf(i) = AhNew(i) /\ Buf(i)' = AhNew(i)
<1>1. Stepping /\ AhShape /\ AhCallOK
  BY StepIs DEF AhTyped
<1>2. "buf" \in Memories /\ "iden" # "buf"
  BY DEF Memories
<1>3. AhMove(AhCurrent) /\ AhCurrent.do \in {"read", "write"} => ahMem'["buf"] = ahMem["buf"]
  <2>1. SUFFICES ASSUME AhMove(AhCurrent), AhCurrent.do \in {"read", "write"}
                 PROVE  ahMem'["buf"] = ahMem["buf"]
    OBVIOUS
  <2>2. AhCurrent.mem \in Memories /\ AhCurrent.n \in Nat \ {0}
    BY <1>1, <2>1, CurrentFields
  <2>3. CASE AhCurrent.do = "read"
    <3>1. AhCurrent.mem = "iden"
      BY <1>1, <2>3, CurrentFields
    <3> QED
      BY <1>1, <1>2, <2>1, <2>2, <2>3, <3>1, ReadEffect
  <2>4. CASE AhCurrent.do = "write"
    BY <1>1, <2>1, <2>2, <2>4, WriteEffect
  <2> QED
    BY <2>1, <2>3, <2>4
<1>4. AhStepCopy(AhCurrent) => ahMem'["buf"] = ahMem["buf"]
  <2>1. SUFFICES ASSUME AhStepCopy(AhCurrent) PROVE ahMem'["buf"] = ahMem["buf"]
    OBVIOUS
  <2>2. AhCurrent.mem = "iden" /\ AhCurrent.mem \in Memories
    BY <1>1, <2>1, CurrentFields DEF AhStepCopy
  <2> QED
    BY <1>1, <1>2, <2>1, <2>2, CopyEffect
<1>5. AhStepMerge(AhCurrent) => ahMem'["buf"] = ahMem["buf"]
  BY <1>1, MergeEffect
<1>6. ahMem'["buf"] = ahMem["buf"]
  BY <1>3, <1>4, <1>5, StepIs DEF CommandDone, CommandFailed
<1> QED
  BY <1>6 DEF AhLeaves, Buf

(* A command that writes from the start of the buffer.                      *)
LEMMA WrittenFromBuf ==
  ASSUME AhTyped, AhLeaves, AhStep, ahCall.op \in AhWrites, ahCall.op # "aq_write",
         AhMove(AhCurrent),
         NEW n \in {ahCall.count, ahCall.count + 1},
         AhCurrent = AhWrite("buf", 0, ahCall.lower, n)
  PROVE  \A s \in Sectors : ahDisk'[s] = IF ahCall.lower <= s /\ s < ahCall.lower + n
                                         THEN AhNew(s - ahCall.lower) ELSE ahDisk[s]
<1>1. Stepping /\ AhShape /\ AhCallOK
  BY StepIs DEF AhTyped
<1>2. /\ ahCall.lower \in Nat /\ ahCall.count \in Nat \ {0} /\ ahCall.count <= AhMost
  BY <1>1, CallNumbers
<1>3. /\ AhCurrent.do = "write" /\ AhCurrent.mem = "buf" /\ AhCurrent.off = 0
      /\ AhCurrent.sector = ahCall.lower /\ AhCurrent.n = n /\ n \in Nat \ {0}
  BY <1>2 DEF AhWrite, AhCommand
<1>4. \A s \in Sectors : ahDisk'[s] =
        IF s - ahCall.lower \in 0..(n - 1)
        THEN AhGet(ahMem["buf"], 0 + (s - ahCall.lower)) ELSE ahDisk[s]
  BY <1>1, <1>3, WriteEffect
<1> SUFFICES ASSUME NEW s \in Sectors
             PROVE  ahDisk'[s] = IF ahCall.lower <= s /\ s < ahCall.lower + n
                                 THEN AhNew(s - ahCall.lower) ELSE ahDisk[s]
  OBVIOUS
<1>5. s \in Int
  BY DEF Sectors
<1>6. s - ahCall.lower \in 0..(n - 1) <=> ahCall.lower <= s /\ s < ahCall.lower + n
  BY <1>2, <1>3, <1>5
<1>7. CASE ahCall.lower <= s /\ s < ahCall.lower + n
  <2>1. s - ahCall.lower \in AhMany /\ 0 + (s - ahCall.lower) = s - ahCall.lower
    BY <1>2, <1>3, <1>5, <1>7, AhAssumption DEF AhMany
  <2>2. AhGet(ahMem["buf"], s - ahCall.lower) = AhNew(s - ahCall.lower)
    BY <1>1, <2>1 DEF AhGet, AhShape, Memories, AhLeaves, Buf
  <2> QED
    BY <1>4, <1>6, <1>7, <2>1, <2>2
<1>8. CASE ~ (ahCall.lower <= s /\ s < ahCall.lower + n)
  BY <1>4, <1>6, <1>8
<1> QED
  BY <1>7, <1>8

(* disk_write of whole sectors, sec_write_static and disk_write_sector are  *)
(* one command.                                                             *)
LEMMA WriteKeeps ==
  ASSUME AhInv, AhStep, ahCall.op \in {"write", "sec_write", "write_more"}, AhSlots # 0
  PROVE  AhLeaves' /\ AhProgress'
<1>1. Stepping /\ AhShape /\ AhCallOK /\ AhTyped /\ AhLeaves /\ UNCHANGED ahSys
  BY StepIs DEF AhTyped, Stepping, AhInv
<1>2. SameCall /\ ahCall.op \in AhWrites
  BY <1>1, StepTyped DEF AhWrites
<1>3. /\ ahCall.lower \in Nat /\ ahCall.count \in Nat \ {0}
      /\ \A j \in Within : j \in Nat /\ j < AhAsked /\ j \in AhMany
  BY <1>1, CallNumbers
<1>4. AhCurrent = AhWrite("buf", 0, ahCall.lower, AhAsked) /\ AhAsked \in {ahCall.count, ahCall.count + 1}
  BY <1>1, <1>3, OtherPlans DEF AhAsked
<1>5. /\ AhCurrent.do = "write" /\ AhCurrent.checked = TRUE
      /\ AhCurrent.sector = ahCall.lower /\ AhCurrent.n = AhAsked
  BY <1>4 DEF AhWrite, AhCommand
<1>6. \A s \in Sectors : AhMove(AhCurrent) =>
        ahDisk'[s] = IF ahCall.lower <= s /\ s < ahCall.lower + AhAsked
                     THEN AhNew(s - ahCall.lower) ELSE ahDisk[s]
  BY <1>1, <1>2, <1>4, WrittenFromBuf
<1>7. AhMove(AhCurrent) \/ ahDisk' = ahDisk
  BY <1>1, <1>5, StepIs DEF AhStepCopy, AhStepMerge, CommandDone, CommandFailed
<1>8. OnlyAsked
  BY <1>1, <1>2 DEF AhLeaves
<1>9. OnlyAsked'
  <2>1. AhAsked' = AhAsked /\ ahCall'.lower = ahCall.lower /\ ahCall'.was = ahCall.was
    BY <1>2 DEF SameCall, AhAsked
  <2> QED
    BY <1>6, <1>7, <1>8, <2>1 DEF OnlyAsked
<1>10. AhElsewhere'
  <2>1. ahCall'.op \in AhWrites /\ (ahCall'.op = "aq_write" => ahCall'.count < AhBatch) =>
          OnlyAsked'
    BY <1>9
  <2> QED
    BY <1>9 DEF AhElsewhere, OnlyAsked, AhAsked, Sectors
<1>11. AhLeaves'
  BY <1>1, <1>2, <1>9, <1>10, BufferKept DEF AhLeaves, SameCall
<1>12. ASSUME ahCall'.result = 1, NEW j \in Within PROVE Written(j)'
  <2>1. AhMove(AhCurrent) /\ ahCall.lower + AhAsked <= AhSectors
    BY <1>1, <1>5, <1>12, CheckedDone
  <2>2. ahCall.lower + j \in Sectors /\ ahCall.lower <= ahCall.lower + j
        /\ ahCall.lower + j < ahCall.lower + AhAsked /\ (ahCall.lower + j) - ahCall.lower = j
    BY <1>3, <1>4, <1>12, <2>1, AhAssumption DEF Sectors
  <2>3. ahDisk'[ahCall.lower + j] = AhNew(j)
    BY <1>6, <2>1, <2>2
  <2> QED
    BY <1>2, <2>2, <2>3 DEF Written, SameCall
<1>13. Within' = Within
  BY <1>2 DEF Within, SameCall, AhAsked
<1>14. AhProgress'
  BY <1>2, <1>12, <1>13 DEF AhProgress, SameCall, AhWrites
<1> QED
  BY <1>11, <1>14

(* AqDirect_write: first the copy, then a batch after the other.            *)
LEMMA AqCopyKeeps ==
  ASSUME AhTyped, AhLeaves, AhStep, ahCall.op = "aq_write", ahCall.next = 1
  PROVE  /\ ahDisk' = ahDisk
         /\ ahCall.count <= AhChunk => \A j \in Within : Iden(j)' = AhNew(j)
<1>1. Stepping /\ AhShape /\ AhCallOK
  BY StepIs DEF AhTyped
<1>2. AhCurrent = AhCopy("buf", "iden", Base, AhChunkOf(ahCall.count))
  BY <1>1, WritePlan
<1>3. /\ AhCurrent.do = "copy" /\ AhCurrent.from = "buf" /\ AhCurrent.mem = "iden"
      /\ AhCurrent.off = Base /\ AhCurrent.n = AhChunkOf(ahCall.count)
  BY <1>2 DEF AhCopy
<1>4. AhStepCopy(AhCurrent)
  BY <1>3, StepIs DEF AhStepMerge, CommandDone, CommandFailed
<1>5. "iden" \in Memories /\ "buf" \in Memories
  BY DEF Memories
<1>6. /\ ahDisk' = ahDisk
      /\ \A i \in AhMany : ahMem'["iden"][i] =
           IF i - Base \in 0..(AhChunkOf(ahCall.count) - 1)
           THEN AhGet(ahMem["buf"], Base + (i - Base)) ELSE ahMem["iden"][i]
  BY <1>1, <1>3, <1>4, <1>5, CopyEffect
<1>7. ASSUME ahCall.count <= AhChunk, NEW j \in Within PROVE Iden(j)' = AhNew(j)
  <2>1. ahCall.count \in Nat \ {0} /\ j \in Nat /\ j < ahCall.count /\ j \in AhMany
    BY <1>1, CallNumbers
  <2>2. ~ (ahCall.op \in AhDirect /\ AhChunk < ahCall.count)
    BY <1>7, <2>1, AhAssumption
  <2>3. Base = 0
    BY <1>1, <2>2, CallNumbers
  <2>4. AhChunkOf(ahCall.count) = ahCall.count
    BY <1>7, <2>1, AhAssumption DEF AhChunkOf
  <2>5. j - 0 \in 0..(ahCall.count - 1) /\ 0 + (j - 0) = j
    BY <2>1
  <2>6. AhGet(ahMem["buf"], j) = ahMem["buf"][j]
    BY <1>1, <1>5, <2>1 DEF AhGet, AhShape
  <2>7. ahMem["buf"][j] = AhNew(j)
    BY <2>1 DEF AhLeaves, Buf, AhWrites
  <2> QED
    BY <1>6, <2>1, <2>3, <2>4, <2>5, <2>6, <2>7 DEF Iden
<1> QED
  BY <1>6, <1>7

LEMMA AqBatchKeeps ==
  ASSUME AhTyped, AhLeaves, AhStep, ahCall.op = "aq_write", ahCall.next # 1,
         ahCall.count <= AhChunk
  PROVE  \E i \in 0..AhWhole(ahCall.count), at \in Nat :
           /\ ahCall.next = i + 2 /\ at = i * AhBatch
           /\ AhCurrent.checked = TRUE /\ AhCurrent.do = "write"
           /\ AhCurrent.sector = ahCall.lower + at
           /\ AhCurrent.n = AhSize(i, ahCall.count)
           /\ ahMem' = ahMem
           /\ AhMove(AhCurrent) \/ ahDisk' = ahDisk
           /\ AhMove(AhCurrent) => \A s \in Sectors :
                ahDisk'[s] = IF s - (ahCall.lower + at) \in 0..(AhSize(i, ahCall.count) - 1)
                             THEN AhGet(ahMem["iden"], at + (s - (ahCall.lower + at)))
                             ELSE ahDisk[s]
<1>1. Stepping /\ AhShape /\ AhCallOK
  BY StepIs DEF AhTyped
<1>2. /\ AhWhole(ahCall.count) \in Nat /\ AhBatch \in Nat /\ ahCall.count \in Nat
      /\ \A i \in Nat : AhSize(i, ahCall.count) \in Nat \ {0}
  BY <1>1, InThePlan, CallNumbers, Counts
<1>3. Base = 0
  <2>1. ~ (ahCall.op \in AhDirect /\ AhChunk < ahCall.count)
    BY <1>2, AhAssumption
  <2> QED
    BY <1>1, <2>1, CallNumbers
<1>4. PICK i \in 0..AhWhole(ahCall.count) :
        /\ ahCall.next = i + 2
        /\ AhCurrent = AhWrite("iden", Base + i * AhBatch, ahCall.lower + (Base + i * AhBatch),
                               AhSize(i, ahCall.count))
  BY <1>1, WritePlan
<1> DEFINE at == i * AhBatch
<1>5. at \in Nat /\ Base + i * AhBatch = at
  BY <1>2, <1>3
<1> HIDE DEF at
<1>6. /\ AhCurrent.do = "write" /\ AhCurrent.mem = "iden" /\ AhCurrent.off = at
      /\ AhCurrent.sector = ahCall.lower + at /\ AhCurrent.n = AhSize(i, ahCall.count)
      /\ AhCurrent.checked = TRUE
  BY <1>4, <1>5 DEF AhWrite, AhCommand
<1>7. AhCurrent.n \in Nat \ {0}
  BY <1>2, <1>4, <1>6
<1>8. AhMove(AhCurrent) =>
        /\ ahMem' = ahMem
        /\ \A s \in Sectors :
             ahDisk'[s] = IF s - (ahCall.lower + at) \in 0..(AhSize(i, ahCall.count) - 1)
                          THEN AhGet(ahMem["iden"], at + (s - (ahCall.lower + at)))
                          ELSE ahDisk[s]
  BY <1>1, <1>6, <1>7, WriteEffect
<1>9. AhMove(AhCurrent) \/ UNCHANGED <<ahDisk, ahMem>>
  BY <1>6, StepIs DEF AhStepCopy, AhStepMerge, CommandDone, CommandFailed
<1>10. /\ ahCall.next = i + 2 /\ at = i * AhBatch
       /\ AhCurrent.checked = TRUE /\ AhCurrent.do = "write"
       /\ AhCurrent.sector = ahCall.lower + at
       /\ AhCurrent.n = AhSize(i, ahCall.count)
       /\ ahMem' = ahMem
       /\ AhMove(AhCurrent) \/ ahDisk' = ahDisk
  BY <1>4, <1>6, <1>8, <1>9 DEF at
<1> QED
  BY <1>5, <1>8, <1>10

LEMMA AqWriteKeeps ==
  ASSUME AhInv, AhStep, ahCall.op = "aq_write", AhSlots # 0
  PROVE  AhLeaves' /\ AhProgress'
<1>1. Stepping /\ AhShape /\ AhCallOK /\ AhTyped /\ AhLeaves /\ UNCHANGED ahSys
  BY StepIs DEF AhTyped, Stepping, AhInv
<1>2. SameCall /\ ahCall.op \in AhWrites
  BY <1>1, StepTyped DEF AhWrites
<1>3. /\ ahCall.lower \in Nat /\ ahCall.count \in Nat \ {0} /\ ahCall.next \in Nat \ {0}
      /\ \A j \in Within : j \in Nat /\ j < ahCall.count /\ j \in AhMany
      /\ AhWhole(ahCall.count) \in Nat /\ AhBatch \in Nat \ {0}
      /\ ahSys.at = "ready" /\ ahCall.op # "none"
  BY <1>1, CallNumbers, InThePlan
<1>4. /\ Within' = Within /\ AhWhole(ahCall.count)' = AhWhole(ahCall.count)
      /\ ahCall'.lower = ahCall.lower /\ ahCall'.was = ahCall.was /\ AhAsked' = AhAsked
      /\ AhAsked = ahCall.count /\ ahCall'.count = ahCall.count /\ ahCall'.op = "aq_write"
  BY <1>2, <1>3 DEF Within, SameCall, AhAsked
<1> DEFINE Filled == ahCall.count <= AhChunk => \A j \in Within : Iden(j)' = AhNew(j)
           Kept == ahCall.count < AhBatch => OnlyAsked'
           Moving == ahCall.count <= AhChunk /\ ahCall'.result = 1 /\ ahCall'.next >= 2 =>
                       \A j \in Batches(ahCall.next - 2)' : Written(j)'
<1>5. ahCall.count < AhBatch => ahCall.count <= AhChunk /\ OnlyAsked
  BY <1>1, <1>2, <1>3, AhAssumption DEF AhLeaves
<1>6. ahDisk' = ahDisk => Kept
  BY <1>4, <1>5 DEF OnlyAsked
<1>7. ASSUME ahCall.next = 1 PROVE Filled /\ Kept /\ Moving
  <2>1. ahDisk' = ahDisk /\ Filled
    BY <1>1, <1>7, AqCopyKeeps
  <2>2. Moving
    <3> SUFFICES ASSUME ahCall.count <= AhChunk, ahCall'.next >= 2,
                        NEW j \in Batches(ahCall.next - 2)'
                 PROVE  Written(j)'
      OBVIOUS
    <3>1. ahCall'.next = 2
      <4>1. ahCall' = AhDone
        BY <1>1, <1>7, WritePlan, StepIs DEF CommandFailed, CommandDone, AhCopy
      <4> QED
        BY <1>1, <1>7, <4>1, AfterDone
    <3>2. j \in Within /\ (j < 0 * AhBatch \/ 0 = AhWhole(ahCall.count) + 1)
      BY <1>4, <3>1 DEF Batches
    <3> QED
      BY <1>3, <3>2
  <2>3. Kept
    BY <1>6, <2>1
  <2> HIDE DEF Filled, Kept, Moving
  <2> QED
    BY <2>1, <2>2, <2>3
<1>8. ASSUME ahCall.next # 1, ahCall.count <= AhChunk PROVE Filled /\ Kept /\ Moving
  <2>1. PICK i \in 0..AhWhole(ahCall.count), at \in Nat :
           /\ ahCall.next = i + 2 /\ at = i * AhBatch
           /\ AhCurrent.checked = TRUE /\ AhCurrent.do = "write"
           /\ AhCurrent.sector = ahCall.lower + at
           /\ AhCurrent.n = AhSize(i, ahCall.count)
           /\ ahMem' = ahMem
           /\ AhMove(AhCurrent) \/ ahDisk' = ahDisk
           /\ AhMove(AhCurrent) => \A s \in Sectors :
                ahDisk'[s] = IF s - (ahCall.lower + at) \in 0..(AhSize(i, ahCall.count) - 1)
                             THEN AhGet(ahMem["iden"], at + (s - (ahCall.lower + at)))
                             ELSE ahDisk[s]
    BY <1>1, <1>8, AqBatchKeeps
  <2> DEFINE n == AhSize(i, ahCall.count)
  <2>2. /\ n \in Nat \ {0} /\ (i # AhWhole(ahCall.count) => n = AhBatch)
        /\ (i = AhWhole(ahCall.count) => n = ahCall.count)
    BY <1>3 DEF AhSize
  <2> HIDE DEF n
  <2>3. \A j \in Within : Iden(j) = AhNew(j) /\ AhGet(ahMem["iden"], j) = AhNew(j)
    <3>1. ahCall.next >= 2
      BY <1>3, <1>8
    <3>2. \A j \in Within : Iden(j) = AhNew(j)
      BY <1>1, <1>8, <3>1 DEF AhLeaves
    <3>3. "iden" \in Memories
      BY DEF Memories
    <3> QED
      BY <1>1, <1>3, <3>2, <3>3 DEF AhGet, AhShape, Iden
  <2>4. Filled
    BY <2>1, <2>3 DEF Iden
  <2>5. ASSUME AhMove(AhCurrent), NEW s \in Sectors, NEW j \in Within, s = ahCall.lower + j,
               at <= j, j < at + n
        PROVE  ahDisk'[s] = AhNew(j)
    <3>1. /\ s - (ahCall.lower + at) \in 0..(n - 1)
          /\ at + (s - (ahCall.lower + at)) = j
      BY <1>3, <2>1, <2>2, <2>5
    <3> QED
      BY <2>1, <2>3, <2>5, <3>1 DEF n
  <2>6. ASSUME AhMove(AhCurrent), NEW s \in Sectors,
               ~ (ahCall.lower + at <= s /\ s < ahCall.lower + at + n)
        PROVE  ahDisk'[s] = ahDisk[s]
    <3>1. s - (ahCall.lower + at) \notin 0..(n - 1)
      BY <1>3, <2>1, <2>2, <2>6 DEF Sectors
    <3> QED
      BY <2>1, <2>6, <3>1 DEF n
  <2>7. Kept
    <3>1. SUFFICES ASSUME ahCall.count < AhBatch, AhMove(AhCurrent) PROVE OnlyAsked'
      BY <1>6, <2>1
    <3>2. AhWhole(ahCall.count) = 0
      <4>1. AhWhole(ahCall.count) * AhBatch <= ahCall.count
        BY <1>3, Quotient DEF AhWhole
      <4>2. 1 <= AhWhole(ahCall.count) => 1 * AhBatch <= AhWhole(ahCall.count) * AhBatch
        BY <1>3, Multiples
      <4> QED
        BY <1>3, <3>1, <4>1, <4>2
    <3>3. i = 0 /\ at = 0 /\ n = ahCall.count
      BY <1>3, <2>1, <2>2, <3>2
    <3>4. ASSUME NEW s \in Sectors
          PROVE  \/ ahDisk'[s] = ahCall.was[s]
                 \/ /\ ahCall.lower <= s /\ s < ahCall.lower + AhAsked
                    /\ ahDisk'[s] = AhNew(s - ahCall.lower)
      <4>1. CASE ahCall.lower <= s /\ s < ahCall.lower + ahCall.count
        <5>1. s - ahCall.lower \in Within /\ s = ahCall.lower + (s - ahCall.lower)
          BY <1>3, <1>4, <4>1 DEF Within, Sectors
        <5>2. at <= s - ahCall.lower /\ s - ahCall.lower < at + n
          BY <1>3, <3>3, <4>1 DEF Sectors
        <5>3. ahDisk'[s] = AhNew(s - ahCall.lower)
          BY <2>5, <3>1, <5>1, <5>2
        <5> QED
          BY <1>4, <4>1, <5>3
      <4>2. CASE ~ (ahCall.lower <= s /\ s < ahCall.lower + ahCall.count)
        <5>1. ~ (ahCall.lower + at <= s /\ s < ahCall.lower + at + n)
          BY <1>3, <3>3, <4>2
        <5>2. ahDisk'[s] = ahDisk[s]
          BY <2>6, <3>1, <5>1
        <5> QED
          BY <1>4, <1>5, <3>1, <4>2, <5>2 DEF OnlyAsked
      <4> QED
        BY <4>1, <4>2
    <3> QED
      BY <1>4, <3>4 DEF OnlyAsked
  <2>8. Moving
    <3>1. SUFFICES ASSUME ahCall'.result = 1, ahCall'.next >= 2,
                          NEW j \in Batches(ahCall.next - 2)'
                   PROVE  Written(j)'
      OBVIOUS
    <3>2. /\ ahCall' = AhDone /\ ahCall.result = 1 /\ AhMove(AhCurrent)
          /\ (ahCall.lower + at) + n <= AhSectors
      BY <1>1, <2>1, <3>1, CheckedDone DEF n
    <3>3. ahCall'.next = i + 3
      <4>1. ~ (ahCall.op \in AhDirect /\ AhChunk < ahCall.count)
        BY <1>3, <1>8, AhAssumption
      <4> QED
        BY <1>1, <1>3, <2>1, <3>2, <4>1, AfterDone
    <3>4. (i + 1) * AhBatch = at + AhBatch /\ i \in Nat
      BY <1>3, <2>1
    <3>5. ahCall'.next - 2 = i + 1 /\ ahCall.next - 2 = i
      BY <2>1, <3>3, <3>4
    <3>6. j \in Within /\ (j < at + AhBatch \/ i = AhWhole(ahCall.count))
      <4>1. j \in Within /\ (j < (i + 1) * AhBatch \/ i + 1 = AhWhole(ahCall.count) + 1)
        BY <1>4, <3>1, <3>5 DEF Batches
      <4> QED
        BY <1>3, <3>4, <4>1
    <3>7. j \in Nat /\ j < ahCall.count
      BY <1>3, <3>6
    <3>8. CASE j < at
      <4>1. j \in Batches(i)
        BY <2>1, <3>6, <3>8 DEF Batches
      <4>2. Written(j)
        <5>1. ahCall.next >= 2
          BY <2>1, <3>4
        <5>2. \A x \in Batches(ahCall.next - 2) : Written(x)
          BY <1>3, <1>8, <3>2, <5>1 DEF AhProgress, AhInv
        <5> QED
          BY <3>5, <4>1, <5>2
      <4>3. ahCall.lower + j \in Sectors /\ ahDisk[ahCall.lower + j] = AhNew(j)
        BY <4>2 DEF Written
      <4>4. ~ (ahCall.lower + at <= ahCall.lower + j /\ ahCall.lower + j < ahCall.lower + at + n)
        BY <1>3, <3>7, <3>8
      <4>5. ahDisk'[ahCall.lower + j] = AhNew(j)
        BY <2>6, <3>2, <4>3, <4>4
      <4> QED
        BY <1>4, <4>3, <4>5 DEF Written
    <3>9. CASE at <= j
      <4>1. j < at + n
        BY <1>3, <2>2, <3>6, <3>7
      <4>2. ahCall.lower + j \in Sectors
        BY <1>3, <2>2, <3>2, <3>7, <4>1, AhAssumption DEF Sectors
      <4>3. ahDisk'[ahCall.lower + j] = AhNew(j)
        BY <2>5, <3>2, <3>6, <3>9, <4>1, <4>2
      <4> QED
        BY <1>4, <4>2, <4>3 DEF Written
    <3> QED
      BY <3>7, <3>8, <3>9
  <2> HIDE DEF Filled, Kept, Moving
  <2> QED
    BY <2>4, <2>7, <2>8
<1>9. ASSUME AhChunk < ahCall.count PROVE Filled /\ Kept /\ Moving
  <2>1. ~ (ahCall.count <= AhChunk) /\ ~ (ahCall.count < AhBatch)
    BY <1>3, <1>9, AhAssumption
  <2>2. Filled
    BY <2>1
  <2>3. Kept
    BY <2>1
  <2>4. Moving
    BY <2>1
  <2> HIDE DEF Filled, Kept, Moving
  <2> QED
    BY <2>2, <2>3, <2>4
<1>10. Filled /\ Kept /\ Moving
  <2>1. ahCall.count <= AhChunk \/ AhChunk < ahCall.count
    BY <1>3, AhAssumption
  <2> HIDE DEF Filled, Kept, Moving
  <2> QED
    BY <1>7, <1>8, <1>9, <2>1
<1>11. AhLeaves'
  <2>1. \A i \in AhMany : Buf(i)' = AhNew(i)
    BY <1>1, <1>2, BufferKept
  <2>2. AhElsewhere'
    <3>1. ahCall'.count < AhBatch => OnlyAsked'
      BY <1>4, <1>10
    <3> QED
      BY <1>4, <3>1 DEF AhElsewhere, OnlyAsked, AhAsked, Sectors
  <2>3. (ahCall'.op \in AhWrites /\ ahCall'.op # "none") /\ ahCall'.op # "write_part"
    BY <1>2, <1>4
  <2> QED
    BY <1>4, <1>10, <2>1, <2>2, <2>3 DEF AhLeaves
<1>12. AhProgress'
  BY <1>4, <1>10 DEF AhProgress, AhWrites
<1> QED
  BY <1>11, <1>12

(* disk_write with bytes left over: the whole sectors, then the last sector *)
(* is read, changed and written, and no error of these is looked at.        *)
LEMMA WritePartKeeps ==
  ASSUME AhInv, AhStep, ahCall.op = "write_part", AhSlots # 0
  PROVE  AhLeaves' /\ AhProgress'
<1> DEFINE L == ahCall.lower + ahCall.count
           part == <<"part", AhNew(ahCall.count), ahCall.was[L]>>
<1>1. Stepping /\ AhShape /\ AhCallOK /\ AhTyped /\ AhLeaves /\ UNCHANGED ahSys
  BY StepIs DEF AhTyped, Stepping, AhInv
<1>2. SameCall /\ ahCall.op \in AhWrites /\ ahCall.op \notin AhDirect
  BY <1>1, StepTyped DEF AhWrites, AhDirect
<1>3. /\ ahCall.lower \in Nat /\ ahCall.count \in Nat \ {0} /\ ahCall.count <= AhMost
      /\ \A j \in Within : j \in Nat /\ j < ahCall.count /\ j \in AhMany
      /\ ahSys.at = "ready" /\ ahCall.op # "none" /\ L \in Nat
  BY <1>1, CallNumbers, InThePlan
<1>4. /\ Within' = Within /\ ahCall'.lower = ahCall.lower /\ ahCall'.was = ahCall.was
      /\ AhAsked' = AhAsked /\ AhAsked = ahCall.count /\ ahCall'.count = ahCall.count
      /\ ahCall'.op = "write_part" /\ ahSys'.at = "ready"
  BY <1>1, <1>2, <1>3 DEF Within, SameCall, AhAsked
<1>5. OnlyAsked
  <2>1. ahCall.next # 5
    BY <1>1, InThePlan DEF AhSteps
  <2> QED
    BY <1>1, <1>2, <2>1 DEF AhLeaves
<1>6. /\ \A i \in AhMany : Buf(i) = AhNew(i) /\ Buf(i)' = AhNew(i)
      /\ ahMem'["buf"] = ahMem["buf"]
  BY <1>1, <1>2, BufferKept
<1>7. "iden" \in Memories /\ "buf" \in Memories /\ 0 \in AhMany /\ ahCall.count \in AhMany
  BY <1>3, AhAssumption DEF Memories, AhMany
<1>8. ahDisk' = ahDisk => OnlyAsked'
  BY <1>4, <1>5 DEF OnlyAsked
<1>9. L \in Sectors => ahDisk[L] = ahCall.was[L]
  BY <1>3, <1>4, <1>5 DEF OnlyAsked
(* What is left to be shown of each step. *)
<1> DEFINE Only == ahCall'.next # 5 => OnlyAsked'
           Last == ahCall'.next \in {3, 4} /\ ~ Failing' =>
                     L \in Sectors /\ Iden(0)' = IF ahCall'.next = 3 THEN ahCall.was[L] ELSE part
           Rest == ahCall'.next = 5 /\ ~ Failing' => ahDisk'[L] = part
           Near == \A s \in Sectors :
                     \/ ahDisk'[s] = ahCall.was[s]
                     \/ /\ ahCall.lower <= s /\ s < ahCall.lower + ahCall.count
                        /\ ahDisk'[s] = AhNew(s - ahCall.lower)
                     \/ s = L /\ ahDisk'[s] = part
           Moving == ahCall.count <= AhChunk /\ ahCall'.result = 1 =>
                       \A j \in Within : Written(j)'
           Goal == Only /\ Last /\ Rest /\ Near /\ Moving
<1>10. OnlyAsked' => Only /\ Near
  BY <1>4 DEF OnlyAsked
<1>11. ASSUME ahCall' = AhDone, ahCall.next # 1
       PROVE  /\ ahCall'.next = ahCall.next + 1
              /\ ahCall.count <= AhChunk /\ ahCall'.result = 1 => \A j \in Within : Written(j)
              /\ ahDisk' = ahDisk => Moving
  <2>1. ahCall'.result = ahCall.result /\ ahCall'.next = ahCall.next + 1
    BY <1>1, <1>2, <1>11, AfterDone
  <2>2. ahCall.next >= 2
    <3>1. ahCall.next \in Nat \ {0}
      BY <1>1, CallNumbers
    <3> QED
      BY <1>11, <3>1
  <2>3. ahCall.op \in AhWrites \ {"aq_write"}
    BY <1>2
  <2>4. ahCall.count <= AhChunk /\ ahCall'.result = 1 => \A j \in Within : Written(j)
    BY <1>3, <2>1, <2>2, <2>3 DEF AhProgress, AhInv
  <2>5. ahDisk' = ahDisk => Moving
    BY <1>4, <2>4 DEF Written
  <2> QED
    BY <2>1, <2>4, <2>5
<1>12. ASSUME ahCall.next = 1, AhCurrent = AhWrite("buf", 0, ahCall.lower, ahCall.count)
       PROVE  Goal
  <2>1. /\ AhCurrent.do = "write" /\ AhCurrent.checked = TRUE
        /\ AhCurrent.sector = ahCall.lower /\ AhCurrent.n = ahCall.count
    BY <1>12 DEF AhWrite, AhCommand
  <2>2. ahCall'.next = 2
    BY <1>1, <1>2, <1>12, <2>1, StepIs, AfterDone, AfterFailed
       DEF AhStepCopy, AhStepMerge, CommandDone, CommandFailed
  <2>3. AhMove(AhCurrent) => \A s \in Sectors :
          ahDisk'[s] = IF ahCall.lower <= s /\ s < ahCall.lower + ahCall.count
                       THEN AhNew(s - ahCall.lower) ELSE ahDisk[s]
    BY <1>1, <1>2, <1>12, WrittenFromBuf
  <2>4. AhMove(AhCurrent) \/ ahDisk' = ahDisk
    BY <1>1, <2>1, StepIs DEF AhStepCopy, AhStepMerge, CommandDone, CommandFailed
  <2>5. OnlyAsked'
    BY <1>4, <1>5, <2>3, <2>4 DEF OnlyAsked
  <2>6. Moving
    <3>1. SUFFICES ASSUME ahCall'.result = 1, NEW j \in Within PROVE Written(j)'
      OBVIOUS
    <3>2. AhMove(AhCurrent) /\ ahCall.lower + ahCall.count <= AhSectors
      BY <1>1, <2>1, <3>1, CheckedDone
    <3>3. /\ ahCall.lower + j \in Sectors /\ ahCall.lower <= ahCall.lower + j
          /\ ahCall.lower + j < ahCall.lower + ahCall.count
          /\ (ahCall.lower + j) - ahCall.lower = j
      BY <1>3, <3>1, <3>2, AhAssumption DEF Sectors
    <3>4. ahDisk'[ahCall.lower + j] = AhNew(j)
      BY <2>3, <3>2, <3>3
    <3> QED
      BY <1>4, <3>3, <3>4 DEF Written
  <2>7. Last /\ Rest
    BY <2>2
  <2> HIDE DEF Only, Last, Rest, Near, Moving
  <2> QED
    BY <1>10, <2>5, <2>6, <2>7
<1>13. ASSUME ahCall.next = 2, AhCurrent = AhCommand("read", "iden", 0, L, 1, FALSE)
       PROVE  Goal
  <2>1. /\ AhCurrent.do = "read" /\ AhCurrent.mem = "iden" /\ AhCurrent.off = 0
        /\ AhCurrent.sector = L /\ AhCurrent.n = 1 /\ AhCurrent.checked = FALSE
    BY <1>13 DEF AhCommand
  <2>2. CommandDone(AhCurrent)
    BY <1>1, <2>1, StepIs DEF AhStepCopy, AhStepMerge, CommandFailed
  <2>3. ahDisk' = ahDisk
    BY <2>1, <2>2 DEF CommandDone, AhMove
  <2>4. ahCall' = AhDone
    BY <2>2 DEF CommandDone
  <2>5. ahCall'.next = 3 /\ Moving
    BY <1>11, <1>13, <2>3, <2>4
  <2>6. Last
    <3>1. SUFFICES ASSUME ~ Failing' PROVE L \in Sectors /\ Iden(0)' = ahCall.was[L]
      BY <2>5
    <3>2. AhMove(AhCurrent) /\ L + 1 <= AhSectors
      BY <2>1, <2>2, <3>1 DEF CommandDone
    <3>3. L \in Sectors
      BY <1>3, <3>2, AhAssumption DEF Sectors
    <3>4. \A i \in AhMany : ahMem'["iden"][i] =
            IF i - 0 \in 0..(1 - 1) THEN AhGet(ahDisk, L + (i - 0)) ELSE ahMem["iden"][i]
      <4>1. 1 \in Nat \ {0}
        OBVIOUS
      <4>2. \A i \in AhMany : ahMem'[AhCurrent.mem][i] =
              IF i - AhCurrent.off \in 0..(AhCurrent.n - 1)
              THEN AhGet(ahDisk, AhCurrent.sector + (i - AhCurrent.off))
              ELSE ahMem[AhCurrent.mem][i]
        <5>1. AhCurrent.mem \in Memories /\ AhCurrent.n \in Nat \ {0}
          BY <1>7, <2>1, <4>1
        <5> QED
          BY <1>1, <2>1, <3>2, <5>1, ReadEffect
      <4> HIDE DEF L
      <4> QED
        BY <2>1, <4>2
    <3>5. 0 - 0 \in 0..(1 - 1) /\ L + (0 - 0) = L
      BY <1>3
    <3>6. ahMem'["iden"][0] = AhGet(ahDisk, L)
      BY <1>7, <3>4, <3>5
    <3>7. AhGet(ahDisk, L) = ahDisk[L]
      BY <1>1, <3>3 DEF AhGet, AhShape
    <3> QED
      BY <1>9, <3>3, <3>6, <3>7 DEF Iden
  <2>7. Rest
    BY <2>5
  <2> HIDE DEF Only, Last, Rest, Near, Moving
  <2> QED
    BY <1>8, <1>10, <2>3, <2>5, <2>6, <2>7
<1>14. ASSUME ahCall.next = 3, AhCurrent = [do |-> "merge", off |-> ahCall.count]
       PROVE  Goal
  <2>1. AhCurrent.do = "merge" /\ AhCurrent.off = ahCall.count
    BY <1>14
  <2>2. AhStepMerge(AhCurrent) /\ UNCHANGED ahPort /\ ahCall' = AhDone
    BY <1>1, <2>1, StepIs DEF AhStepCopy, CommandDone, CommandFailed
  <2>3. /\ ahDisk' = ahDisk
        /\ ahMem'["iden"][0] = <<"part", AhGet(ahMem["buf"], ahCall.count), ahMem["iden"][0]>>
    BY <1>1, <2>1, <2>2, MergeEffect
  <2>4. ahCall'.next = 4 /\ Moving
    BY <1>11, <1>14, <2>2, <2>3
  <2>5. Failing' = Failing
    BY <1>1, <2>2 DEF Failing
  <2>6. AhGet(ahMem["buf"], ahCall.count) = AhNew(ahCall.count)
    BY <1>1, <1>6, <1>7 DEF AhGet, AhShape, Buf
  <2>7. Last
    <3>1. SUFFICES ASSUME ~ Failing PROVE L \in Sectors /\ Iden(0)' = part
      BY <2>4, <2>5
    <3>2. L \in Sectors /\ Iden(0) = ahCall.was[L]
      BY <1>1, <1>14, <3>1 DEF AhLeaves
    <3> QED
      BY <2>3, <2>6, <3>2 DEF Iden
  <2>8. Rest
    BY <2>4
  <2> HIDE DEF Only, Last, Rest, Near, Moving
  <2> QED
    BY <1>8, <1>10, <2>3, <2>4, <2>7, <2>8
<1>15. ASSUME ahCall.next = 4, AhCurrent = AhCommand("write", "iden", 0, L, 1, FALSE)
       PROVE  Goal
  <2>1. /\ AhCurrent.do = "write" /\ AhCurrent.mem = "iden" /\ AhCurrent.off = 0
        /\ AhCurrent.sector = L /\ AhCurrent.n = 1 /\ AhCurrent.checked = FALSE
    BY <1>15 DEF AhCommand
  <2>2. CommandDone(AhCurrent)
    BY <1>1, <2>1, StepIs DEF AhStepCopy, AhStepMerge, CommandFailed
  <2>3. ahCall'.next = 5
    BY <1>11, <1>15, <2>2 DEF CommandDone
  <2>4. CASE ahDisk' = ahDisk /\ Failing'
    <3>1. OnlyAsked'
      BY <1>8, <2>4
    <3>2. Moving
      BY <1>11, <1>15, <2>2, <2>4 DEF CommandDone
    <3>3. Last
      BY <2>3
    <3>4. Rest
      BY <2>4
    <3> HIDE DEF Only, Last, Rest, Near, Moving
    <3> QED
      BY <1>10, <3>1, <3>2, <3>3, <3>4
  <2>5. CASE ~ (ahDisk' = ahDisk /\ Failing')
    <3>1. AhMove(AhCurrent) /\ ~ Failing
      BY <2>2, <2>5 DEF CommandDone
    <3>2. L \in Sectors /\ Iden(0) = part
      BY <1>1, <1>15, <3>1 DEF AhLeaves
    <3>3. \A s \in Sectors : ahDisk'[s] =
            IF s - L \in 0..(1 - 1) THEN AhGet(ahMem["iden"], 0 + (s - L)) ELSE ahDisk[s]
      <4>1. 1 \in Nat \ {0}
        OBVIOUS
      <4> QED
        BY <1>1, <2>1, <3>1, <4>1, WriteEffect
    <3>4. ahDisk'[L] = part
      <4>1. L - L \in 0..(1 - 1) /\ 0 + (L - L) = 0
        BY <1>3
      <4>2. AhGet(ahMem["iden"], 0) = part
        BY <1>1, <1>7, <3>2 DEF AhGet, AhShape, Iden
      <4>3. ahDisk'[L] = AhGet(ahMem["iden"], 0)
        BY <3>2, <3>3, <4>1
      <4> QED
        BY <4>2, <4>3
    <3>5. \A s \in Sectors : s # L => ahDisk'[s] = ahDisk[s]
      <4> TAKE s \in Sectors
      <4>1. s # L => s - L \notin 0..(1 - 1)
        BY <1>3 DEF Sectors
      <4> QED
        BY <3>3, <4>1
    <3>6. Near
      <4> TAKE s \in Sectors
      <4>1. CASE s = L
        BY <3>4, <4>1
      <4>2. CASE s # L
        BY <1>4, <1>5, <3>5, <4>2 DEF OnlyAsked
      <4> QED
        BY <4>1, <4>2
    <3>7. Moving
      <4>1. SUFFICES ASSUME ahCall.count <= AhChunk, ahCall'.result = 1, NEW j \in Within
                     PROVE  Written(j)'
        OBVIOUS
      <4>2. Written(j)
        BY <1>11, <1>15, <2>2, <4>1 DEF CommandDone
      <4>3. ahCall.lower + j # L
        BY <1>3, <4>1
      <4> QED
        BY <1>4, <3>5, <4>2, <4>3 DEF Written
    <3>8. Only /\ Last /\ Rest
      BY <2>3, <3>4
    <3> HIDE DEF Only, Last, Rest, Near, Moving
    <3> QED
      BY <3>6, <3>7, <3>8
  <2> QED
    BY <2>4, <2>5
<1>16. Goal
  <2> HIDE DEF Goal, L
  <2> QED
    BY <1>1, <1>12, <1>13, <1>14, <1>15, OtherPlans DEF L
<1>17. AhLeaves'
  <2>1. AhElsewhere'
    <3>1. SUFFICES ASSUME NEW s \in 0..(AhSectors - 1)
                   PROVE  \/ ahDisk'[s] = ahCall'.was[s]
                          \/ /\ ahCall'.lower <= s /\ s < ahCall'.lower + ahCall'.count
                             /\ ahDisk'[s] = AhNew(s - ahCall'.lower)
                          \/ /\ s = ahCall'.lower + ahCall'.count
                             /\ ahDisk'[s] = <<"part", AhNew(ahCall'.count), ahCall'.was[s]>>
      BY <1>3, <1>4 DEF AhElsewhere, AhTail, AhMerged
    <3> QED
      BY <1>4, <1>16 DEF Sectors
  <2>2. \A i \in AhMany : Buf(i)' = AhNew(i)
    BY <1>6
  <2>3. ahCall'.op \in AhWrites
    BY <1>4 DEF AhWrites
  <2>4. Only /\ Last /\ Rest
    BY <1>16
  <2> QED
    BY <1>4, <2>1, <2>2, <2>3, <2>4 DEF AhLeaves
<1>18. AhProgress'
  <2>1. Moving
    BY <1>16
  <2> QED
    BY <1>4, <2>1 DEF AhProgress, AhWrites
<1> QED
  BY <1>17, <1>18

-----------------------------------------------------------------------------
(* The other actions.                                                       *)

(* Between two calls there is nothing to keep.                              *)
LEMMA Idle ==
  ASSUME ahCall'.op = "none"
  PROVE  AhLeaves' /\ AhProgress'
<1>1. "none" \notin AhWrites
  BY DEF AhWrites
<1> QED
  BY <1>1 DEF AhLeaves, AhProgress, AhElsewhere

LEMMA FreshShape ==
  /\ AhFresh = [m \in Memories |-> AhFresh[m]]
  /\ \A m \in Memories : AhFresh[m] = [i \in AhMany |-> AhFresh[m][i]]
  /\ \A i \in AhMany : AhFresh["buf"][i] = AhNew(i)
  BY DEF AhFresh, Memories

LEMMA InitInv ==
  ASSUME AhInit
  PROVE  AhInv
<1>1. ahDisk = [s \in Sectors |-> AhOld(s)] /\ ahMem = AhFresh /\ ahCall = AhNothing
  BY DEF AhInit, Sectors
<1>2. AhShape
  <2>1. \A s \in Sectors : ahDisk[s] = AhOld(s)
    BY <1>1
  <2>2. ahDisk = [s \in Sectors |-> ahDisk[s]]
    BY <1>1, <2>1
  <2> QED
    BY <1>1, <2>2, FreshShape DEF AhShape
<1>3. AhSysOK
  BY AhAssumption DEF AhInit, AhSysOK
<1>4. AhPortOK
  BY DEF AhInit, AhPortOK
<1>5. ahCall.op = "none"
  BY <1>1 DEF AhNothing
<1>6. AhCallOK
  BY <1>1, <1>5 DEF AhCallOK, AhNothing
<1>7. "none" \notin AhWrites
  BY DEF AhWrites
<1>8. AhLeaves /\ AhProgress
  BY <1>5, <1>7 DEF AhLeaves, AhProgress, AhElsewhere
<1> QED
  BY <1>2, <1>3, <1>4, <1>6, <1>8 DEF AhInv, AhTyped

LEMMA ProbeInv ==
  ASSUME AhInv, probe_port
  PROVE  AhInv'
<1> DEFINE c == ahSys.controller
           ports == AhFound(c)
           n == Cardinality(ports)
<1>1. /\ AhShape /\ AhSysOK /\ AhPortOK /\ AhCallOK
      /\ ahSys.at = "probe" /\ c <= AhControllers
      /\ UNCHANGED <<ahDev, ahDisk, ahMem, ahCall>>
  BY DEF AhInv, AhTyped, probe_port
<1>2. ahCall.op = "none"
  BY <1>1 DEF AhCallOK, AhRunning
<1>3. AhShape' /\ AhCallOK'
  BY <1>1, <1>2 DEF AhShape, AhCallOK
<1>4. AhLeaves' /\ AhProgress'
  BY <1>1, <1>2, Idle
<1>5. ports \subseteq 0..(AhPorts - 1)
  BY DEF AhFound
<1>6. n \in Nat
  <2>1. IsFiniteSet(0..(AhPorts - 1))
    BY AhAssumption, FS_Interval
  <2> QED
    BY <1>5, <2>1, FS_Subset, FS_CardinalityType
<1>7. c \in 1..AhControllers
  BY <1>1, AhAssumption DEF AhSysOK
<1>8. {c} \X ports \subseteq AhAllPorts
  BY <1>5, <1>7 DEF AhAllPorts
<1> HIDE DEF c, ports, n
<1>9. AhSysOK'
  <2>1. PICK curr \in {c} \X ports \cup {ahSys.curr} :
          ahSys' = [ahSys EXCEPT
               !.at = IF n > 0 /\ ahSys.disks > 0 THEN "wild" ELSE "probe",
               !.controller = c + 1, !.disks = ahSys.disks + n, !.sata = ahSys.sata + n,
               !.table[c] = ports, !.curr = curr]
    BY DEF probe_port, c, ports, n
  <2>2. curr \in AhAllPorts \cup {<<>>}
    BY <1>1, <1>8, <2>1 DEF AhSysOK
  <2>3. ahSys \in [at : {"probe", "wild", "ready", "no_disk"}, controller : Nat \ {0},
                disks : Nat, sata : Nat,
                table : [1..AhControllers -> SUBSET (0..(AhPorts - 1))],
                curr : AhAllPorts \cup {<<>>}]
    BY <1>1 DEF AhSysOK
  <2>4. [ahSys.table EXCEPT ![c] = ports] \in [1..AhControllers -> SUBSET (0..(AhPorts - 1))]
    BY <1>5, <1>7, <2>3
  <2>5. c + 1 \in Nat \ {0} /\ ahSys.disks + n \in Nat /\ ahSys.sata + n \in Nat
    BY <1>6, <1>7, <2>3
  <2>6. ahSys' \in [at : {"probe", "wild", "ready", "no_disk"}, controller : Nat \ {0},
                disks : Nat, sata : Nat,
                table : [1..AhControllers -> SUBSET (0..(AhPorts - 1))],
                curr : AhAllPorts \cup {<<>>}]
    BY <2>1, <2>2, <2>3, <2>4, <2>5
  <2>7. ahSys'.at # "ready"
    BY <2>1, <2>3
  <2>8. 1 \in 1..AhControllers
    BY <1>7, AhAssumption
  <2> QED
    BY <2>6, <2>7, <2>8 DEF AhSysOK
<1>10. AhPortOK'
  <2>1. PICK failed \in SUBSET {p \in {c} \X ports : find_cmdslot(p) # {}} :
          ahPort' = [p \in AhAllPorts |->
            IF p \in failed THEN [ci |-> find_cmdslot(p), tfes |-> TRUE] ELSE ahPort[p]]
    BY DEF probe_port, c, ports
  <2>2. \A p \in AhAllPorts : find_cmdslot(p) \subseteq Nat
    BY <1>1, SlotOfPort
  <2>3. ASSUME NEW p \in AhAllPorts
        PROVE  /\ ahPort'[p] \in [ci : SUBSET Nat, tfes : BOOLEAN]
               /\ ahPort'[p].ci # {} => ahPort'[p].tfes
    <3>1. CASE p \in failed
      BY <2>1, <2>2, <3>1
    <3>2. CASE p \notin failed
      BY <1>1, <2>1, <3>2 DEF AhPortOK
    <3> QED
      BY <3>1, <3>2
  <2>4. ahPort' \in [AhAllPorts -> [ci : SUBSET Nat, tfes : BOOLEAN]]
    BY <2>1, <2>3
  <2> QED
    BY <2>3, <2>4 DEF AhPortOK
<1> QED
  BY <1>3, <1>4, <1>9, <1>10 DEF AhInv, AhTyped

LEMMA SetupInv ==
  ASSUME AhInv, Disk_Setup
  PROVE  AhInv'
<1>1. /\ AhShape /\ AhSysOK /\ AhPortOK /\ AhCallOK
      /\ ahSys.at = "probe" /\ UNCHANGED <<ahDev, ahPort, ahDisk, ahMem, ahCall>>
  BY DEF AhInv, AhTyped, Disk_Setup
<1>2. ahCall.op = "none"
  BY <1>1 DEF AhCallOK, AhRunning
<1>3. AhShape' /\ AhCallOK' /\ AhPortOK'
  BY <1>1, <1>2 DEF AhShape, AhCallOK, AhPortOK
<1>4. AhLeaves' /\ AhProgress'
  BY <1>1, <1>2, Idle
<1>5. ASSUME NEW at \in {"no_disk", "wild"}, ahSys' = [ahSys EXCEPT !.at = at]
      PROVE  AhSysOK'
  BY <1>1, <1>5 DEF AhSysOK
<1>6. ASSUME ahSys.sata # 0, NEW p \in ahSys.table[1],
             ahSys' = [ahSys EXCEPT !.at = "ready", !.curr = <<1, p>>]
      PROVE  AhSysOK'
  <2>1. 1 \in 1..AhControllers
    BY <1>1, <1>6 DEF AhSysOK
  <2>3. p \in 0..(AhPorts - 1)
    BY <1>1, <1>6, <2>1 DEF AhSysOK
  <2>4. <<1, p>> \in AhAllPorts
    BY <2>1, <2>3 DEF AhAllPorts
  <2> QED
    BY <1>1, <1>6, <2>1, <2>4 DEF AhSysOK
<1>7. AhSysOK'
  BY <1>5, <1>6 DEF Disk_Setup
<1> QED
  BY <1>3, <1>4, <1>7 DEF AhInv, AhTyped

LEMMA StartInv ==
  ASSUME AhInv, NEW op \in AhOps, NEW lower \in AhLowers, NEW count \in AhCounts,
         AhStart(op, lower, count)
  PROVE  AhInv'
<1>1. /\ AhShape /\ AhSysOK /\ AhPortOK /\ AhCallOK /\ ahCall.op = "none"
      /\ UNCHANGED <<ahMem, ahDev, ahSys, ahPort, ahDisk>>
      /\ ahSys.at \in {"ready", "no_disk"}
  BY DEF AhInv, AhTyped, AhStart
<1>2. /\ count \in Nat \ {0} /\ AhSteps(op, count) \in Nat \ {0}
      /\ Len(AhPlan(op, lower, count, 0)) = AhSteps(op, count)
      /\ count <= AhChunk => count \div AhChunkOf(count) = 1
      /\ AhWhole(count) \in Nat
  BY Counts, PlanLength
<1> DEFINE rounds == IF op \in AhDirect THEN count \div AhChunkOf(count) ELSE 1
           last == IF ahSys.at = "ready" THEN AhSteps(op, count) ELSE 0
           result == IF ahSys.at = "no_disk" /\ op \in AhDirect THEN 0 ELSE 1
<1>3. ahCall' = [op |-> op, lower |-> lower, count |-> count, round |-> 1, rounds |-> rounds,
                 next |-> 1, last |-> last, left |-> ahCall.left - 1, was |-> ahDisk,
                 result |-> result]
  BY <1>2 DEF AhStart, AhNothing
<1>4. ~ (op \in AhDirect /\ AhChunk < count) => rounds = 1
  BY <1>2, AhAssumption
<1>5. last \in 0..AhSteps(op, count) /\ 1 <= last + 1
      /\ (ahSys.at = "no_disk" => last = 0)
      /\ (ahSys.at = "ready" => last = AhSteps(op, count))
  BY <1>2
<1> HIDE DEF rounds, last, result
<1>6. /\ ahCall'.op = op /\ ahCall'.lower = lower /\ ahCall'.count = count
      /\ ahCall'.round = 1 /\ ahCall'.rounds = rounds /\ ahCall'.next = 1
      /\ ahCall'.last = last /\ ahCall'.was = ahDisk
  BY <1>3
<1>7. AhRunning'
  <2>1. lower \in Nat
    BY AhAssumption
  <2> QED
    BY <1>1, <1>4, <1>5, <1>6, <2>1 DEF AhRunning, AhShape
<1>8. op \in AhOps /\ op # "none"
  BY DEF AhOps
<1>9. AhCallOK'
  <2>1. ahCall' = [op |-> ahCall'.op, lower |-> ahCall'.lower, count |-> ahCall'.count,
               round |-> ahCall'.round, rounds |-> ahCall'.rounds, next |-> ahCall'.next,
               last |-> ahCall'.last, left |-> ahCall'.left, was |-> ahCall'.was,
               result |-> ahCall'.result]
    BY <1>3
  <2> QED
    BY <1>6, <1>7, <1>8, <2>1 DEF AhCallOK
<1>10. AhShape' /\ AhSysOK' /\ AhPortOK'
  BY <1>1 DEF AhShape, AhSysOK, AhPortOK
<1>11. \A i \in AhMany : Buf(i)' = AhNew(i)
  <2>1. ahMem' = AhFresh
    BY <1>1 DEF AhCallOK
  <2> QED
    BY <2>1, FreshShape DEF Buf
<1>12. ahDisk' = ahCall'.was
  BY <1>1, <1>6
<1>13. AhLeaves'
  <2>1. OnlyAsked' /\ AhElsewhere'
    BY <1>12 DEF OnlyAsked, AhElsewhere, Sectors
  <2> QED
    BY <1>6, <1>11, <1>12, <2>1 DEF AhLeaves
<1>14. AhProgress'
  <2>1. (1 \div 2) = 0 /\ ((1 - 1) \div 2) = 0
    OBVIOUS
  <2>2. \A j : j \notin Batches(0)'
    <3>1. 0 * AhBatch = 0 /\ AhWhole(count) + 1 # 0
      BY <1>2, AhAssumption
    <3>2. \A j \in Nat : ~ (j < 0)
      OBVIOUS
    <3> QED
      BY <1>6, <3>1, <3>2 DEF Batches, Within
  <2>3. Batches(ahCall.next \div 2)' = Batches(0)'
        /\ Batches((ahCall.next - 1) \div 2)' = Batches(0)'
    BY <1>6, <2>1 DEF Batches
  <2> QED
    BY <1>6, <2>2, <2>3 DEF AhProgress
<1> QED
  BY <1>9, <1>10, <1>13, <1>14 DEF AhInv, AhTyped

LEMMA ReturnInv ==
  ASSUME AhInv, AhReturn
  PROVE  AhInv'
<1>1. /\ AhShape /\ AhSysOK /\ AhPortOK
      /\ ahCall' = [AhNothing EXCEPT !.left = ahCall.left]
      /\ ahMem' = AhFresh /\ UNCHANGED <<ahDev, ahSys, ahPort, ahDisk>>
  BY DEF AhInv, AhTyped, AhReturn
<1>2. ahCall'.op = "none"
  BY <1>1 DEF AhNothing
<1>3. AhCallOK'
  BY <1>1, <1>2 DEF AhCallOK, AhNothing
<1>4. AhSysOK' /\ AhPortOK'
  BY <1>1 DEF AhSysOK, AhPortOK
<1>5. AhShape'
  BY <1>1, FreshShape DEF AhShape
<1> QED
  BY <1>2, <1>3, <1>4, <1>5, Idle DEF AhInv, AhTyped

LEMMA StepInv ==
  ASSUME AhInv, AhStep, AhSlots # 0
  PROVE  AhInv'
<1>1. AhTyped /\ AhLeaves /\ AhTyped'
  BY StepTyped DEF AhInv
<1>2. ahCall.op \in AhOps
  BY <1>1, StepIs, InThePlan DEF AhTyped
<1>3. CASE ahCall.op \in {"read", "sec_read"}
  BY <1>1, <1>3, ReadLeaves, ReadProgress DEF AhInv, AhWrites
<1>4. CASE ahCall.op = "aq_read"
  BY <1>1, <1>4, ReadLeaves, AqReadProgress DEF AhInv, AhWrites
<1>5. CASE ahCall.op \in {"write", "sec_write", "write_more"}
  BY <1>1, <1>5, WriteKeeps DEF AhInv
<1>6. CASE ahCall.op = "aq_write"
  BY <1>1, <1>6, AqWriteKeeps DEF AhInv
<1>7. CASE ahCall.op = "write_part"
  BY <1>1, <1>7, WritePartKeeps DEF AhInv
<1> QED
  BY <1>2, <1>3, <1>4, <1>5, <1>6, <1>7 DEF AhOps

LEMMA AhStutter ==
  ASSUME AhInv, UNCHANGED ahVars
  PROVE  AhInv'
<1>1. UNCHANGED <<ahDev, ahSys, ahPort, ahDisk, ahMem, ahCall>>
  BY DEF ahVars
<1>2. AhTyped'
  BY <1>1 DEF AhInv, AhTyped, AhShape, AhSysOK, AhPortOK, AhCallOK, AhRunning
<1>3. AhLeaves'
  BY <1>1 DEF AhInv, AhLeaves, Buf, Iden, Within, Failing, OnlyAsked, AhAsked, AhElsewhere,
               AhTail, AhMerged
<1>4. AhProgress'
  BY <1>1 DEF AhInv, AhProgress, Written, Batches, Buf, Iden, Within, AhAsked
<1> QED
  BY <1>2, <1>3, <1>4 DEF AhInv

-----------------------------------------------------------------------------
(* The theorems. A port of a controller has at least one command slot:      *)
(* without any find_cmdslot always fails, and the functions of ext2, which  *)
(* ask the status of the port only, report success for nothing.             *)

(* What is known of a transfer at each of its steps.                        *)
THEOREM AhInvariant ==
  ASSUME AhSlots # 0
  PROVE  AhSpec => []AhInv
<1>1. AhInit => AhInv
  BY InitInv
<1>2. AhInv /\ [AhNext]_ahVars => AhInv'
  <2> SUFFICES ASSUME AhInv, [AhNext]_ahVars PROVE AhInv'
    OBVIOUS
  <2>1. CASE probe_port
    BY <2>1, ProbeInv
  <2>2. CASE Disk_Setup
    BY <2>2, SetupInv
  <2>3. CASE \E op \in AhOps, lower \in AhLowers, count \in AhCounts : AhStart(op, lower, count)
    BY <2>3, StartInv
  <2>4. CASE AhStep
    BY <2>4, StepInv
  <2>5. CASE AhReturn
    BY <2>5, ReturnInv
  <2>6. CASE UNCHANGED ahVars
    BY <2>6, AhStutter
  <2> QED
    BY <2>1, <2>2, <2>3, <2>4, <2>5, <2>6 DEF AhNext
<1> QED
  BY <1>1, <1>2, PTL DEF AhSpec

(* A transfer that reports success has moved every whole sector it was      *)
(* asked for, wherever the device failed in it or before it: disk_read,     *)
(* disk_write, disk_write_sector, sec_read_static, sec_write_static and, up *)
(* to AhChunk sectors, AqDirect_read and AqDirect_write. The sector that    *)
(* disk_write is asked for in part it has merged, or the port shows the     *)
(* error that disk_write does not report.                                   *)
THEOREM AhMovedHolds ==
  ASSUME AhSlots # 0
  PROVE  AhSpec => []AhMoved
<1>1. ASSUME AhInv, ahCall.op # "none", ahCall.next > ahCall.last,
             ahCall.result = 1, ahSys.at = "ready", ahCall.count <= AhChunk
      PROVE  /\ AhCallOK /\ AhRunning /\ ahCall.op \in AhOps
             /\ ahCall.count \in Nat \ {0} /\ AhWhole(ahCall.count) \in Nat
             /\ ahCall.next = AhSteps(ahCall.op, ahCall.count) + 1 /\ ahCall.next >= 2
  <2>1. AhCallOK /\ AhRunning /\ ahCall.op \in AhOps
    BY <1>1 DEF AhInv, AhTyped, AhCallOK
  <2>2. /\ ahCall.count \in Nat \ {0} /\ AhSteps(ahCall.op, ahCall.count) \in Nat \ {0}
        /\ AhWhole(ahCall.count) \in Nat
    BY <2>1, Counts DEF AhRunning
  <2> QED
    BY <1>1, <2>1, <2>2 DEF AhRunning
<1>2. ASSUME AhInv, ahCall.op # "none", ahCall.next > ahCall.last,
             ahCall.result = 1, ahSys.at = "ready", ahCall.count <= AhChunk,
             NEW i \in 0..(AhAsked - 1)
      PROVE  IF ahCall.op \in AhWrites THEN ahDisk[ahCall.lower + i] = AhNew(i)
             ELSE ahMem["buf"][i] = ahCall.was[ahCall.lower + i]
  <2>1. i \in Within /\ i \in Batches(AhWhole(ahCall.count) + 1)
    BY <1>1, <1>2 DEF Within, Batches, AhAsked
  <2>2. CASE ahCall.op \in {"read", "sec_read"}
    BY <1>1, <1>2, <2>1, <2>2 DEF AhInv, AhProgress, AhWrites, Buf
  <2>3. CASE ahCall.op = "aq_read"
    <3>1. (ahCall.next - 1) \div 2 = AhWhole(ahCall.count) + 1
      BY <1>1, <1>2, <2>3 DEF AhSteps
    <3>2. Buf(i) = ahCall.was[ahCall.lower + i]
      BY <1>2, <2>1, <2>3, <3>1 DEF AhInv, AhProgress
    <3> QED
      BY <2>3, <3>2 DEF AhWrites, Buf
  <2>4. CASE ahCall.op \in AhWrites \ {"aq_write"}
    BY <1>1, <1>2, <2>1, <2>4 DEF AhInv, AhProgress, Written
  <2>5. CASE ahCall.op = "aq_write"
    <3>1. ahCall.next - 2 = AhWhole(ahCall.count) + 1
      BY <1>1, <1>2, <2>5 DEF AhSteps
    <3>2. Written(i)
      BY <1>1, <1>2, <2>1, <2>5, <3>1 DEF AhInv, AhProgress
    <3> QED
      BY <2>5, <3>2 DEF AhWrites, Written
  <2> QED
    BY <1>1, <1>2, <2>2, <2>3, <2>4, <2>5 DEF AhOps, AhWrites
<1>3. ASSUME AhInv, ahCall.op = "write_part", ahCall.next > ahCall.last,
             ahCall.result = 1, ahSys.at = "ready", ahCall.count <= AhChunk
      PROVE  ahDisk[AhTail] = AhMerged \/ ahPort[ahSys.curr].tfes
  <2>1. ahCall.next = 5
    BY <1>1, <1>3 DEF AhSteps
  <2> QED
    BY <1>3, <2>1 DEF AhInv, AhLeaves, AhTail, AhMerged, Failing
<1>4. AhInv => AhMoved
  BY <1>2, <1>3 DEF AhMoved
<1> QED
  BY <1>4, AhInvariant, PTL

(* Whatever fails, a write leaves the sectors it was not asked for as they  *)
(* were: the sector disk_write is asked for in part has its old bytes or    *)
(* all of them behind the new ones.                                         *)
THEOREM AhElsewhereHolds ==
  ASSUME AhSlots # 0
  PROVE  AhSpec => []AhElsewhere
<1>1. AhInv => AhElsewhere
  BY DEF AhInv, AhLeaves
<1> QED
  BY <1>1, AhInvariant, PTL
=============================================================================
