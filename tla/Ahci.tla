-------------------------------- MODULE Ahci --------------------------------
(***************************************************************************)
(* Disks behind AHCI controllers (Hardware/ahci/ahci.c): the search for    *)
(* them, Disk_Setup of FileSystem/vfs.c, and the transfers the file        *)
(* systems are built on.  A transfer is a plan of copies and commands,     *)
(* made from its arguments, in rounds; the device carries out one command  *)
(* after the other, and may fail at any of them.                           *)
(***************************************************************************)
EXTENDS Integers, Sequences, FiniteSets

CONSTANTS
  AhControllers, \* TotalAHCIDevices
  AhPorts,       \* ports of a controller (32)
  AhSlots,       \* command slots of a port
  AhPrd,         \* sectors of one PRD entry (16: 8 KiB)
  AhBatch,       \* sectors of one command of AqDirect_read and AqDirect_write (64)
  AhChunk,       \* sectors of the identity-mapped copy (2048: 1 MiB)
  AhSectors,     \* sectors of a disk
  AhLowers,      \* first sectors asked for; bound
  AhCounts,      \* sectors asked for; bound
  AhMost,        \* bound: the most sectors asked for
  AhCalls        \* bound: transfers of a behaviour

ASSUME AhAssumption ==
  /\ AhControllers \in Nat /\ AhPorts \in Nat /\ AhSlots \in Nat /\ AhSectors \in Nat
  /\ AhPrd \in Nat \ {0} /\ AhBatch \in Nat \ {0}
  /\ AhChunk \in Nat /\ AhBatch <= AhChunk
  /\ AhMost \in Nat /\ AhLowers \subseteq Nat /\ AhCounts \subseteq 1..AhMost /\ AhCalls \in Nat

VARIABLES
  ahDev,   \* what is plugged into each port: none, down, ata, atapi
  ahSys,   \* [at, controller, disks, sata, table, curr]: what probing has found
  ahPort,  \* [ci, tfes] of each port
  ahDisk,  \* the sectors of the current disk
  ahMem,   \* the caller's buffer "buf" and the identity-mapped copy "iden", in sectors
  ahCall   \* the transfer that runs, its round of `rounds' and step of `last'; the disk it found

ahVars == <<ahDev, ahSys, ahPort, ahDisk, ahMem, ahCall>>

AhAllPorts == (1..AhControllers) \X (0..(AhPorts - 1))
AhMany == 0..(3 * AhMost)     \* sectors of memory the model follows
AhOld(s) == <<"disk", s>>
AhNew(i) == <<"buf", i>>
AhNothing == [op |-> "none", lower |-> 0, count |-> 0, round |-> 1, rounds |-> 1,
              next |-> 1, last |-> 0, left |-> AhCalls, was |-> <<>>, result |-> 0]

AhFresh == [m \in {"buf", "iden"} |->
              [i \in AhMany |-> IF m = "buf" THEN AhNew(i) ELSE <<"junk">>]]

AhInit ==
  /\ ahDev \in [AhAllPorts -> {"none", "down", "ata", "atapi"}]
  /\ ahSys = [at |-> "probe", controller |-> 1, disks |-> 0, sata |-> 0,
              table |-> [c \in 1..AhControllers |-> {}], curr |-> <<>>]
  /\ ahPort = [p \in AhAllPorts |-> [ci |-> {}, tfes |-> FALSE]]
  /\ ahDisk = [s \in 0..(AhSectors - 1) |-> AhOld(s)]
  /\ ahMem = AhFresh
  /\ ahCall = AhNothing

-----------------------------------------------------------------------------
(* Probing                                                                  *)

(* Only four bits of the signature are compared with signatures of 32: any  *)
(* active device is a SATA disk.                                            *)
check_type(kind) == IF kind \in {"none", "down"} THEN "null" ELSE "sata"

(* The lowest free slot of port p; the empty set stands for -1.             *)
find_cmdslot(p) ==
  LET free == (0..(AhSlots - 1)) \ ahPort[p].ci
  IN {slot \in free : \A other \in free : slot <= other}

(* The ports of controller c that hold a disk; its table has them in order. *)
AhFound(c) == {p \in 0..(AhPorts - 1) : check_type(ahDev[<<c, p>>]) = "sata"}

(* probe_port enters the disks of a controller from index `disks' on, a     *)
(* count over all controllers, and identifies (IDENTIFYdrive) the entries   *)
(* from 0 on: entries nobody has written when an earlier controller has     *)
(* disks. The answer of the IDENTIFY command is not looked at.              *)
probe_port ==
  LET c == ahSys.controller
      ports == AhFound(c)
      n == Cardinality(ports)
  IN /\ ahSys.at = "probe" /\ c <= AhControllers
     /\ \E failed \in SUBSET {p \in {c} \X ports : find_cmdslot(p) # {}} :
          ahPort' = [p \in AhAllPorts |->
            IF p \in failed THEN [ci |-> find_cmdslot(p), tfes |-> TRUE] ELSE ahPort[p]]
     /\ \E curr \in {c} \X ports \cup {ahSys.curr} :
          /\ curr = ahSys.curr => ports = {}
          /\ \A p \in ports : p <= curr[2]
          /\ ahSys' = [ahSys EXCEPT
               !.at = IF n > 0 /\ ahSys.disks > 0 THEN "wild" ELSE "probe",
               !.controller = c + 1, !.disks = @ + n, !.sata = @ + n,
               !.table[c] = ports, !.curr = curr]
     /\ UNCHANGED <<ahDev, ahDisk, ahMem, ahCall>>

(* The first entry of the first controller is the disk; nobody has written  *)
(* it when only later controllers have disks.                               *)
Disk_Setup ==
  /\ ahSys.at = "probe" /\ ahSys.controller > AhControllers
  /\ \/ ahSys.sata = 0 /\ ahSys' = [ahSys EXCEPT !.at = "no_disk"]
     \/ ahSys.sata # 0 /\ ahSys.table[1] = {} /\ ahSys' = [ahSys EXCEPT !.at = "wild"]
     \/ ahSys.sata # 0 /\ \E p \in ahSys.table[1] :
          /\ \A q \in ahSys.table[1] : p <= q
          /\ ahSys' = [ahSys EXCEPT !.at = "ready", !.curr = <<1, p>>]
  /\ UNCHANGED <<ahDev, ahPort, ahDisk, ahMem, ahCall>>

-----------------------------------------------------------------------------
(* Commands                                                                 *)

(* The sectors that the PRD entries of a command of n sectors cover: there  *)
(* are ((count - 1) >> 4) + 1, one behind the other, the last for the rest. *)
AhCovered(n) ==
  LET last == (n - 1) \div AhPrd
  IN {i \in 0..(n - 1) : \E e \in 0..last :
        e * AhPrd <= i /\ (e # last => i < (e + 1) * AhPrd)}

AhPut(f, from, which, Value(_)) ==
  [i \in DOMAIN f |-> IF i - from \in which THEN Value(i - from) ELSE f[i]]

AhGet(f, i) == IF i \in DOMAIN f THEN f[i] ELSE <<"junk">>

(* The device moves the sectors between the disk and memory.                *)
AhMove(c) ==
  \/ /\ c.do = "read"
     /\ ahMem' = [ahMem EXCEPT ![c.mem] = AhPut(ahMem[c.mem], c.off, AhCovered(c.n),
                                               LAMBDA i : AhGet(ahDisk, c.sector + i))]
     /\ UNCHANGED ahDisk
  \/ /\ c.do = "write"
     /\ ahDisk' = AhPut(ahDisk, c.sector, AhCovered(c.n),
                        LAMBDA i : AhGet(ahMem[c.mem], c.off + i))
     /\ UNCHANGED ahMem

(* A free slot, the header, the table and the FIS; then the wait for the    *)
(* device. An error stays in the port's status, which nobody clears: every  *)
(* later command returns 1 at once, its slot stays taken, and when all are, *)
(* 2 is returned. The device is external: it completes a command or fails   *)
(* it, with or without clearing its bit, with or without the data moved.    *)
SATA_Commander(c, result) ==
  LET p == ahSys.curr
      slot == find_cmdslot(p)
  IN \/ /\ slot = {} /\ result = 2 /\ UNCHANGED <<ahPort, ahDisk, ahMem>>
     \/ /\ slot # {} /\ ahPort[p].tfes /\ result = 1
        /\ ahPort' = [ahPort EXCEPT ![p].ci = @ \cup slot]
        /\ UNCHANGED <<ahDisk, ahMem>>
     \/ /\ slot # {} /\ ~ ahPort[p].tfes /\ c.sector + c.n <= AhSectors /\ result = 0
        /\ AhMove(c) /\ UNCHANGED ahPort
     \/ /\ slot # {} /\ ~ ahPort[p].tfes /\ result = 1
        /\ \E stays \in {{}, slot} :
             ahPort' = [ahPort EXCEPT ![p] = [ci |-> ahPort[p].ci \cup stays, tfes |-> TRUE]]
        /\ (c.sector + c.n <= AhSectors /\ AhMove(c)) \/ UNCHANGED <<ahDisk, ahMem>>

-----------------------------------------------------------------------------
(* Transfers                                                                *)

AhCopy(from, to, off, n) == [do |-> "copy", from |-> from, mem |-> to, off |-> off, n |-> n]
AhCommand(do, mem, off, sector, n, checked) ==
  [do |-> do, mem |-> mem, off |-> off, sector |-> sector, n |-> n, checked |-> checked]
AhRead(mem, off, sector, n) == AhCommand("read", mem, off, sector, n, TRUE)
AhWrite(mem, off, sector, n) == AhCommand("write", mem, off, sector, n, TRUE)

(* A round of `do ... while (c >= chunk_sz)' has a command for every whole  *)
(* batch and one more for count sectors; buffer, copy and sector advance    *)
(* together, by the whole batches of a round (base), never by a chunk.      *)
AhChunkOf(count) == IF count < AhChunk THEN count ELSE AhChunk
AhWhole(count) == count \div AhBatch
AhSize(i, count) == IF i = AhWhole(count) THEN count ELSE AhBatch

AqDirect_read(lower, count, base) ==
  [k \in 1..(2 * AhWhole(count) + 2) |->
     LET i == (k - 1) \div 2
         at == base + i * AhBatch
     IN IF k = 2 * i + 1 THEN AhRead("iden", at, lower + at, AhSize(i, count))
                         ELSE AhCopy("iden", "buf", at, AhChunkOf(count))]

(* Slip: the sector does not advance with the buffer.                       *)
AqDirect_write_SameSector(lower, count, base) ==
  [k \in 1..(AhWhole(count) + 2) |->
     LET at == base + (k - 2) * AhBatch
     IN IF k = 1 THEN AhCopy("buf", "iden", base, AhChunkOf(count))
                 ELSE AhWrite("iden", at, lower, AhSize(k - 2, count))]

(* The last command of a round is for count sectors again, not for those    *)
(* that are left, and so goes on behind what was asked for.                 *)
AqDirect_write(lower, count, base) ==
  [k \in 1..(AhWhole(count) + 2) |->
     LET at == base + (k - 2) * AhBatch
     IN IF k = 1 THEN AhCopy("buf", "iden", base, AhChunkOf(count))
                 ELSE AhWrite("iden", at, lower + at, AhSize(k - 2, count))]

(* count is in bytes for the functions of ext2: here `count' whole sectors, *)
(* at least one, and `part' when some bytes are left.                       *)
disk_read(start, count) == <<AhRead("buf", 0, start, count + 1)>>

disk_write_sector(mem, start, count) == <<AhWrite(mem, 0, start, count + 1)>>

(* Slip: the last sector is not read before its first bytes are changed.    *)
disk_write_NoRead(start, count, part) ==
  IF part THEN <<AhWrite("buf", 0, start, count),
                 [do |-> "merge", off |-> count],
                 AhCommand("write", "iden", 0, start + count, 1, FALSE)>>
          ELSE <<AhWrite("buf", 0, start, count)>>

(* The last sector is read, changed and written in memory of its own; what  *)
(* the read and the write return is not looked at.                          *)
disk_write(start, count, part) ==
  IF part THEN <<AhWrite("buf", 0, start, count),
                 AhCommand("read", "iden", 0, start + count, 1, FALSE),
                 [do |-> "merge", off |-> count],
                 AhCommand("write", "iden", 0, start + count, 1, FALSE)>>
          ELSE <<AhWrite("buf", 0, start, count)>>

sec_read_static(start, count) == <<AhRead("buf", 0, start, count)>>
sec_write_static(start, count) == <<AhWrite("buf", 0, start, count)>>

AhDirect == {"aq_read", "aq_write"}

AhPlan(op, lower, count, base) ==
  CASE op = "aq_read" -> AqDirect_read(lower, count, base)
    [] op = "aq_write" -> AqDirect_write(lower, count, base)
    [] op = "read" -> disk_read(lower, count)
    [] op = "write" -> disk_write(lower, count, FALSE)
    [] op = "write_part" -> disk_write(lower, count, TRUE)
    [] op = "write_more" -> disk_write_sector("buf", lower, count)
    [] op = "sec_read" -> sec_read_static(lower, count)
    [] op = "sec_write" -> sec_write_static(lower, count)

(* Without a disk the functions of ext2 return 1 and those of AqFS 0.       *)
AhStart(op, lower, count) ==
  /\ ahCall.op = "none" /\ ahCall.left > 0
  /\ ahSys.at = "ready" \/ (ahSys.at = "no_disk" /\ op \notin {"sec_read", "sec_write"})
  /\ ahCall' = [AhNothing EXCEPT
       !.op = op, !.lower = lower, !.count = count, !.left = ahCall.left - 1, !.was = ahDisk,
       !.rounds = IF op \in AhDirect THEN count \div AhChunkOf(count) ELSE 1,
       !.last = IF ahSys.at = "ready" THEN Len(AhPlan(op, lower, count, 0)) ELSE 0,
       !.result = IF ahSys.at = "no_disk" /\ op \in AhDirect THEN 0 ELSE 1]
  /\ UNCHANGED <<ahMem, ahDev, ahSys, ahPort, ahDisk>>

(* The step that is next, and the call once it has been taken: the next of  *)
(* the round, or the first of the next round.                               *)
AhCurrent ==
  AhPlan(ahCall.op, ahCall.lower, ahCall.count,
         (ahCall.round - 1) * (AhWhole(ahCall.count) * AhBatch))[ahCall.next]

AhDone ==
  IF ahCall.next = ahCall.last /\ ahCall.round < ahCall.rounds
  THEN [ahCall EXCEPT !.next = 1, !.round = ahCall.round + 1]
  ELSE [ahCall EXCEPT !.next = ahCall.next + 1]

(* AqDirect_read and AqDirect_write give up at a command that fails; the    *)
(* read copies what it has to the buffer first.                             *)
AhFailed ==
  [ahCall EXCEPT !.next = ahCall.next + 1, !.rounds = ahCall.round, !.result = 0,
     !.last = IF ahCall.op = "aq_read" THEN ahCall.next + 1 ELSE ahCall.next]

AhStepCopy(c) ==
  /\ c.do = "copy"
  /\ ahMem' = [ahMem EXCEPT ![c.mem] = AhPut(ahMem[c.mem], c.off, 0..(c.n - 1),
                                            LAMBDA i : AhGet(ahMem[c.from], c.off + i))]
  /\ ahCall' = AhDone
  /\ UNCHANGED <<ahPort, ahDisk>>

(* disk_write puts the bytes that are left over into the sector it has read.*)
AhStepMerge(c) ==
  /\ c.do = "merge"
  /\ ahMem' = [ahMem EXCEPT !["iden"] =
       [ahMem["iden"] EXCEPT ![0] = <<"part", AhGet(ahMem["buf"], c.off), ahMem["iden"][0]>>]]
  /\ ahCall' = AhDone
  /\ UNCHANGED <<ahPort, ahDisk>>

(* The functions of ext2 ask the status of the port after the command.      *)
AhStepCommand(c) ==
  /\ c.do \in {"read", "write"}
  /\ \E result \in 0..2 :
       /\ SATA_Commander(c, result)
       /\ ahCall' = IF c.checked /\ ((ahCall.op \in AhDirect /\ result # 0)
                                       \/ ahPort'[ahSys.curr].tfes)
                    THEN AhFailed ELSE AhDone

AhStep ==
  /\ ahCall.op # "none" /\ ahCall.next <= ahCall.last
  /\ AhStepCopy(AhCurrent) \/ AhStepMerge(AhCurrent) \/ AhStepCommand(AhCurrent)
  /\ UNCHANGED <<ahDev, ahSys>>

(* The next call brings a buffer of its own.                                *)
AhReturn ==
  /\ ahCall.op # "none" /\ ahCall.next > ahCall.last
  /\ ahCall' = [AhNothing EXCEPT !.left = ahCall.left]
  /\ ahMem' = AhFresh
  /\ UNCHANGED <<ahDev, ahSys, ahPort, ahDisk>>

AhOps == {"aq_read", "aq_write", "read", "write", "write_part", "write_more",
          "sec_read", "sec_write"}

AhNext ==
  \/ probe_port \/ Disk_Setup
  \/ \E op \in AhOps, lower \in AhLowers, count \in AhCounts : AhStart(op, lower, count)
  \/ AhStep \/ AhReturn

AhSpec == AhInit /\ [][AhNext]_ahVars

-----------------------------------------------------------------------------
(* Properties                                                               *)

AhWrites == {"aq_write", "write", "write_part", "write_more", "sec_write"}

(* The whole sectors of a transfer: disk_read and disk_write_sector round   *)
(* the bytes they are asked for up, disk_write has one more for the rest.   *)
AhAsked == ahCall.count + (IF ahCall.op \in {"read", "write_more"} THEN 1 ELSE 0)
AhTail == ahCall.lower + ahCall.count
AhMerged == <<"part", AhNew(ahCall.count), ahCall.was[AhTail]>>

(* A transfer that reports success has moved every whole sector, whatever   *)
(* failed before it: an error that stays in the status of the port keeps    *)
(* later transfers from being reported done when their commands were not    *)
(* even looked at. The sector disk_write is asked for in part is different: *)
(* its read and its write may fail and 1 is returned. It has the new bytes  *)
(* and the old ones behind them unless the port shows the error then, which *)
(* no caller asks. Up to AhChunk sectors: the copy of a longer              *)
(* AqDirect_write is never filled behind its first chunk.                   *)
AhMoved ==
  (/\ ahCall.op # "none" /\ ahCall.next > ahCall.last /\ ahCall.result = 1
   /\ ahSys.at = "ready" /\ ahCall.count <= AhChunk) =>
    /\ \A i \in 0..(AhAsked - 1) :
         IF ahCall.op \in AhWrites THEN ahDisk[ahCall.lower + i] = AhNew(i)
         ELSE ahMem["buf"][i] = ahCall.was[ahCall.lower + i]
    /\ ahCall.op = "write_part" => ahDisk[AhTail] = AhMerged \/ ahPort[ahSys.curr].tfes

(* While a transfer runs, and when it failed half way, sectors it was not   *)
(* asked for keep what they had; a sector it was asked for in part has what *)
(* it had or all of its old bytes behind the new ones. For AqDirect_write   *)
(* below AhBatch sectors: from there on its last command writes again as    *)
(* many sectors as the whole transfer, behind its end.                      *)
AhElsewhere ==
  (/\ ahCall.op \in AhWrites
   /\ ahCall.op = "aq_write" => ahCall.count < AhBatch) =>
    \A s \in 0..(AhSectors - 1) :
      \/ ahDisk[s] = ahCall.was[s]
      \/ ahCall.lower <= s /\ s < ahCall.lower + AhAsked /\ ahDisk[s] = AhNew(s - ahCall.lower)
      \/ ahCall.op = "write_part" /\ s = AhTail /\ ahDisk[s] = AhMerged
=============================================================================
