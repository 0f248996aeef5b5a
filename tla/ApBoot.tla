------------------------------- MODULE ApBoot -------------------------------
(***************************************************************************)
(* Start of the other cores: ap_kickstart wakes each of them with INIT and *)
(* SIPI; each then polls two words behind the startup code. Init_Core      *)
(* leaves a core's tables in ap_gdts and ap_idts, names the core in the    *)
(* words and waits until it has loaded them; init_multitasking sets all of *)
(* them going. A step is one access to a word that both sides touch.       *)
(* The local APIC ids are 0 .. BootCores-1, the first core's is 0: the     *)
(* code takes both for granted.                                            *)
(***************************************************************************)
EXTENDS Integers

CONSTANT BootCores   \* total_CPU_Cores

ASSUME BootAssumption == BootCores \in Nat \ {0}

VARIABLES
  bsp,     \* [pc, core, seen]: the first core, the core it serves, tmp_counter
  ap,      \* the others: [pc, read, gdt, idt]
  mail,    \* [cmd, target]: the two words the cores poll
  tables,  \* [gdt, idt]: ap_gdts and ap_idts, by the core they are made for
  counter  \* *test_counter

bootVars == <<bsp, ap, mail, tables, counter>>

Aps == 1..(BootCores - 1)
None == -1
NO_COMMAND == 0
SET_DT == 12864    \* 0x3240
SET_SMP == 12865   \* 0x3241

BootInit ==
  /\ bsp = [pc |-> "kick", core |-> 1, seen |-> 0]
  /\ ap = [i \in Aps |-> [pc |-> "off", read |-> 0, gdt |-> None, idt |-> None]]
  /\ mail = [cmd |-> NO_COMMAND, target |-> 0]
  /\ tables = [gdt |-> None, idt |-> None]
  /\ counter = 0

-----------------------------------------------------------------------------
(* The first core                                                           *)

At(pc) == bsp.pc = pc
Serving == bsp.core \in Aps

(* init_smp has cleared the words; INIT leaves the core waiting for a SIPI. *)
ap_kickstart ==
  /\ At("kick") /\ Serving
  /\ bsp' = [bsp EXCEPT !.pc = "sipi", !.seen = counter]
  /\ ap' = [ap EXCEPT ![bsp.core].pc = "wait"]
  /\ UNCHANGED <<mail, tables, counter>>

(* A core that waits may miss a SIPI; one that runs ignores it.             *)
Sipi(after) ==
  /\ bsp' = after
  /\ \/ ap[bsp.core].pc = "wait" /\ ap' = [ap EXCEPT ![bsp.core].pc = "started"]
     \/ UNCHANGED ap
  /\ UNCHANGED <<mail, tables, counter>>

FirstSipi == At("sipi") /\ Sipi([bsp EXCEPT !.pc = "check"])

(* The counter tells whether some core has counted itself since. What the   *)
(* second look at it finds is printed, and the result is not used.          *)
SecondSipi ==
  LET after == [bsp EXCEPT !.pc = "kick", !.core = @ + 1]
  IN /\ At("check")
     /\ IF counter = bsp.seen THEN Sipi(after)
        ELSE bsp' = after /\ UNCHANGED <<ap, mail, tables, counter>>

(* Init_Schedulers begins with core 0, which loads its own tables.          *)
Init_Core_0 ==
  /\ At("kick") /\ ~ Serving
  /\ bsp' = [bsp EXCEPT !.pc = "gdt", !.core = 1]
  /\ UNCHANGED <<ap, mail, tables, counter>>

SetGdt ==
  /\ At("gdt") /\ Serving
  /\ tables' = [tables EXCEPT !.gdt = bsp.core]
  /\ bsp' = [bsp EXCEPT !.pc = "idt"]
  /\ UNCHANGED <<ap, mail, counter>>

SetIdt ==
  /\ At("idt")
  /\ tables' = [tables EXCEPT !.idt = bsp.core]
  /\ bsp' = [bsp EXCEPT !.pc = "cmd"]
  /\ UNCHANGED <<ap, mail, counter>>

SetCommand ==
  /\ At("cmd")
  /\ mail' = [mail EXCEPT !.cmd = SET_DT]
  /\ bsp' = [bsp EXCEPT !.pc = "target"]
  /\ UNCHANGED <<ap, tables, counter>>

SetTarget ==
  /\ At("target")
  /\ mail' = [mail EXCEPT !.target = bsp.core]
  /\ bsp' = [bsp EXCEPT !.pc = "await"]
  /\ UNCHANGED <<ap, tables, counter>>

AwaitCleared ==
  /\ At("await") /\ mail.cmd # SET_DT
  /\ bsp' = [bsp EXCEPT !.pc = "gdt", !.core = @ + 1]
  /\ UNCHANGED <<ap, mail, tables, counter>>

(* The last lines of init_multitasking.                                     *)
SetAllGoing ==
  /\ At("gdt") /\ ~ Serving
  /\ mail' = [mail EXCEPT !.cmd = SET_SMP]
  /\ bsp' = [bsp EXCEPT !.pc = "running"]
  /\ UNCHANGED <<ap, tables, counter>>

-----------------------------------------------------------------------------
(* The other cores                                                          *)

(* add dword [0x1000], 1 has no lock prefix: a read and a write.            *)
CountRead(i) ==
  /\ ap[i].pc = "started"
  /\ ap' = [ap EXCEPT ![i].pc = "count", ![i].read = counter]
  /\ UNCHANGED <<bsp, mail, tables, counter>>

CountWrite(i) ==
  /\ ap[i].pc = "count"
  /\ counter' = ap[i].read + 1
  /\ ap' = [ap EXCEPT ![i].pc = "lpp", ![i].read = 0]
  /\ UNCHANGED <<bsp, mail, tables>>

(* lpp reads the command over and over; a read of 0 changes nothing.        *)
lpp(i) ==
  /\ ap[i].pc = "lpp" /\ mail.cmd # NO_COMMAND
  /\ ap' = [ap EXCEPT ![i].pc = IF mail.cmd = SET_DT THEN "set_DT" ELSE "set_smp"]
  /\ UNCHANGED <<bsp, mail, tables, counter>>

set_DT(i) ==
  /\ ap[i].pc = "set_DT"
  /\ ap' = [ap EXCEPT ![i].pc = IF mail.target = i THEN "lgdt" ELSE "lpp"]
  /\ UNCHANGED <<bsp, mail, tables, counter>>

lgdt(i) ==
  /\ ap[i].pc = "lgdt"
  /\ ap' = [ap EXCEPT ![i].pc = "lidt", ![i].gdt = tables.gdt]
  /\ UNCHANGED <<bsp, mail, tables, counter>>

(* Slip: the command is cleared before the second table is loaded.          *)
lidt_AfterClear(i) ==
  \/ /\ ap[i].pc = "lidt" /\ mail.cmd = SET_DT
     /\ mail' = [mail EXCEPT !.cmd = NO_COMMAND]
     /\ UNCHANGED <<bsp, ap, tables, counter>>
  \/ /\ ap[i].pc = "lidt" /\ mail.cmd # SET_DT
     /\ ap' = [ap EXCEPT ![i].pc = "clear", ![i].idt = tables.idt]
     /\ UNCHANGED <<bsp, mail, tables, counter>>

lidt(i) ==
  /\ ap[i].pc = "lidt"
  /\ ap' = [ap EXCEPT ![i].pc = "clear", ![i].idt = tables.idt]
  /\ UNCHANGED <<bsp, mail, tables, counter>>

(* Slip: the command word is left as it is.                                 *)
ClearCommand_Left(i) ==
  /\ ap[i].pc = "clear"
  /\ ap' = [ap EXCEPT ![i].pc = "clear2"]
  /\ UNCHANGED <<bsp, mail, tables, counter>>

ClearCommand(i) ==
  /\ ap[i].pc = "clear"
  /\ mail' = [mail EXCEPT !.cmd = NO_COMMAND]
  /\ ap' = [ap EXCEPT ![i].pc = "clear2"]
  /\ UNCHANGED <<bsp, tables, counter>>

ClearTarget(i) ==
  /\ ap[i].pc = "clear2"
  /\ mail' = [mail EXCEPT !.target = 0]
  /\ ap' = [ap EXCEPT ![i].pc = "lpp"]
  /\ UNCHANGED <<bsp, tables, counter>>

(* int 50 enters the core's switcher, through its own interrupt table.      *)
set_smp(i) ==
  /\ ap[i].pc = "set_smp"
  /\ ap' = [ap EXCEPT ![i].pc = "smp"]
  /\ UNCHANGED <<bsp, mail, tables, counter>>

BspStep ==
  \/ ap_kickstart \/ FirstSipi \/ SecondSipi
  \/ Init_Core_0 \/ SetGdt \/ SetIdt \/ SetCommand \/ SetTarget \/ AwaitCleared
  \/ SetAllGoing

ApStep(i) ==
  \/ CountRead(i) \/ CountWrite(i) \/ lpp(i)
  \/ set_DT(i) \/ lgdt(i) \/ lidt(i) \/ ClearCommand(i) \/ ClearTarget(i) \/ set_smp(i)

BootNext == BspStep \/ \E i \in Aps : ApStep(i)

(* A core that has been started runs: interrupts are off on all of them and *)
(* nothing stops one.                                                       *)
BootFairness == WF_bootVars(BspStep) /\ \A i \in Aps : WF_bootVars(ApStep(i))

BootSpec == BootInit /\ [][BootNext]_bootVars /\ BootFairness

-----------------------------------------------------------------------------
(* Properties                                                               *)

(* A core loads the tables that were made for it and no other core's, and   *)
(* enters the switcher (int 50) only with both: ap_gdts and ap_idts are one *)
(* pair of words for all, which the first core overwrites for the next.     *)
BootOwnTables ==
  \A i \in Aps :
    /\ ap[i].gdt \in {None, i} /\ ap[i].idt \in {None, i}
    /\ ap[i].pc = "smp" => ap[i].gdt = i /\ ap[i].idt = i

(* The first core waits for a core that took no SIPI, or whose number was   *)
(* wiped out of the word: ClearTarget of the core before may come as late   *)
(* as after SetTarget.                                                      *)
Unreachable ==
  /\ At("await") /\ mail.cmd = SET_DT /\ ap[bsp.core].gdt = None
  /\ ap[bsp.core].pc = "wait" \/ mail.target = 0

(* The start ends with every core in its switcher; only those two ways does *)
(* it hang.                                                                 *)
BootJoined == <>[](\A i \in Aps : ap[i].pc = "smp") \/ <>[]Unreachable
=============================================================================
