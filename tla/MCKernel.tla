------------------------------ MODULE MCKernel ------------------------------
(* Parts of the kernel side by side: the start of the other cores, the      *)
(* packet list of a core, the lists of threads, and the memory below. A     *)
(* behaviour exercises one of them, the others stay as they were.           *)
EXTENDS ApBoot, Ipc, Processes, Paging

VARIABLE part

MCSenders == {"near", "far"}
MCEach == [s \in MCSenders |-> IF s = "far" THEN 2 ELSE 1]

kernelVars == <<part, bootVars, ipcVars, prVars, pgVars>>

KernelInit ==
  /\ BootInit /\ IpcInit /\ PrInit /\ PgInit
  /\ part \in {"boot", "ipc", "processes", "paging"}

KernelNext ==
  /\ part' = part
  /\ \/ part = "boot" /\ BootNext /\ UNCHANGED <<ipcVars, prVars, pgVars>>
     \/ part = "ipc" /\ IpcNext /\ UNCHANGED <<bootVars, prVars, pgVars>>
     \/ part = "processes" /\ PrNext /\ UNCHANGED <<bootVars, ipcVars, pgVars>>
     \/ part = "paging" /\ PgNext /\ UNCHANGED <<bootVars, ipcVars, prVars>>

KernelSpec == KernelInit /\ [][KernelNext]_kernelVars /\ (part = "boot" => BootFairness)

(* BootJoined, in the behaviours in which the cores are started: every core *)
(* ends in its switcher, or the first one waits for an unreachable core.    *)
KernelBootJoined == part = "boot" => BootJoined
=============================================================================
