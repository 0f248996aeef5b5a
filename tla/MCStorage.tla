----------------------------- MODULE MCStorage -----------------------------
(* The storage layers side by side. vfs_init looks for AqFS on the disk and *)
(* initialises ext2 when it is not there; both use AHCI. A behaviour        *)
(* exercises one of them, the state of the others stays as it was.          *)
EXTENDS AqFS, Ext2, Ahci

VARIABLE part

storageVars == <<part, aqVars, xVars, ahVars>>

Paths == {"a", "Hxb"}
MCDirs == [p \in Paths |-> IF p = "a" THEN <<>> ELSE <<"H">>]
MCLname == [p \in Paths |-> IF p = "a" THEN "a" ELSE "b"]
MCMatch == {<<"a", "a">>, <<"b", "b">>, <<"H", "H">>}
\* The second of three entries lies across two sectors of its header.
MCMark == [j \in 0..2 |-> IF j < 2 THEN 0 ELSE 1]
MCPlace == [j \in 0..2 |-> IF j < 1 THEN 0 ELSE 1]

StorageInit ==
  /\ AqInit /\ XInit /\ AhInit
  /\ part \in {"aqfs", "ext2", "ahci"}
  /\ part # "ahci" => \A p \in AhAllPorts : ahDev[p] = "ata"

StorageNext ==
  /\ part' = part
  /\ \/ part = "aqfs" /\ AqNext /\ UNCHANGED <<xVars, ahVars>>
     \/ part = "ext2" /\ XNext /\ UNCHANGED <<aqVars, ahVars>>
     \/ part = "ahci" /\ AhNext /\ UNCHANGED <<aqVars, xVars>>

StorageSpec == StorageInit /\ [][StorageNext]_storageVars
=============================================================================
