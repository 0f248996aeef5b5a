------------------------------- MODULE Mutex --------------------------------
(* What LOCK(name) and UNLOCK(name) of custom_defs.h promise: a lock that   *)
(* at most one thread has and that only its holder gives up (MutexSafety);  *)
(* and what their users should see to, that nobody keeps it (GivenUp).      *)
CONSTANTS Threads, None

VARIABLE holder

MutexInit == holder = None

Lock(p) == holder = None /\ holder' = p

Unlock(p) == holder = p /\ holder' = None

MutexNext == \E p \in Threads : Lock(p) \/ Unlock(p)

(* No thread keeps the lock for ever. *)
GivenUp == \A p \in Threads : (holder = p) ~> (holder # p)

MutexSafety == MutexInit /\ [][MutexNext]_holder
=============================================================================
