------------------------------ MODULE MCChunks ------------------------------
(* A memory of 62 units of 16 bytes. logx computes in floats and puts sizes *)
(* a little below a power of two with that power (63, 126, 251, 501, 1001   *)
(* bytes are the first of their bins); of the multiples of 16 below 1001    *)
(* this concerns none, and the bin is the exact logarithm's.                *)
EXTENDS Chunks

MCLog(n) == CHOOSE k \in 0..6 : 2^k <= n /\ n < 2^(k + 1)
MCClass == [n \in 1..62 |-> 31 - (MCLog(n) + 4)]
=============================================================================
