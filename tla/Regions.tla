------------------------------ MODULE Regions ------------------------------
(* What a memory descriptor promises to its callers: the regions that it   *)
(* hands out lie inside its memory and never overlap while they are held.  *)
EXTENDS Integers, Sequences, SequencesExt

CONSTANTS
  MEM,    \* size of the descriptor's memory
  Sizes   \* the sizes that are asked for

VARIABLE held  \* the regions handed out and not given back, <<start, size>>, oldest first

Apart(r, q) == r[1] + r[2] <= q[1] \/ q[1] + q[2] <= r[1]

RegionsInit == held = <<>>

Allocate(size) ==
  \E start \in 0..(MEM - size) :
    /\ \A i \in DOMAIN held : Apart(<<start, size>>, held[i])
    /\ held' = Append(held, <<start, size>>)

Release(i) == held' = RemoveAt(held, i)

RegionsNext ==
  \/ \E size \in Sizes : Allocate(size)
  \/ \E i \in DOMAIN held : Release(i)

RegionsSpec == RegionsInit /\ [][RegionsNext]_held
=============================================================================
