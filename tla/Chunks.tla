------------------------------- MODULE Chunks -------------------------------
(***************************************************************************)
(* The allocator behind kmalloc, kfree, iden_alloc and iden_dealloc        *)
(* (Memory/Physical/phy.c 185-640): free chunks in one doubly linked list  *)
(* that a table of bins, one per power of two, points into; used chunks in *)
(* a second list.  The lists are kept as the code keeps them, record by    *)
(* record, because its faults are faults of single pointers.  The code     *)
(* takes no lock: one call is one step here, so the callers are taken to   *)
(* call one after the other.                                               *)
(***************************************************************************)
EXTENDS Integers, FiniteSets, FiniteSetsExt, Sequences, SequencesExt

CONSTANTS
  MEM,       \* size of the descriptor's memory, in units of 16 bytes
  Sizes,     \* the sizes that are asked for
  Returned,  \* those of the sizes whose regions are ever given back
  Class,     \* [1..MEM -> 0..31], the bin of a size: 31 - (uint32_t) logx(size, 2)
  Least,     \* the first chunk is not cut below this size
  RECORDS    \* bound: chunk records on the pages of the list

ASSUME ChunksAssumption ==
  /\ MEM \in Nat \ {0} /\ Sizes \subseteq 1..MEM /\ Returned \subseteq Sizes
  /\ Class \in [1..MEM -> 0..31]
  /\ Least \in 1..MEM /\ RECORDS \in Nat \ {0}

Null == 0
Records == 1..RECORDS
STACKED == 2                              \* bound: records of the chunk stack
Nodes == 1..(RECORDS + STACKED)
Steps == 0..(RECORDS + STACKED)
Bins == {Class[n] : n \in 1..MEM}    \* the entries of the table that chunks can have

VARIABLES
  heap,  \* the descriptor and its chunk records
  held   \* the regions that callers hold, <<start, size>>, oldest first

vars == <<heap, held>>

Blank == [size |-> 0, start |-> 0, end |-> 0, bin |-> 0, next |-> Null, back |-> Null]

(* create_mem_desc: a single free chunk, and every bin points at it.        *)
Init ==
  /\ heap =
       [chunk |-> [c \in Nodes |->
                     IF c = 1 THEN [Blank EXCEPT !.size = MEM, !.end = MEM,
                                                 !.bin = Class[MEM]]
                              ELSE Blank],
        bin |-> [b \in Bins |-> [count |-> IF b = Class[MEM] THEN 1 ELSE 0,
                                 start |-> 1, end |-> 1]],
        free |-> [start |-> 1, end |-> 1, count |-> 1],
        used |-> [start |-> Null, end |-> Null, count |-> 0],
        terminate |-> 1,   \* records of the list taken so far
        stacked |-> 0,     \* chunk_stack_count
        wild |-> FALSE]    \* a null pointer was followed, or a loop has no end
  /\ held = <<>>

(* The record reached from c by k steps along next. *)
Along(h, c) ==
  LET node[k \in Steps] ==
        IF k = 0 THEN c
        ELSE IF node[k - 1] = Null THEN Null ELSE h.chunk[node[k - 1]].next
  IN node

Listed(h, c) == {Along(h, c)[k] : k \in Steps} \ {Null}
Endless(h, c) == Along(h, c)[RECORDS + STACKED] # Null

(* p->f = v: checked for null by the code, or not. *)
SetIf(h, p, f, v) == IF p = Null THEN h ELSE [h EXCEPT !.chunk[p][f] = v]
SetIn(h, p, f, v) == IF p = Null THEN [h EXCEPT !.wild = TRUE]
                                 ELSE [h EXCEPT !.chunk[p][f] = v]

-----------------------------------------------------------------------------
(* f_list_add_chunk                                                         *)

(* The bin has chunks: before the first that is not larger, at the end of   *)
(* the bin otherwise.                                                       *)
AddToBin(h, c, b) ==
  LET node == Along(h, h.bin[b].start)
      n == h.bin[b].count
      fits == {i \in Steps : i < n /\ node[i] # Null
                              /\ h.chunk[node[i]].size <= h.chunk[c].size}
      off == \E i \in Steps : i < n /\ node[i] = Null
                               /\ \A j \in fits : i < j
      h1 == [h EXCEPT !.chunk[c].bin = b, !.bin[b].count = n + 1, !.wild = @ \/ off]
  IN IF fits # {}
     THEN LET i == Min(fits)
              at == node[i]
              h2 == [h1 EXCEPT !.chunk[c].next = at, !.chunk[c].back = h.chunk[at].back,
                               !.bin[b].start = IF i = 0 THEN c ELSE @,
                               !.bin[b].end = IF i # 0 /\ i + 1 = n THEN c ELSE @]
          IN SetIn(SetIf(h2, h.chunk[at].back, "next", c), at, "back", c)
     ELSE LET last == h.bin[b].end
              after == IF last = Null THEN Null ELSE h.chunk[last].next
              h2 == [h1 EXCEPT !.chunk[c].back = last, !.chunk[c].next = after,
                               !.bin[b].end = c]
          IN SetIn(SetIf(h2, after, "back", c), last, "next", c)

(* The bin is empty: behind the last chunk of the nearest bin with chunks,  *)
(* counted from the bin of the next smaller sizes upwards.                  *)
OpenBin(h, c, b) ==
  LET filled == {i \in Bins : i <= b + 1 /\ h.bin[i].count # 0}
      prev == IF filled = {} THEN h.bin[b].start ELSE h.bin[Max(filled)].end
      h1 == [h EXCEPT !.chunk[c].bin = b, !.chunk[c].back = prev,
                      !.bin[b] = [start |-> c, end |-> c, count |-> 1]]
  IN IF prev # Null
     THEN LET after == h.chunk[prev].next
              h2 == [h1 EXCEPT !.chunk[c].next = after]
          IN SetIn(SetIf(h2, after, "back", c), prev, "next", c)
     ELSE SetIf([h1 EXCEPT !.chunk[c].next = h.free.start, !.free.start = c],
                h.free.start, "back", c)

(* Slip: the end of the list does not follow. *)
FListAdd_StaleEnd(h, c) ==
  LET b == Class[h.chunk[c].size]
      h1 == [h EXCEPT !.free.count = @ + 1]
      h2 == IF h1.bin[b].count # 0 THEN AddToBin(h1, c, b) ELSE OpenBin(h1, c, b)
  IN [h2 EXCEPT !.free.start = IF h2.chunk[c].next = @ THEN c ELSE @]

FListAdd(h, c) ==
  LET b == Class[h.chunk[c].size]
      h1 == [h EXCEPT !.free.count = @ + 1]
      h2 == IF h1.bin[b].count # 0 THEN AddToBin(h1, c, b) ELSE OpenBin(h1, c, b)
      h3 == [h2 EXCEPT !.free.end = IF h2.chunk[c].back = @ THEN c ELSE @]
  IN [h3 EXCEPT !.free.start = IF h3.chunk[c].next = @ THEN c ELSE @]

(* Slip: the bin's start does not follow. *)
FListRemove_KeepsStart(h, c) ==
  LET k == h.chunk[c]
      h1 == IF k.next # Null THEN SetIn(h, k.next, "back", k.back)
                             ELSE [h EXCEPT !.free.end = k.back]
      h2 == IF k.back # Null THEN SetIn(h1, k.back, "next", k.next)
                             ELSE [h1 EXCEPT !.free.start = k.next]
      e == [h2.bin[k.bin] EXCEPT !.count = @ - 1]
  IN [h2 EXCEPT
        !.free.count = @ - 1,
        !.bin[k.bin] = IF e.count = 0 THEN [e EXCEPT !.start = k.back, !.end = k.back]
                       ELSE IF c = e.end THEN [e EXCEPT !.end = k.back]
                       ELSE e]

(* f_list_remove_chunk *)
FListRemove(h, c) ==
  LET k == h.chunk[c]
      h1 == IF k.next # Null THEN SetIn(h, k.next, "back", k.back)
                             ELSE [h EXCEPT !.free.end = k.back]
      h2 == IF k.back # Null THEN SetIn(h1, k.back, "next", k.next)
                             ELSE [h1 EXCEPT !.free.start = k.next]
      e == [h2.bin[k.bin] EXCEPT !.count = @ - 1]
  IN [h2 EXCEPT
        !.free.count = @ - 1,
        !.bin[k.bin] = IF e.count = 0 THEN [e EXCEPT !.start = k.back, !.end = k.back]
                       ELSE IF c = e.start THEN [e EXCEPT !.start = k.next]
                       ELSE IF c = e.end THEN [e EXCEPT !.end = k.back]
                       ELSE e]

(* u_list_add_chunk: at the end, whatever its address. *)
UListAdd(h, c) ==
  LET last == h.used.end
      h1 == [h EXCEPT !.used.count = @ + 1, !.used.end = c, !.chunk[c].next = Null]
  IN IF h.used.count # 0
     THEN SetIn([h1 EXCEPT !.chunk[c].back = last], last, "next", c)
     ELSE [h1 EXCEPT !.chunk[c].back = Null, !.used.start = c]

(* Slip: the list's end is not moved. *)
UListRemove_StaleEnd(h, c) ==
  LET k == h.chunk[c]
      h1 == SetIf(SetIf(h, k.next, "back", k.back), k.back, "next", k.next)
  IN [h1 EXCEPT !.used.count = @ - 1,
                !.used.start = IF c = @ THEN k.next ELSE @]

(* u_list_remove_chunk *)
UListRemove(h, c) ==
  LET k == h.chunk[c]
      h1 == SetIf(SetIf(h, k.next, "back", k.back), k.back, "next", k.next)
  IN [h1 EXCEPT !.used.count = @ - 1,
                !.used.end = IF c = @ THEN k.back ELSE @,
                !.used.start = IF c = @ THEN k.next ELSE @]

-----------------------------------------------------------------------------
(* mem_alloc_chunk: the record it takes, and the descriptor afterwards.     *)
Record(h) == IF h.stacked = 0 THEN h.terminate + 1 ELSE RECORDS + h.stacked

AllocChunk(h) == IF h.stacked = 0 THEN [h EXCEPT !.terminate = @ + 1]
                                  ELSE [h EXCEPT !.stacked = @ - 1]

(* mem_dealloc_chunk: the stack grows, without the address of the record.   *)
DeallocChunk(h, c) == [h EXCEPT !.stacked = @ + 1, !.chunk[c] = Blank]

(* Slip: the rest starts where it did. *)
Split_SameStart(h, c, size) ==
  LET new == [Blank EXCEPT !.size = size, !.start = h.chunk[c].start,
                           !.end = h.chunk[c].start + size]
  IN [AllocChunk(h) EXCEPT !.chunk[Record(h)] = new, !.chunk[c].size = @ - size]

(* chunk_split_size: the new chunk is the front of c. *)
Split(h, c, size) ==
  LET new == [Blank EXCEPT !.size = size, !.start = h.chunk[c].start,
                           !.end = h.chunk[c].start + size]
  IN [AllocChunk(h) EXCEPT !.chunk[Record(h)] = new, !.chunk[c].size = @ - size,
                           !.chunk[c].start = @ + size]

(* Cut the region off c and put the rest, if any, back in its bin. *)
CutFrom(h, c, size) ==
  LET h1 == FListRemove(Split(h, c, size), c)
      h2 == IF h1.chunk[c].size # 0 THEN FListAdd(h1, c) ELSE DeallocChunk(h1, c)
  IN UListAdd(h2, Record(h))

(* Slip: a chunk of the very size is passed over. *)
NotLarger_Skips(size) ==
  LET node == Along(heap, heap.bin[Class[size]].start)
      hits == {i \in Steps : node[i] # Null /\ heap.chunk[node[i]].size < size}
  IN IF hits = {} THEN Null ELSE node[Min(hits)]

(* mem_alloc_memory walks from the start of the size's bin to a chunk of    *)
(* the size or to the first smaller one; it takes that chunk, or cuts the   *)
(* one before it, or the last of the list if no chunk is smaller.           *)
NotLarger(size) ==
  LET node == Along(heap, heap.bin[Class[size]].start)
      hits == {i \in Steps : node[i] # Null /\ heap.chunk[node[i]].size <= size}
  IN IF hits = {} THEN Null ELSE node[Min(hits)]

ToCut(size) ==
  IF NotLarger(size) = Null THEN heap.free.end ELSE heap.chunk[NotLarger(size)].back

TakeWhole(size) ==
  LET c == NotLarger(size) IN
  /\ c # Null /\ heap.chunk[c].size = size
  /\ heap' = UListAdd(FListRemove(heap, c), c)
  /\ held' = Append(held, <<heap.chunk[c].start, size>>)

TakePart(size) ==
  LET c == ToCut(size) IN
  /\ NotLarger(size) # Null => heap.chunk[NotLarger(size)].size # size
  /\ NotLarger(size) = Null => ~Endless(heap, heap.bin[Class[size]].start)
  /\ c # Null /\ heap.chunk[c].size >= size
  /\ c = 1 => heap.chunk[c].size - size >= Least
  /\ Record(heap) \in Nodes
  /\ heap' = CutFrom(heap, c, size)
  /\ held' = Append(held, <<heap.chunk[c].start, size>>)

(* No end to the walk, no chunk to cut, or one that is too small: the code  *)
(* loops, panics, or lets the size of the rest wrap round.                  *)
AllocFails(size) ==
  /\ \/ NotLarger(size) = Null /\ Endless(heap, heap.bin[Class[size]].start)
     \/ /\ NotLarger(size) # Null => heap.chunk[NotLarger(size)].size # size
        /\ ToCut(size) = Null \/ heap.chunk[ToCut(size)].size < size
  /\ heap' = [heap EXCEPT !.wild = TRUE]
  /\ UNCHANGED held

Alloc(size) == ~heap.wild /\ (TakeWhole(size) \/ TakePart(size) \/ AllocFails(size))

(* Slip: the end of a chunk is taken for a part of it. *)
UListSearch_PastEnd(addr) ==
  LET node == Along(heap, heap.used.start)
      hits == {i \in Steps : node[i] # Null /\ addr >= heap.chunk[node[i]].start
                                            /\ addr <= heap.chunk[node[i]].end}
  IN IF hits = {} THEN Null ELSE node[Min(hits)]

(* u_list_search_chunk_waddr *)
UListSearch(addr) ==
  LET node == Along(heap, heap.used.start)
      hits == {i \in Steps : node[i] # Null /\ addr >= heap.chunk[node[i]].start
                                            /\ addr < heap.chunk[node[i]].end}
  IN IF hits = {} THEN Null ELSE node[Min(hits)]

(* mem_dealloc_memory: an address that is in no used chunk is an endless loop. *)
Dealloc(i) ==
  LET c == UListSearch(held[i][1]) IN
  /\ ~heap.wild
  /\ IF c = Null
     THEN heap' = [heap EXCEPT !.wild = TRUE] /\ UNCHANGED held
     ELSE heap' = FListAdd(UListRemove(heap, c), c) /\ held' = RemoveAt(held, i)

Next ==
  \/ \E size \in Sizes : Alloc(size)
  \/ \E i \in DOMAIN held : held[i][2] \in Returned /\ Dealloc(i)

Spec == Init /\ [][Next]_vars

-----------------------------------------------------------------------------
(* Properties                                                               *)

FreeChunks == Listed(heap, heap.free.start)

(* The shape of the descriptor, and no operation has gone astray: no null   *)
(* pointer followed, no walk without end, no region larger than its chunk.  *)
TypeOK ==
  /\ heap.chunk \in [Nodes -> [size : 0..MEM, start : 0..MEM, end : 0..MEM,
                               bin : 0..31, next : Nodes \cup {Null},
                               back : Nodes \cup {Null}]]
  /\ heap.bin \in [Bins -> [count : Nat, start : Nodes \cup {Null},
                            end : Nodes \cup {Null}]]
  /\ heap.free.count \in Nat /\ heap.used.count \in Nat
  /\ ~heap.wild
  /\ held \in Seq((0..MEM) \X Sizes)

(* The free list can be walked both ways: its end is where it stops, every  *)
(* chunk names its predecessor, and the count is the number of chunks.      *)
FreeListLinked ==
  /\ Cardinality(FreeChunks) = heap.free.count
  /\ heap.free.end \in FreeChunks /\ heap.chunk[heap.free.end].next = Null
  /\ \A c \in FreeChunks :
       LET n == heap.chunk[c].next IN n # Null => heap.chunk[n].back = c

(* A bin counts the free chunks of its sizes, and they are the ones from    *)
(* its start to its end.                                                    *)
BinsDelimit ==
  \A b \in Bins :
    LET members == {c \in FreeChunks : Class[heap.chunk[c].size] = b} IN
    /\ heap.bin[b].count = Cardinality(members)
    /\ members # {} =>
         members = {Along(heap, heap.bin[b].start)[k] : k \in 0..(Cardinality(members) - 1)}
         /\ Along(heap, heap.bin[b].start)[Cardinality(members) - 1] = heap.bin[b].end

(* Nothing is lost and nothing is there twice: free chunks and held regions *)
(* lie apart and are the whole memory.                                      *)
NothingLost ==
  /\ \A c \in FreeChunks : \A r \in ToSet(held) :
       \/ r[1] + r[2] <= heap.chunk[c].start
       \/ heap.chunk[c].start + heap.chunk[c].size <= r[1]
  /\ MapThenSumSet(LAMBDA c : heap.chunk[c].size, FreeChunks)
       + MapThenSumSet(LAMBDA i : held[i][2], DOMAIN held) = MEM

(* Giving a region back frees exactly that region: the search of the used   *)
(* list by address finds the chunk that was handed out.                     *)
GivesBackItsOwn ==
  \A r \in ToSet(held) :
    LET c == UListSearch(r[1]) IN
    c # Null /\ heap.chunk[c].start = r[1] /\ heap.chunk[c].size = r[2]

(* Callers get what Regions promises. *)
R == INSTANCE Regions
HandsOutRegions == R!RegionsSpec

(* "There shall be one continuous long ordered list of free chunks, ordered *)
(* by size" (phy.c:169).                                                    *)
FreeListOrdered ==
  \A c \in FreeChunks :
    LET n == heap.chunk[c].next IN
    n # Null => heap.chunk[n].size <= heap.chunk[c].size
=============================================================================
