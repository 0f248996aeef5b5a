-------------------------------- MODULE Ext2 --------------------------------
(***************************************************************************)
(* The ext2 file system of FileSystem/ext2/ext2_fs.c, with one block       *)
(* group: block and inode bitmaps, the inode table, indirect blocks and    *)
(* directory entries.  Bitmaps, table and group descriptor are cached, and *)
(* every change is written through, so memory and disk are one here; an    *)
(* operation is one step.  A behaviour ends (xWild) where the code leaves  *)
(* the memory or the disk it owns: a bitmap without room, a directory      *)
(* block without room, a block number that nobody wrote.                   *)
(***************************************************************************)
EXTENDS Integers, Sequences, FiniteSets, FiniteSetsExt, SequencesExt, TLC

CONSTANTS
  XBlocks,  \* bits of the block bitmap
  XInodes,  \* inodes_per_group, total_inodes
  XDir,     \* EXT2_NDIR_BLOCKS (12)
  XInd,     \* EXT2_NIND_BLOCK (256), block numbers in a block
  XNames,   \* directory entries that fit into a block
  XSizes,   \* sizes of new files, in blocks; bound: no triply indirect block
  XCalls    \* bound: operations in a behaviour

ASSUME Ext2Assumption ==
  /\ XBlocks \in Nat /\ XInodes \in Nat \ {0} /\ XDir \in Nat \ {0} /\ XInd \in Nat \ {0} /\ XCalls \in Nat
  /\ XSizes \subseteq 0..(XDir + XInd + XInd * XInd)

VARIABLES
  xDisk,   \* [formatted, bb, ib, table, block]
  xWild,   \* memory the code does not own was used
  xGiven,  \* [inode |-> locations]: the blocks each inode was created with, in order
  xWritten, \* [inode |-> n]: the last n-block buffer that was written to it whole
  xTodo    \* operations left

xVars == <<xDisk, xWild, xGiven, xWritten, xTodo>>

Bits == 0..(XBlocks - 1)
Inodes == 0..(XInodes - 1)
Free == [inode |-> 0, nlinks |-> 0, size |-> 0, type |-> "none", blocks |-> <<>>]
Levels == XDir + 3                            \* EXT2_N_BLOCKS
NoBlocks == [i \in 0..(Levels - 1) |-> 0]
Junk == -1                                    \* a word of memory kmalloc has not cleared

(* A block's location: bit b is at b + 1, and 0 is no block.                *)
Loc(b) == b + 1

(* xDisk.bb, xDisk.ib: the bits that are set. Inode n has bit n - 1; the    *)
(* inode 0, the "mother root", has none.                                    *)
XInit ==
  /\ xDisk = [formatted |-> FALSE, bb |-> {}, ib |-> {}, table |-> [n \in Inodes |-> Free], block |-> <<>>]
  /\ xWild = FALSE
  /\ xGiven = <<>>
  /\ xWritten = <<>>
  /\ xTodo = XCalls

-----------------------------------------------------------------------------
(* Blocks                                                                   *)

(* The blocks at locs are taken, and zeros written over them: a block that  *)
(* d.block does not have reads as zeros.                                    *)
Taken(d, bits) ==
  [d |-> [d EXCEPT !.bb = @ \cup bits,
                   !.block = [l \in DOMAIN @ \ {Loc(b) : b \in bits} |-> @[l]]],
   locs |-> [i \in 1..Cardinality(bits) |-> Loc(Min(bits) + i - 1)]]

(* Slip: the count of free bits goes on across a used one.                  *)
format_block_bitmap_NoReset(d, n) ==
  LET free == Bits \ d.bb
      ends == {b \in free : Cardinality({c \in free : c <= b}) = n}
      run == (Min(ends) - n + 1)..Min(ends)
  IN IF n = 0 \/ ends = {} THEN [d |-> d, locs |-> <<>>]
     ELSE Taken(d, run)

(* The first n free bits in a row, across bytes.                            *)
format_block_bitmap(d, n) ==
  LET ends == {b \in Bits : b >= n - 1 /\ ((b - n + 1)..b) \cap d.bb = {}}
      run == (Min(ends) - n + 1)..Min(ends)
  IN IF n = 0 \/ ends = {} THEN [d |-> d, locs |-> <<>>]
     ELSE Taken(d, run)

(* Slip: the bit after that of the block.                                   *)
free_blocks_Next(d, locs) == [d EXCEPT !.bb = @ \ {l : l \in {m \in locs \ {0} : m % 8 # 0}}]

(* A bit past the last one of its byte gives an empty mask: every eighth    *)
(* block is not given back.                                                 *)
free_blocks(d, locs) == [d EXCEPT !.bb = @ \ {l - 1 : l \in {m \in locs \ {0} : m % 8 # 0}}]

(* What is in a block: block numbers, directory entries, or a file's data.  *)
Put(d, kind, loc, it) == [d EXCEPT !.block = (loc :> [kind |-> kind, it |-> it]) @@ d.block]
Holds(d, kind, loc) == loc \in DOMAIN d.block /\ d.block[loc].kind = kind

(* A block of block numbers: n of locs from `offset' on, `rest' behind them. *)
PtrBlock(locs, offset, n, rest) ==
  [i \in 0..(XInd - 1) |-> IF i < n THEN locs[offset + i + 1] ELSE rest]

NewPtrBlock(d, locs, offset, n, rest) ==
  LET Fill(a) == IF a.locs = <<>> THEN [d |-> d, loc |-> 0]
                 ELSE [d |-> Put(a.d, "ptr", a.locs[1], PtrBlock(locs, offset, n, rest)),
                       loc |-> a.locs[1]]
  IN Fill(format_block_bitmap(d, 1))

(* Its buffer is not cleared, unlike that of inode_entry_blocks.            *)
singly_create(d, locs, offset, n) == NewPtrBlock(d, locs, offset, n, Junk)

Direct(locs) == [i \in 0..(Levels - 1) |-> IF i < XDir /\ i < Len(locs) THEN locs[i + 1] ELSE 0]

(* A singly indirect block s behind the direct ones.                        *)
WithSingly(locs, s) ==
  [d |-> s.d, blocks |-> [Direct(locs) EXCEPT ![XDir] = s.loc], ok |-> s.loc # 0]

(* Slip: the singly indirect block repeats the direct ones.                 *)
inode_entry_blocks_SameOffset(d, locs) ==
  IF Len(locs) < XDir THEN [d |-> d, blocks |-> Direct(locs), ok |-> TRUE]
  ELSE WithSingly(locs, NewPtrBlock(d, locs, 0, Min({Len(locs) - XDir, XInd}), 0))

(* Direct blocks; from XDir blocks on a singly indirect block, too; and a   *)
(* doubly indirect one whose blocks hold locs[XDir..] once more, because    *)
(* the offset leaves out the blocks of the singly indirect one.             *)
inode_entry_blocks(d, locs) ==
  LET left == Len(locs) - XDir
      more == left - XInd
      Size(blk) == IF blk + XInd <= more THEN XInd ELSE more % XInd
      Add(acc, c) == [d |-> c.d, locs |-> Append(acc.locs, c.loc)]
      Parts(t) == FoldLeft(LAMBDA acc, k : Add(acc,
                             singly_create(acc.d, locs, XDir + k * XInd, Size(k * XInd))),
                           [d |-> t, locs |-> <<>>],
                           [k \in 1..((more + XInd - 1) \div XInd) |-> k - 1])
      Link(s, top, parts) ==
        [d |-> Put(parts.d, "ptr", top, PtrBlock(parts.locs, 0, Len(parts.locs), 0)),
         blocks |-> [Direct(locs) EXCEPT ![XDir] = s.loc, ![XDir + 1] = top],
         ok |-> 0 \notin {parts.locs[i] : i \in 1..Len(parts.locs)}]
      Doubly(s, top) ==
        IF s.loc = 0 \/ top.locs = <<>> THEN [d |-> d, blocks |-> Direct(locs), ok |-> FALSE]
        ELSE Link(s, top.locs[1], Parts(top.d))
      Indirect(s) == IF more <= 0 THEN WithSingly(locs, s)
                     ELSE Doubly(s, format_block_bitmap(s.d, 1))
  IN IF left < 0 THEN [d |-> d, blocks |-> Direct(locs), ok |-> TRUE]
     ELSE Indirect(NewPtrBlock(d, locs, XDir, Min({left, XInd}), 0))

At(d, loc, i) == IF Holds(d, "ptr", loc) THEN d.block[loc].it[i] ELSE 0

(* The location a read of the k-th block of a file goes to, 0 if none.      *)
block_of_set(d, file, k) ==
  LET o2 == k - XDir - XInd
      o3 == o2 - XInd * XInd
  IN IF k < XDir THEN file.blocks[k]
     ELSE IF o2 < 0 THEN At(d, file.blocks[XDir], k - XDir)
     ELSE IF o3 < 0 THEN At(d, At(d, file.blocks[XDir + 1], o2 \div XInd), o2 % XInd)
     ELSE At(d, At(d, At(d, file.blocks[XDir + 2], o3 \div (XInd * XInd)),
                   (o3 % (XInd * XInd)) \div XInd), o3 % XInd)

(* The location a write goes to: behind the singly indirect block the       *)
(* offset counts that block's part once more (a number past the end of a    *)
(* block of numbers is taken as none).                                      *)
write_block_of_set(d, file, k) ==
  LET o == k - XDir
      Past(loc, i) == IF i < XInd THEN At(d, loc, i) ELSE 0
  IN IF k < XDir THEN file.blocks[k]
     ELSE IF o < XInd THEN At(d, file.blocks[XDir], o)
     ELSE IF o < XInd + XInd * XInd
     THEN At(d, Past(file.blocks[XDir + 1], o \div XInd), o % XInd)
     ELSE At(d, At(d, Past(file.blocks[XDir + 2], o \div (XInd * XInd)),
                   (o % (XInd * XInd)) \div XInd), o % XInd)

(* ext2_block_locs of a file with direct blocks only.                       *)
block_locs(file) == {file.blocks[i] : i \in 0..(XDir - 1)} \ {0}

(* The blocks of numbers that the inode names, and the data.                *)
free_data_blocks(d, file) ==
  free_blocks(d, {file.blocks[i] : i \in XDir..(Levels - 1)} \cup block_locs(file))

-----------------------------------------------------------------------------
(* Inodes and directories                                                   *)

(* Slip: the search starts over the inode that was found last.              *)
find_open_inode_NotSet(d) ==
  LET open == {n \in 1..(XInodes - 1) : n - 1 \notin d.ib}
  IN IF open = {} THEN [d |-> d, inode |-> -1] ELSE [d |-> d, inode |-> Min(open)]

(* From inode 1 on; -1, which nobody checks, when all are taken.            *)
find_open_inode(d) ==
  LET open == {n \in 1..(XInodes - 1) : n - 1 \notin d.ib}
  IN IF open = {} THEN [d |-> d, inode |-> -1]
     ELSE [d |-> [d EXCEPT !.ib = @ \cup {Min(open) - 1}], inode |-> Min(open)]

(* The first entry without links; without one the error is ignored.         *)
data_to_inode_table(d, inode) ==
  LET open == {n \in Inodes : d.table[n].nlinks = 0}
  IN IF open = {} THEN d ELSE [d EXCEPT !.table[Min(open)] = inode]

(* Only the entries at multiples of the size of an entry are looked at: of  *)
(* a table as small as the model's, entry 0.                                *)
update_node_in_inode_table(d, inode) ==
  IF inode.inode = d.table[0].inode THEN [ok |-> TRUE, d |-> [d EXCEPT !.table[0] = inode]]
  ELSE [ok |-> FALSE, d |-> d]

(* A new inode with n blocks: __create_file__, __create_dir__.              *)
Create(d, type, links, n) ==
  LET Enter(e, inode, locs) ==
        [ok |-> e.ok /\ (n = 0 \/ locs # <<>>), d |-> data_to_inode_table(e.d, inode),
         inode |-> inode, locs |-> locs]
      Name(e, number, locs) ==
        Enter(e, [inode |-> number, nlinks |-> links, size |-> n, type |-> type,
                  blocks |-> e.blocks], locs)
      Map(i, locs) == Name(inode_entry_blocks(i.d, locs), i.inode, locs)
      Number(a) == Map(find_open_inode(a.d), a.locs)
  IN Number(format_block_bitmap(d, n))

__create_file__(d, n) == Create(d, "file", 1, n)
__create_dir__(d) == Create(d, "dir", 2, 1)

(* The entry goes behind the last one of the directory's block. The branch  *)
(* that would expand the directory is never taken, since sizes are whole    *)
(* blocks: with the block full the entry is written past the buffer. A new  *)
(* directory's block has zeros, and so no entries.                          *)
add_file_to_dir(d, dir, inode) ==
  LET at == dir.blocks[0]
      entries == IF Holds(d, "dir", at) THEN d.block[at].it ELSE <<>>
  IN IF Len(entries) >= XNames THEN [ok |-> FALSE, d |-> d]
     ELSE [ok |-> TRUE, d |-> Put(d, "dir", at, Append(entries, inode))]

Then(r, dir, inode) ==
  LET Add(a) == [r EXCEPT !.ok = r.ok /\ a.ok, !.d = a.d]
  IN Add(add_file_to_dir(r.d, dir, inode))

-----------------------------------------------------------------------------
(* The operations                                                           *)

Live == {n \in Inodes : xDisk.table[n].nlinks > 0}
Dirs == {n \in Live \ {0} : xDisk.table[n].type = "dir"}
OnlyDirect(file) == \A i \in XDir..(Levels - 1) : file.blocks[i] = 0

Finish(r) ==
  /\ xDisk' = IF r.ok THEN r.d ELSE xDisk
  /\ xWild' = ~ r.ok

(* Bitmaps and table are cleared. No bit stands for the blocks they take:   *)
(* the bitmap begins behind the table. Bound: one group.                    *)
set_block_group(d) == [d EXCEPT !.formatted = TRUE, !.bb = {}, !.ib = {},
                                !.table = [n \in Inodes |-> Free]]

(* The inode 0 has no bit and no blocks.                                    *)
__create_root__(d) ==
  data_to_inode_table(d, [Free EXCEPT !.nlinks = 2, !.type = "dir", !.blocks = NoBlocks])

(* ext2_burn: the root is inode 1, with two entries for itself.             *)
XBurn ==
  LET Twice(root, dir) == Then(Then(root, dir, dir.inode), dir, dir.inode)
      Made(root) == Finish(Twice(root, root.inode))
                    /\ xGiven' = (root.inode.inode :> root.locs) /\ UNCHANGED xWritten
  IN ~ xDisk.formatted /\ Made(__create_dir__(__create_root__(set_block_group(xDisk))))

Gives(f) ==
  /\ UNCHANGED xWritten
  /\ xGiven' = IF f.ok THEN (f.inode.inode :> f.locs) @@ xGiven ELSE xGiven

create_file(parent, n) ==
  LET Made(f) == Finish(Then(f, xDisk.table[parent], f.inode.inode)) /\ Gives(f)
  IN ~ xWild /\ parent \in Dirs /\ Made(__create_file__(xDisk, n))

create_dir(parent) ==
  LET Named(f) == Then(f, xDisk.table[parent], f.inode.inode)
      Made(f) == Finish(Then(Then(Named(f), f.inode, f.inode.inode), f.inode, parent))
                 /\ Gives(f)
  IN ~ xWild /\ parent \in Dirs /\ Made(__create_dir__(xDisk))

(* remove_inode_entry: the mask of an inode that is a multiple of 8 is      *)
(* empty, and the deletion stops there. remove_dirent follows the first     *)
(* bytes of the directory's block as a pointer and never changes the block, *)
(* so the entry stays. Bound: files with data and direct blocks only, the   *)
(* copies that get_singly makes of block numbers are cut short.             *)
delete(n) ==
  LET file == xDisk.table[n]
  IN /\ ~ xWild /\ n \in Live \ {0, 1} /\ file.size > 0 /\ OnlyDirect(file)
     /\ IF n % 8 = 0 \/ n - 1 \notin xDisk.ib THEN UNCHANGED <<xDisk, xGiven, xWritten>>
        ELSE /\ xDisk' = free_data_blocks(
                           [xDisk EXCEPT !.ib = @ \ {n - 1}, !.table[n] = Free], file)
             /\ xGiven' = [k \in DOMAIN xGiven \ {n} |-> xGiven[k]]
             /\ xWritten' = [k \in DOMAIN xWritten \ {n} |-> xWritten[k]]
     /\ UNCHANGED xWild

(* expand by one block: the new block is taken and the caller's copy of the *)
(* inode names it; the table does not, because the update does not find the *)
(* inode. Bound: as for delete.                                             *)
expand(n) ==
  LET file == xDisk.table[n]
      Save(e) == Finish([ok |-> e.ok, d |-> update_node_in_inode_table(e.d,
                           [file EXCEPT !.size = @ + 1, !.blocks = e.blocks]).d])
      Map(a) == IF a.locs = <<>> THEN Finish([ok |-> FALSE, d |-> a.d])
                ELSE Save(inode_entry_blocks(a.d,
                            [i \in 1..file.size |-> file.blocks[i - 1]] \o a.locs))
  IN /\ ~ xWild /\ n \in Live \ {0} /\ file.size > 0 /\ OnlyDirect(file)
     /\ Map(format_block_bitmap(xDisk, 1))
     /\ UNCHANGED <<xGiven, xWritten>>

(* ext2_write of a buffer of s blocks, <<n, k>> for its k-th, to a file of   *)
(* at least that size. The offset only cuts the size: the buffer goes to    *)
(* the file's first blocks wherever it was meant for, until one has no      *)
(* location. One whose location is junk goes anywhere on the disk.          *)
write(n, s) ==
  LET file == xDisk.table[n]
      To(k) == write_block_of_set(xDisk, file, k)
      done == Min({k \in 0..(s - 1) : To(k) = 0} \cup {s})
      Block(d, k) == Put(d, "data", To(k - 1), <<n, k>>)
  IN /\ ~ xWild /\ n \in Live /\ file.type = "file" /\ s \in 1..file.size
     /\ Finish([ok |-> \A k \in 0..(done - 1) : To(k) # Junk,
                d |-> FoldLeft(Block, xDisk, [k \in 1..done |-> k])])
     /\ xWritten' = IF done = s THEN (n :> s) @@ xWritten ELSE xWritten
     /\ UNCHANGED xGiven

(* ext2_read of the first s blocks: nothing, when one has no location.      *)
read(d, file, s) ==
  LET at == [k \in 1..s |-> block_of_set(d, file, k - 1)]
  IN IF \E k \in 1..s : at[k] = 0 THEN <<>>
     ELSE [k \in 1..s |-> IF at[k] \in DOMAIN d.block THEN d.block[at[k]].it ELSE 0]

XNext ==
  /\ xTodo > 0 /\ xTodo' = xTodo - 1
  /\ \/ XBurn
     \/ \E p \in Inodes : create_dir(p) \/ delete(p) \/ expand(p)
                          \/ \E n \in XSizes : create_file(p, n) \/ write(p, n)

XSpec == XInit /\ [][XNext]_xVars

-----------------------------------------------------------------------------
(* Properties                                                               *)

(* The blocks a live inode reaches: data, and blocks of block numbers. The  *)
(* junk behind the last number of a block is no block of the inode's.       *)
Reached(n) ==
  LET file == xDisk.table[n]
      Ptrs(s) == {l \in s : Holds(xDisk, "ptr", l)}
      direct == {file.blocks[i] : i \in 0..(Levels - 1)} \ {0}
      Below(s) == {xDisk.block[l].it[i] : l \in Ptrs(s), i \in 0..(XInd - 1)}
      top == {file.blocks[i] : i \in XDir..(Levels - 1)} \ {0}
      second == Below(top) \ {0}
      third == Below(Below({file.blocks[XDir + 1]})) \ {0, Junk}
  IN direct \cup second \cup third

(* No two inodes of the table reach the same block, and every block they    *)
(* reach is taken in the bitmap, whatever was created, deleted and expanded *)
(* in between: deletion and expansion may lose blocks, never share them.    *)
XOwned ==
  /\ \A m, n \in Live : m # n => Reached(m) \cap Reached(n) = {}
  /\ \A n \in Live : \A l \in Reached(n) : l - 1 \in xDisk.bb

(* Reads and writes of block k of a file go to the k-th block it was given, *)
(* as long as no doubly indirect block is involved.                         *)
XBlockMap ==
  \A n \in DOMAIN xGiven \cap Live : \A k \in 1..Len(xGiven[n]) :
    k <= XDir + XInd =>
      /\ block_of_set(xDisk, xDisk.table[n], k - 1) = xGiven[n][k]
      /\ write_block_of_set(xDisk, xDisk.table[n], k - 1) = xGiven[n][k]

(* What was written to a file is read back, block by block, until it is     *)
(* written again, whatever happened to other files and directories in       *)
(* between: no other file's data, block of numbers or directory took its    *)
(* place. For the part of a file without a doubly indirect block.           *)
XReadsBack ==
  \A n \in DOMAIN xWritten : xWritten[n] <= XDir + XInd =>
    read(xDisk, xDisk.table[n], xWritten[n]) = [k \in 1..xWritten[n] |-> <<n, k>>]

(* The inode bitmap and the inode table are searched one after the other,   *)
(* each for its own first free entry: they agree, so the number that goes   *)
(* into a directory entry is the index at which the inode is found.         *)
XIndex == \A n \in Live : xDisk.table[n].inode = n /\ (n > 0 => n - 1 \in xDisk.ib)
=============================================================================
