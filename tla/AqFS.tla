-------------------------------- MODULE AqFS --------------------------------
(***************************************************************************)
(* AqFS 2 (FileSystem/AqFS): partition and burn, mount, directories, files *)
(* and the space allocator.  A sector is a location of the disk, and every *)
(* structure takes one; a header takes one location too, but is written in *)
(* several parts, its sectors (8 in the code).  An operation runs alone,   *)
(* but its writes reach the disk one sector after the other, and the       *)
(* machine may stop between any two of them: an operation computes the     *)
(* writes it makes, Step applies them in order, and Crash drops those that *)
(* are left together with all memory.  AqFree does nothing in the code, so *)
(* space never comes back.                                                 *)
(***************************************************************************)
EXTENDS Integers, Sequences, SequencesExt, FiniteSets, FiniteSetsExt, TLC

CONSTANTS
  AqSpace,    \* tsize: sectors the allocation table starts with
  AqPaths,    \* the paths callers use
  AqDirs,     \* [AqPaths -> sequences of names], the components before the last '/'
  AqLname,    \* [AqPaths -> names], Aq_GetLname: what is left of the last component
  AqMatch,    \* {<<str, name>>}: str is a prefix of name (strncmp over strlen(str))
  AqHome,     \* the name of the directory that burn creates (the code creates four)
  AqMax,      \* maxEntrys of a header (directory 50, file 112 in the code)
  AqMark,     \* [0..AqMax-1 -> Nat], the sector of a header with an entry's first words
  AqPlace,    \* [0..AqMax-1 -> Nat], the one with its location and name
  AqUnits,    \* units of data in a sector (512 bytes in the code)
  AqSizes,    \* units an append may write
  AqLength,   \* bound: units of a file
  AqHandles,  \* handles callers hold at a time
  AqCalls,    \* bound: calls after the mount or the burn
  AqCrashes   \* bound: crashes

ASSUME AqAssumption ==
  /\ AqSpace \in Nat /\ AqMax \in Nat \ {0} /\ AqUnits \in Nat \ {0}
  /\ AqMark \in [0..(AqMax - 1) -> Nat]
  /\ \A j \in 0..(AqMax - 1) : AqPlace[j] \in {AqMark[j], AqMark[j] + 1}
  /\ AqSizes \subseteq Nat \ {0} /\ AqLength \in Nat /\ AqCalls \in Nat /\ AqCrashes \in Nat

VARIABLES
  aqDisk,   \* written sectors; a sector outside the domain reads as zeros
  aqTodo,   \* the writes the running operation has still to make
  aqMem,    \* memory: lost in a crash
  aqTold    \* [told, due, torn, calls, crashes]: what callers were told is stored

aqVars == <<aqDisk, aqTodo, aqMem, aqTold>>

Nowhere == 0
MBR == 0      \* read and written directly: AqRead and AqWrite refuse location 0
MAIN == 1
META == 2
TABLE == 3
START == 4    \* first sector of the allocation table's only entry
AqTop == 2147483647   \* stands for 2^32 - 1, where usedEntrys goes from 0 down

Zero == [loc |-> 0, headers |-> 0, first |-> 0, last |-> 0,
         size |-> 0, lastHdr |-> 0, lastOff |-> 0]      \* AqDirectory_t, AqFile_t
NoEntry == [magic |-> FALSE, loc |-> 0, name |-> "", type |-> "none",
            spread |-> 0, used |-> 0, next |-> 0]
NoEntries == [i \in 0..(AqMax - 1) |-> NoEntry]
NewHdr(l) == [loc |-> l, used |-> 0, next |-> 0, entry |-> NoEntries]
NoHandle == [open |-> FALSE, real |-> FALSE, path |-> "", file |-> Zero]
Down == [up |-> FALSE, cwd |-> Zero, greatest |-> 0, wild |-> FALSE,
         handle |-> [h \in AqHandles |-> NoHandle]]

AqInit ==
  /\ aqDisk = MBR :> [part |-> FALSE, name |-> FALSE]
  /\ aqTodo = <<>>
  /\ aqMem = Down
  /\ aqTold = [told |-> <<>>, due |-> <<>>, torn |-> {}, calls |-> 0, crashes |-> 0]

-----------------------------------------------------------------------------
(* An operation's state s: the disk as it will be, the writes so far,       *)
(* `greatest' in memory, and whether a null location was followed or the    *)
(* allocation table fell below zero.                                        *)
AqWrite(s, l, c) ==
  IF l = Nowhere THEN s
  ELSE [s EXCEPT !.disk = (l :> c) @@ @, !.log = Append(@, <<l, c>>)]

AqRead(s, l, otherwise) ==
  IF l \in DOMAIN s.disk \ {Nowhere} THEN s.disk[l] ELSE otherwise

TableOf(disk) == IF TABLE \in DOMAIN disk THEN disk[TABLE].size ELSE 0

(* Slip: the allocation table is written back only with the meta table.     *)
AqAlloc_Unsaved(s, n) ==
  IF s.greatest < n THEN [s |-> [s EXCEPT !.wild = TRUE], loc |-> Nowhere]
  ELSE [s |-> [s EXCEPT !.greatest = @ - n], loc |-> START + s.greatest - n]

(* The sectors come off the end of the table's entry. `greatest' in memory  *)
(* decides, the table on disk is what is cut, and only the table is written *)
(* (the write of `greatest' is commented out). No caller checks for NULL.   *)
AqAlloc(s, n) ==
  LET left == TableOf(s.disk) - n
  IN IF s.greatest < n \/ left < 0
     THEN [s |-> [s EXCEPT !.wild = TRUE], loc |-> Nowhere]
     ELSE [s |-> [AqWrite(s, TABLE, [size |-> left]) EXCEPT !.greatest = left],
           loc |-> START + left]

-----------------------------------------------------------------------------
(* Headers, of directories and of files                                     *)

(* What is on the disk once sectors 0..k of header h are written over old:  *)
(* the first has the counts and the link, each entry's words are in AqMark  *)
(* and, behind those, AqPlace.                                              *)
UpTo(k, old, h) ==
  LET Words(j) == IF AqMark[j] <= k THEN h.entry[j] ELSE old.entry[j]
      Place(j) == IF AqPlace[j] <= k THEN h.entry[j] ELSE old.entry[j]
  IN [h EXCEPT !.entry = [j \in 0..(AqMax - 1) |->
                            [Words(j) EXCEPT !.loc = Place(j).loc, !.name = Place(j).name]]]

(* Aq_DirSave_Header, Aq_FileSave_Header: sector after sector.  One that is *)
(* written as it was is no step.                                            *)
SaveHdr(s, h) ==
  LET old == AqRead(s, h.loc, NewHdr(0))
      Sector(t, k) == IF AqRead(t, h.loc, NewHdr(0)) = UpTo(k, old, h) THEN t
                      ELSE AqWrite(t, h.loc, UpTo(k, old, h))
      sectors == {0} \cup {AqPlace[j] : j \in 0..(AqMax - 1)}
  IN FoldLeft(Sector, s, [i \in 1..(Max(sectors) + 1) |-> i - 1])

(* The headers in the order a search reads them.                            *)
Chain(s, node) ==
  LET hdr[i \in 0..node.headers] ==
        IF i = 0 THEN AqRead(s, node.first, NewHdr(0))
        ELSE AqRead(s, hdr[i - 1].next, hdr[i - 1])
  IN [i \in 0..(node.headers - 1) |-> hdr[i]]

DirCreate_NewHeader(s, node) ==
  LET Link(a) == IF node.last = Nowhere THEN a.s
                 ELSE SaveHdr(a.s, [AqRead(a.s, node.last, NewHdr(0)) EXCEPT !.next = a.loc])
      Add(a) == [s |-> SaveHdr(Link(a), NewHdr(a.loc)),
                 node |-> [node EXCEPT !.headers = @ + 1, !.last = a.loc,
                                       !.first = IF node.last = Nowhere THEN a.loc ELSE @]]
  IN Add(AqAlloc(s, 1))

FileCreate_NewHeader(s, file) == DirCreate_NewHeader(s, file)

(* A free entry: in memory only, the caller saves it.                       *)
DirGet_FreeEntry(s, node) ==
  LET None == [ok |-> FALSE, s |-> s, node |-> node]
      Take(n, h, j) == [ok |-> TRUE, s |-> n.s, node |-> n.node, slot |-> j,
                        hdr |-> [h EXCEPT !.used = @ + 1, !.entry[j].magic = TRUE]]
      TakeNew(n) == Take(n, NewHdr(n.node.last), 0)
      TakeFrom(h, free) == IF free = {} THEN None
                           ELSE Take([s |-> s, node |-> node], h, Min(free))
      Unmarked(h) == {j \in DOMAIN h.entry : ~ h.entry[j].magic}
      Room(chain) == {i \in DOMAIN chain : chain[i].used < AqMax}
      Search(chain, room) ==
        IF room = {} THEN TakeNew(DirCreate_NewHeader(s, node))
        ELSE TakeFrom(chain[Min(room)], Unmarked(chain[Min(room)]))
  IN IF node.first = Nowhere THEN None ELSE Search(Chain(s, node), Room(Chain(s, node)))

FileGet_FreeEntry(s, file) == DirGet_FreeEntry(s, file)

SaveEntry(f, h) == [f EXCEPT !.s = SaveHdr(f.s, h), !.hdr = h]

DirCreate_NewEntry(s, dir, name, l) ==
  LET Name(f) == IF ~ f.ok THEN f
                 ELSE SaveEntry(f, [f.hdr EXCEPT !.entry[f.slot].loc = l,
                                                 !.entry[f.slot].name = name])
  IN Name(DirGet_FreeEntry(s, dir))

FileCreate_NewEntry(s, file, l) == DirCreate_NewEntry(s, file, "", l)

(* The first entry, in the order of the search, that satisfies Is.          *)
FirstEntry(s, dir, Is(_)) ==
  LET At(chain) == {p \in (DOMAIN chain) \X (0..(AqMax - 1)) :
                      Is(chain[p[1]].entry[p[2]])}
      Least(at) == CHOOSE p \in at : \A q \in at :
                     p[1] < q[1] \/ (p[1] = q[1] /\ p[2] <= q[2])
      Found(hdr, j) == [ok |-> TRUE, hdr |-> hdr, slot |-> j, entry |-> hdr.entry[j]]
      FoundAt(chain, p) == Found(chain[p[1]], p[2])
      Search(chain, at) == IF at = {} THEN [ok |-> FALSE] ELSE FoundAt(chain, Least(at))
  IN Search(Chain(s, dir), At(Chain(s, dir)))

(* A prefix is enough, and the entry may have been deleted.                 *)
DirGet_Entry(s, dir, str) ==
  LET Is(e) == <<str, e.name>> \in AqMatch
  IN FirstEntry(s, dir, Is)

DirGet_FileEntry(s, dir, str) ==
  LET Is(e) == e.magic /\ e.type = "file" /\ <<str, e.name>> \in AqMatch
  IN FirstEntry(s, dir, Is)

(* Down the components from the current directory; [ok |-> FALSE] is a walk *)
(* through an entry that is not there (a null pointer in the code).         *)
DirGet_Dir(s, cwd, components) ==
  LET Enter(e) == [ok |-> e.ok, dir |-> IF e.ok THEN AqRead(s, e.entry.loc, Zero) ELSE Zero]
  IN FoldLeft(LAMBDA td, str : IF td.ok THEN Enter(DirGet_Entry(s, td.dir, str)) ELSE td,
              [ok |-> TRUE, dir |-> cwd], components)

DirGet_Parent(s, cwd, path) == DirGet_Dir(s, cwd, AqDirs[path])

-----------------------------------------------------------------------------
(* Directories                                                              *)

(* The parent is the current directory itself when the path has one         *)
(* component, and a copy read from the disk otherwise.                      *)
Cwd(cwd, path, parent) == IF AqDirs[path] = <<>> THEN parent ELSE cwd

(* The free entry f becomes that of a new file or directory at l.           *)
EntryFor(f, l, type, name) ==
  [f.hdr EXCEPT !.entry[f.slot].loc = l, !.entry[f.slot].type = type,
                !.entry[f.slot].name = name]

(* Slip: the file's structure is never written.                             *)
CreateNew_File_Unsaved(s, cwd, path) ==
  LET Save(f) == AqWrite(f.s, f.node.loc, f.node)
      Enter(f, l) ==
        IF ~ f.ok THEN [s |-> f.s, cwd |-> cwd]
        ELSE [s |-> Save(SaveEntry(f, EntryFor(f, l, "file", AqLname[path]))),
              cwd |-> Cwd(cwd, path, f.node)]
      In(a, parent) == Enter(DirGet_FreeEntry(a.s, parent.dir), a.loc)
  IN In(AqAlloc(s, 1), DirGet_Parent(s, cwd, path))

(* The entry is saved before the structure it points at, the parent last.   *)
CreateNew_File(s, cwd, path) ==
  LET Save(f, l) == AqWrite(AqWrite(f.s, l, [Zero EXCEPT !.loc = l]), f.node.loc, f.node)
      Enter(f, l) ==
        IF ~ f.ok THEN [s |-> f.s, cwd |-> cwd]
        ELSE [s |-> Save(SaveEntry(f, EntryFor(f, l, "file", AqLname[path])), l),
              cwd |-> Cwd(cwd, path, f.node)]
      In(a, parent) == Enter(DirGet_FreeEntry(a.s, parent.dir), a.loc)
  IN In(AqAlloc(s, 1), DirGet_Parent(s, cwd, path))

(* The same, with a first header and the entry `..' in it (whose type is    *)
(* set after it was saved, and never written).                              *)
CreateNew_Directory(s, cwd, name, parent) ==
  LET Up(n) == DirCreate_NewEntry(n.s, n.node, "..", parent.loc)
      Save(up, l, node) == AqWrite(AqWrite(up.s, l, up.node), node.loc, node)
      Fill(f, l) == Save(Up(DirCreate_NewHeader(f.s, [Zero EXCEPT !.loc = l])), l, f.node)
      Enter(f, l) == IF ~ f.ok THEN [s |-> f.s, node |-> parent]
                     ELSE [s |-> Fill(SaveEntry(f, EntryFor(f, l, "dir", name)), l),
                           node |-> f.node]
      In(a) == Enter(DirGet_FreeEntry(a.s, parent), a.loc)
  IN In(AqAlloc(s, 1))

(* The root: its entries `root', `.' and `..' name itself.                  *)
CreateRoot(s) ==
  LET Entry(n, name, l) == DirCreate_NewEntry(n.s, n.node, name, l)
      AsDir(e) == SaveEntry(e, [e.hdr EXCEPT !.entry[e.slot].type = "dir"])
      Twice(n, l) == AqWrite(AqWrite(n.s, l, n.node), l, n.node)
      Fill(n, l) == Twice(Entry(Entry(AsDir(Entry(n, "root", l)), ".", l), "..", l), l)
      At(a) == AqWrite(Fill(DirCreate_NewHeader(a.s, [Zero EXCEPT !.loc = a.loc]), a.loc),
                       MAIN, [root |-> a.loc])
  IN At(AqAlloc(s, 1))

Unmarked(s, e) ==
  SaveHdr(s, [e.hdr EXCEPT !.entry[e.slot].magic = FALSE,
                           !.used = IF @ = 0 THEN AqTop ELSE @ - 1])

(* Slip: the header's count of used entries stays.                          *)
Delete_File_KeepsCount(s, cwd, path) ==
  LET parent == DirGet_Parent(s, cwd, path).dir
      e == DirGet_FileEntry(s, parent, AqLname[path])
  IN AqWrite(SaveHdr(s, [e.hdr EXCEPT !.entry[e.slot].magic = FALSE]), parent.loc, parent)

(* FileDelete_Headers clears the marks of a copy that is never written.     *)
Delete_File(s, cwd, path) ==
  LET parent == DirGet_Parent(s, cwd, path).dir
      e == DirGet_FileEntry(s, parent, AqLname[path])
  IN AqWrite(Unmarked(s, e), parent.loc, parent)

(* Looks for a file, too, and leaves the parent alone.                      *)
Delete_Dir(s, cwd, path) ==
  Unmarked(s, DirGet_FileEntry(s, DirGet_Parent(s, cwd, path).dir, AqLname[path]))

-----------------------------------------------------------------------------
(* Files                                                                    *)

Sectors(n) == (n + AqUnits - 1) \div AqUnits     \* ROUNDUP(size, 512) / 512

(* n units from position `from' of the file at l, filled up to a sector.    *)
Buffer(l, from, n) ==
  [i \in 1..(Sectors(n) * AqUnits) |-> IF i <= n THEN 1000 * l + from + i ELSE 0]

WriteData(s, l, buf) ==
  FoldLeft(LAMBDA t, i : AqWrite(t, l + i - 1, SubSeq(buf, (i - 1) * AqUnits + 1, i * AqUnits)),
           s, [i \in 1..(Len(buf) \div AqUnits) |-> i])

(* The entry e becomes that of an extent of n units, with the last one.     *)
ExtentFor(e, n) ==
  [e.hdr EXCEPT !.entry[e.slot].spread = Sectors(n), !.entry[e.slot].used = n,
                !.entry[e.slot].next = 0]

Stored(file, from, n, a) == [a EXCEPT !.s = WriteData(a.s, a.loc, Buffer(file.loc, from, n))]

(* lastEntryHdr is null: the file has no data yet.                          *)
AppendFirst(s, file, n) ==
  LET Save(e, node) == [ok |-> TRUE, s |-> AqWrite(e.s, node.loc, node), file |-> node]
      Null(e) == [ok |-> FALSE, s |-> [e.s EXCEPT !.wild = TRUE], file |-> file]
      Fill(e) ==
        IF ~ e.ok THEN Null(e)
        ELSE Save(SaveEntry(e, ExtentFor(e, n)),
                  [e.node EXCEPT !.lastHdr = e.hdr.loc, !.lastOff = 0, !.size = @ + n])
      Extend(h, a) == Fill(FileCreate_NewEntry(a.s, h.node, a.loc))
      Start(h) == Extend(h, Stored(file, 0, n, AqAlloc(h.s, Sectors(n))))
  IN Start(FileCreate_NewHeader(s, file))

(* A new extent behind the last one; the header that the entry came from is *)
(* taken for the header of the old last entry, too (every id is 0).         *)
(* Without a free entry the append ends there, with -7.                     *)
AppendExtent(s, file, from, n) ==
  LET Fill(e) ==
        IF ~ e.ok THEN [ok |-> FALSE, s |-> e.s, file |-> file]
        ELSE [ok |-> TRUE,
              s |-> LET Twice(h) == SaveHdr(SaveHdr(e.s, h), h)
                    IN Twice([ExtentFor(e, n) EXCEPT !.entry[file.lastOff].next = e.slot]),
              file |-> [e.node EXCEPT !.lastHdr = e.hdr.loc, !.lastOff = e.slot]]
      Extend(a) == Fill(FileCreate_NewEntry(a.s, file, a.loc))
  IN Extend(Stored(file, from, n, AqAlloc(s, Sectors(n))))

(* Slip: the old data of the extent's last sector are not read first.       *)
FillLast_Blind(s, file, ie, n) ==
  LET at == ie.loc + (ie.used \div AqUnits)
      kept == ie.used % AqUnits
  IN IF n = 0 THEN [s EXCEPT !.wild = TRUE]
     ELSE AqWrite(s, at, [i \in 1..AqUnits |->
                            IF i \in (kept + 1)..(kept + n)
                            THEN 1000 * file.loc + file.size + i - kept ELSE 0])

(* The rest of the last extent: its last sector is read, filled, written.   *)
(* If the extent is full, a read of 0 sectors is asked for: AqDirect_read   *)
(* goes round for ever (Ahci).                                              *)
FillLast(s, file, ie, n) ==
  LET at == ie.loc + (ie.used \div AqUnits)
      kept == ie.used % AqUnits
      old == AqRead(s, at, [i \in 1..AqUnits |-> 0])
  IN IF n = 0 THEN [s EXCEPT !.wild = TRUE]
     ELSE AqWrite(s, at, [i \in 1..AqUnits |->
                            IF i \in (kept + 1)..(kept + n)
                            THEN 1000 * file.loc + file.size + i - kept ELSE old[i]])

WriteFile_Append(s, file, n) ==
  LET Save(w) == IF w.ok THEN [w EXCEPT !.s = AqWrite(w.s, w.file.loc, w.file)] ELSE w
      Grow(w) == Save([w EXCEPT !.file.size = @ + n])
      Rest(t, fill) == IF n = fill THEN Grow([ok |-> TRUE, s |-> t, file |-> file])
                       ELSE Grow(AppendExtent(t, file, file.size + fill, n - fill))
      Count(t, hdr, fill) ==
        Rest(SaveHdr(t, [hdr EXCEPT !.entry[file.lastOff].used = @ + fill]), fill)
      Fill(hdr, ie, fill) == Count(FillLast(s, file, ie, fill), hdr, fill)
      In(hdr, ie) == Fill(hdr, ie, Min({ie.spread * AqUnits - ie.used, n}))
  IN IF file.lastHdr = Nowhere THEN AppendFirst(s, file, n)
     ELSE In(s.disk[file.lastHdr], s.disk[file.lastHdr].entry[file.lastOff])

(* The entry that holds an address, and the offset in it: along nextOff,    *)
(* always within the first header.                                          *)
FileGet_EntryCA(s, file, address) ==
  LET Along(entry, w) == [e |-> entry[w.e.next], base |-> w.base + w.e.used]
      walk[k \in 0..AqMax] ==
        IF k = 0 THEN [e |-> AqRead(s, file.first, NewHdr(0)).entry[0], base |-> 0]
        ELSE Along(AqRead(s, file.first, NewHdr(0)).entry, walk[k - 1])
      Ends(w) == ~ w.e.magic \/ w.base + w.e.used > address
      At(w) == IF ~ w.e.magic THEN [ok |-> FALSE]
               ELSE [ok |-> TRUE, e |-> w.e, offset |-> address - w.base]
      First(ends) == IF ends = {} THEN [ok |-> FALSE] ELSE At(walk[Min(ends)])
  IN First({k \in 0..AqMax : Ends(walk[k])})

ExtentData(s, e) ==
  [i \in 1..(e.spread * AqUnits) |->
     AqRead(s, e.loc + (i - 1) \div AqUnits, [j \in 1..AqUnits |-> 0])[((i - 1) % AqUnits) + 1]]

(* The first extent from ca on, then those that `next' leads to.            *)
ReadFile(s, file, offset, n) ==
  LET More(e, buf) ==
        [e |-> e, buf |-> buf \o SubSeq(ExtentData(s, e), 1, Min({e.used, n - Len(buf)}))]
      Read(ca) ==
        [e |-> ca.e, buf |-> SubSeq(ExtentData(s, ca.e), ca.offset + 1,
                                    Min({ca.e.used, ca.offset + n}))]
      Whole(entry, ca) ==
        LET read[k \in 0..AqMax] ==
              IF k = 0 THEN Read(ca) ELSE More(entry[read[k - 1].e.next], read[k - 1].buf)
        IN IF ca.ok THEN read[AqMax].buf ELSE <<>>
  IN Whole(AqRead(s, file.first, NewHdr(0)).entry, FileGet_EntryCA(s, file, offset))

-----------------------------------------------------------------------------
(* The operations                                                           *)

State == [disk |-> aqDisk, log |-> <<>>, greatest |-> aqMem.greatest, wild |-> FALSE]

(* s's writes are to come; memory is as it will be after them. A null       *)
(* location, a table below zero or a transfer of nothing ends the           *)
(* behaviour: the memory that is read or overwritten from then on is not    *)
(* part of the model, and the machine has to be started again.              *)
Run(s, mem) ==
  /\ aqTodo' = IF s.wild THEN <<>> ELSE s.log
  /\ aqMem' = [mem EXCEPT !.greatest = s.greatest, !.wild = s.wild]
  /\ UNCHANGED aqDisk

Idle == aqTodo = <<>> /\ ~ aqMem.wild
Mounted == Idle /\ aqMem.up /\ aqTold.calls < AqCalls

Partitioner ==
  /\ Idle /\ ~ aqMem.up /\ ~ aqDisk[MBR].part
  /\ aqTodo' = << <<MBR, [aqDisk[MBR] EXCEPT !.part = TRUE]>> >>
  /\ UNCHANGED <<aqDisk, aqMem, aqTold>>

(* AqAllocInit: the meta table with `greatest', then the allocation table.  *)
AllocInit(s) ==
  [AqWrite(AqWrite(s, META, [greatest |-> AqSpace]), TABLE, [size |-> AqSpace])
     EXCEPT !.greatest = AqSpace]

(* Aq_Save_All: the main header and the meta table, with `greatest'.        *)
Save_All(s) ==
  AqWrite(AqWrite(s, MAIN, AqRead(s, MAIN, [root |-> Nowhere])),
          META, [greatest |-> s.greatest])

(* Bound: a disk is burnt once.                                             *)
burn ==
  LET mbr == << <<MBR, [aqDisk[MBR] EXCEPT !.name = TRUE]>> >>
      Home(s, root) == CreateNew_Directory(s, root, AqHome, root)
      InRoot(s) == Home(s, AqRead(s, s.disk[MAIN].root, Zero))
      Mount(home) == Run(home.s, [aqMem EXCEPT !.up = TRUE, !.cwd = home.node])
  IN /\ Idle /\ ~ aqMem.up /\ aqDisk[MBR].part /\ ~ aqDisk[MBR].name
     /\ Mount(InRoot(Save_All(CreateRoot(AllocInit(
          AqWrite([State EXCEPT !.log = mbr], MAIN, [root |-> Nowhere]))))))
     /\ UNCHANGED aqTold

(* Only the name in the MBR is checked.                                     *)
Checkfs ==
  LET root == AqRead(State, AqRead(State, MAIN, [root |-> Nowhere]).root, Zero)
      meta == AqRead(State, META, [greatest |-> 0])
  IN /\ Idle /\ ~ aqMem.up /\ aqDisk[MBR].name
     /\ aqMem' = [aqMem EXCEPT !.up = TRUE, !.cwd = root, !.greatest = meta.greatest]
     /\ UNCHANGED <<aqDisk, aqTodo, aqTold>>

(* Callers name only directories that are there, and delete what is there.  *)
Reaches(path) == DirGet_Parent(State, aqMem.cwd, path).ok
Finds(path) ==
  /\ Reaches(path)
  /\ DirGet_FileEntry(State, DirGet_Parent(State, aqMem.cwd, path).dir, AqLname[path]).ok

Called == aqTold' = [aqTold EXCEPT !.calls = @ + 1]

CreateFile(path) ==
  LET c == CreateNew_File(State, aqMem.cwd, path)
  IN /\ Mounted /\ Reaches(path)
     /\ Run(c.s, [aqMem EXCEPT !.cwd = c.cwd])
     /\ Called

Unopened(path) == \A h \in AqHandles : aqMem.handle[h].path # path

DeleteFile(path) ==
  /\ Mounted /\ Finds(path) /\ Unopened(path)
  /\ Run(Delete_File(State, aqMem.cwd, path), aqMem)
  /\ Called

DeleteDir(path) ==
  /\ Mounted /\ Finds(path) /\ Unopened(path)
  /\ Run(Delete_Dir(State, aqMem.cwd, path), aqMem)
  /\ Called

(* A path that names nothing gives a virtual handle, whose descriptor is    *)
(* fresh memory, taken as zeros. Callers open a path once at a time.        *)
LoadFile(h, path) ==
  LET parent == DirGet_Parent(State, aqMem.cwd, path).dir
      e == DirGet_FileEntry(State, parent, AqLname[path])
  IN /\ Mounted /\ ~ aqMem.handle[h].open /\ Reaches(path) /\ Unopened(path)
     /\ aqMem' = [aqMem EXCEPT !.handle[h] =
                    [open |-> TRUE, real |-> e.ok, path |-> path,
                     file |-> IF e.ok THEN AqRead(State, e.entry.loc, Zero) ELSE Zero]]
     /\ UNCHANGED <<aqDisk, aqTodo>> /\ Called

CloseFile(h) ==
  LET file == aqMem.handle[h].file
  IN /\ Mounted /\ aqMem.handle[h].open
     /\ Run(AqWrite(Save_All(State), file.loc, file),
            [aqMem EXCEPT !.handle[h] = NoHandle])
     /\ Called

(* The file is created first when the handle is virtual. What callers may   *)
(* rely on grows with the last write, unless an append to this file was cut *)
(* off by a crash before.                                                   *)
WriteFile(h, n) ==
  LET hd == aqMem.handle[h]
      Keep(w, cwd) ==
        /\ Run(w.s, [aqMem EXCEPT !.cwd = cwd, !.handle[h].real = TRUE,
                                  !.handle[h].file = w.file])
        /\ aqTold' = [aqTold EXCEPT !.calls = @ + 1,
                        !.due = IF ~ w.ok \/ w.file.loc \in aqTold.torn THEN @
                                ELSE (w.file.loc :> w.file.size) @@ @]
      Lost(s) == Run([s EXCEPT !.wild = TRUE], aqMem) /\ Called
      To(c, e) ==
        IF c.s.wild \/ ~ e.ok THEN Lost(c.s)
        ELSE Keep(WriteFile_Append(c.s, AqRead(c.s, e.entry.loc, Zero), n), c.cwd)
      New(c) == To(c, DirGet_FileEntry(c.s, DirGet_Parent(c.s, c.cwd, hd.path).dir,
                                       AqLname[hd.path]))
  IN /\ Mounted /\ hd.open /\ hd.file.size + n <= AqLength
     /\ IF hd.real THEN Keep(WriteFile_Append(State, hd.file, n), aqMem.cwd)
        ELSE New(CreateNew_File(State, aqMem.cwd, hd.path))

(* The next write reaches the disk.                                         *)
Step ==
  /\ aqTodo # <<>>
  /\ aqDisk' = (aqTodo[1][1] :> aqTodo[1][2]) @@ aqDisk
  /\ aqTodo' = Tail(aqTodo)
  /\ aqTold' = [aqTold EXCEPT !.told = IF Len(aqTodo) = 1 THEN aqTold.due ELSE @]
  /\ UNCHANGED aqMem

Crash ==
  /\ aqTold.crashes < AqCrashes /\ (aqMem.up \/ aqTodo # <<>>)
  /\ aqTodo' = <<>>
  /\ aqMem' = Down
  /\ aqTold' = [aqTold EXCEPT
                  !.due = aqTold.told, !.crashes = @ + 1,
                  !.torn = @ \cup {l \in DOMAIN aqTold.due :
                                     l \notin DOMAIN aqTold.told
                                     \/ aqTold.told[l] # aqTold.due[l]}]
  /\ UNCHANGED aqDisk

AqNext ==
  \/ Partitioner \/ burn \/ Checkfs \/ Step \/ Crash
  \/ \E p \in AqPaths : CreateFile(p) \/ DeleteFile(p) \/ DeleteDir(p)
                        \/ \E h \in AqHandles : LoadFile(h, p)
  \/ \E h \in AqHandles : CloseFile(h) \/ \E n \in AqSizes : WriteFile(h, n)

AqSpec == AqInit /\ [][AqNext]_aqVars

-----------------------------------------------------------------------------
(* Properties                                                               *)

Disk == [disk |-> aqDisk, log |-> <<>>, greatest |-> 0, wild |-> FALSE]

(* The directories and files that can be found from the root on the disk.   *)
Entries(node) ==
  {c.entry[j] : c \in {Chain(Disk, node)[i] : i \in DOMAIN Chain(Disk, node)},
                j \in 0..(AqMax - 1)}
Root == AqRead(Disk, AqRead(Disk, MAIN, [root |-> Nowhere]).root, Zero)
DirNodes == {Root} \cup {AqRead(Disk, e.loc, Zero) : e \in {x \in Entries(Root) : x.magic /\ x.type = "dir"}}
FileEntries == UNION {{e \in Entries(d) : e.magic /\ e.type = "file"} : d \in DirNodes}
Files == {AqRead(Disk, e.loc, Zero) : e \in FileEntries} \ {Zero}

(* What a node occupies: its structure, its counted headers, its extents.   *)
Parts(node) ==
  LET chain == Chain(Disk, node)
      filled == {p \in (DOMAIN chain) \X (0..(AqMax - 1)) :
                   chain[p[1]].entry[p[2]].magic /\ chain[p[1]].entry[p[2]].spread > 0}
      Extent(e) == e.loc .. (e.loc + e.spread - 1)
  IN {<<node.loc, "node", 0, {node.loc}>>}
     \cup {<<node.loc, "header", i, {chain[i].loc}>> : i \in DOMAIN chain}
     \cup {<<node.loc, "data", p, Extent(chain[p[1]].entry[p[2]])>> : p \in filled}

Owned == UNION {Parts(node) : node \in (DirNodes \cup Files) \ {Zero}}

(* No sector belongs to two structures or extents that can be reached from  *)
(* the root, and none of them is still free in the allocation table, at     *)
(* whatever write a crash came: AqAlloc writes the table before any caller  *)
(* writes to what it was given.                                             *)
AqDisjoint ==
  /\ \A a, b \in Owned : a # b => a[4] \cap b[4] = {}
  /\ \A a \in Owned : a[4] \subseteq (START + TableOf(aqDisk))..(START + AqSpace - 1)

(* Every part of a file that its appends have stored is read back, from     *)
(* every offset and in every length, as it was written, also between the    *)
(* writes of a later append, after a crash there and after later appends    *)
(* (files of one header: Aq_FileGet_NextEntry does not find a second).      *)
AqDurable ==
  \A f \in Files :
    f.loc \in DOMAIN aqTold.told /\ f.headers <= 1 =>
      \A off \in 0..(aqTold.told[f.loc] - 1) : \A n \in 1..(aqTold.told[f.loc] - off) :
        ReadFile(Disk, f, off, n) = [i \in 1..n |-> 1000 * f.loc + off + i]

(* Aq_ListEntrys_direct runs over a header until it has seen usedEntrys     *)
(* entries, and stays inside it only if as many have a mark.  The count is  *)
(* in the header's first sector and a mark may be in a later one, so that a *)
(* crash can part them: each crash puts one header's count off by one at    *)
(* the most, as does the operation that is running, and nothing else does,  *)
(* be it creations and deletions in a header that is off already.           *)
AqCountsMarks ==
  LET Counted == UNION {{Chain(Disk, node)[i] : i \in DOMAIN Chain(Disk, node)} :
                          node \in (DirNodes \cup Files) \ {Zero}}
      Used(h) == IF h.used > AqMax THEN (h.used - AqTop) - 1 ELSE h.used
      Off(h) == Used(h) - Cardinality({j \in DOMAIN h.entry : h.entry[j].magic})
  IN MapThenSumSet(LAMBDA h : IF Off(h) < 0 THEN - Off(h) ELSE Off(h), Counted)
       <= aqTold.crashes + (IF aqTodo = <<>> THEN 0 ELSE 1)

(* The entry of a new file or directory is saved before the structure it    *)
(* names; a crash in between leaves it dangling. No more than one such      *)
(* entry for each crash, and one for the operation that is running.         *)
AqCrashCost ==
  LET named == UNION {{e \in Entries(d) : e.magic} : d \in DirNodes}
  IN Cardinality({e \in named : AqRead(Disk, e.loc, Zero) = Zero})
       <= aqTold.crashes + (IF aqTodo = <<>> THEN 0 ELSE 1)
=============================================================================
