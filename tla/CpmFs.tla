------------------------------- MODULE CpmFs -------------------------------
(***************************************************************************)
(* The CP/M file system of the tools that build the disk images            *)
(* (Tools/unix/cpmtools): cpmcp, which copies files onto an image, cpmrm   *)
(* and cpmchattr.  One tool runs at a time.  It reads the directory into   *)
(* memory and computes from it which blocks are taken; data go to the      *)
(* image at once, the directory when the tool ends, block by block.  A     *)
(* tool may be killed between any two writes, and a write may fail.        *)
(*                                                                         *)
(* Positions are counted in cells: a record (128 bytes), a sector, a block *)
(* and a logical extent (16384 bytes) are some number of cells.  Cell p of *)
(* the file copied as n holds <<n, p>>, so that one always knows whose     *)
(* data one reads.  User numbers are part of the name.                     *)
(***************************************************************************)
EXTENDS Integers, FiniteSets, FiniteSetsExt

CONSTANTS
    Names,          \* file names
    MaxDir,         \* maxdir: the directory entries
    DirPerBlock,    \* directory entries in a block
    DiskSize,       \* size: the blocks of the image
    Pointers,       \* block pointers of an entry: 16, or 8 of two bytes
    Blk, Sec, Rec,  \* cells of a block, a sector, a record
    Lx,             \* cells of a logical extent
    Buf,            \* cells cpmcp hands to cpmWrite at a time
    MaxLen,         \* bound: cells copied into a file
    Sessions,       \* bound: tools run
    Faults,         \* bound: reads and writes that fail, and tools killed
    Free, Zero, Junk, NoFile

ASSUME CpmFsSizes ==
    /\ {MaxDir, DirPerBlock, DiskSize, Pointers, Blk, Sec, Rec, Lx, Buf} \subseteq Nat \ {0}
    /\ MaxLen \in Nat /\ Sessions \in Nat /\ Faults \in Nat
    /\ Blk % Sec = 0 /\ Lx % Blk = 0 /\ Lx % Rec = 0 /\ Lx % Buf = 0
    /\ (Pointers * Blk) % Lx = 0
    /\ MaxDir <= DirPerBlock * DiskSize
    /\ Free \notin Names

Phys    == Pointers * Blk           \* extcap: cells of a directory entry
Extents == Phys \div Lx             \* logical extents of an entry
Slots   == 0..MaxDir - 1
Blocks  == 0..DiskSize - 1
Offsets == 0..Blk - 1
Ceil(a, b) == (a + b - 1) \div b
DirBlocks  == 0..Ceil(MaxDir, DirPerBlock) - 1
DataBlocks == Blocks \ DirBlocks

VARIABLES
    image,      \* [dir, data]: the image file
    dir,        \* sb->dir, the directory in memory
    alv,        \* sb->alv, the blocks taken
    dirty,      \* sb->dirtyDirectory
    tool,       \* the tool that runs: "none", "cp", "text" (cpmcp -t), "rm", "attr"
    file,       \* the file being copied: cpmFile, and the locals of cpmWrite
    sync,       \* the next directory block cpmSync writes, -1 before it
    touched,    \* history: names the tool was run for
    copied,     \* history: what was copied in this run without an error
    lost,       \* history: a write failed in this run
    runs, bad, kills    \* bounds: tools run, reads or writes that failed, tools killed

fsVars == <<image, dir, alv, dirty, tool, file, sync, touched, copied, lost, runs, bad, kills>>

NoEntry == [name |-> Free, ext |-> 0, blkcnt |-> 0, lrc |-> 0, ro |-> FALSE,
            ptr |-> [i \in 0..Pointers - 1 |-> 0]]

------------------------------------------------------------------------------
(* The directory.                                                           *)

Live(d) == {s \in Slots : d[s].name # Free}
Named(d, s) == {d[s].ptr[i] : i \in 0..Pointers - 1} \ {0}

\* Mutants of AlvInit: the last pointer of an entry forgotten, the blocks of the
\* directory forgotten.
AlvInitShort(d) ==
    DirBlocks \cup ({d[s].ptr[i] : s \in Live(d), i \in 0..Pointers - 2} \ {0})
AlvInitFilesOnly(d) == (UNION {Named(d, s) : s \in Live(d)}) \cap Blocks

\* alvInit: the blocks of the directory and those the entries point to.
AlvInit(d) == DirBlocks \cup ((UNION {Named(d, s) : s \in Live(d)}) \cap Blocks)

FileExtents(d, n) == {s \in Slots : d[s].name = n}

\* findFileExtent for one extent number: which part of an entry it is does
\* not matter.
FindFileExtent(d, n, extno) ==
    {s \in FileExtents(d, n) : d[s].ext \div Extents = extno \div Extents}

FindFreeExtent(d) == Min({s \in Slots : d[s].name = Free})
DirectoryFull(d)  == \A s \in Slots : d[s].name # Free

AllocBlock(a) == Min(Blocks \ a)
DeviceFull(a) == Blocks \subseteq a

\* cpmNamei: the size of a file comes from the entry with the highest extent
\* number, and its inode is the entry with the lowest one.
Highest(d, n) == CHOOSE s \in FileExtents(d, n) : \A t \in FileExtents(d, n) : d[t].ext <= d[s].ext
Lowest(d, n)  == CHOOSE s \in FileExtents(d, n) : \A t \in FileExtents(d, n) : d[s].ext <= d[t].ext
SizeOf(d, n) ==
    LET e == d[Highest(d, n)] IN
    e.ext * Lx + (IF e.blkcnt # 0 THEN (e.blkcnt - 1) * Rec ELSE 0)
               + (IF e.lrc # 0 THEN e.lrc ELSE Rec)

\* cpmRead, a cell at a time: what has no entry or no block reads as zero.
ReadCell(d, data, n, p) ==
    LET x == FindFileExtent(d, n, p \div Lx)
        b == d[Min(x)].ptr[(p % Phys) \div Blk]
    IN  IF x = {} \/ b = 0 THEN Zero ELSE data[b][p % Blk]
Contents(d, data, n) ==
    IF FileExtents(d, n) = {} THEN NoFile
    ELSE [p \in 0..SizeOf(d, n) - 1 |-> ReadCell(d, data, n, p)]
OnImage(n) == Contents(image.dir, image.data, n)

MayFail == bad + kills < Faults
Nothing == [n \in Names |-> NoFile]

------------------------------------------------------------------------------
(* A tool starts: Device_open, cpmReadSuper.                                *)

Start(t) ==
    /\ tool = "none" /\ runs < Sessions
    /\ tool' = t /\ runs' = runs + 1
    /\ dir' = image.dir /\ alv' = AlvInit(image.dir) /\ dirty' = FALSE
    /\ file' = NoFile /\ sync' = -1
    /\ touched' = {} /\ copied' = Nothing /\ lost' = FALSE
    /\ UNCHANGED <<image, bad, kills>>

------------------------------------------------------------------------------
(* cpmcp, from a file of the host to the image.                             *)

Copying == tool \in {"cp", "text"}

Idle == file = NoFile /\ sync = -1

\* Mutant: the directory is not marked as changed.
CpmCreatClean(n) ==
    /\ Copying /\ Idle
    /\ FileExtents(dir, n) = {} /\ ~DirectoryFull(dir)
    /\ touched' = touched \cup {n}
    /\ LET s == FindFreeExtent(dir) IN
            /\ dir' = [dir EXCEPT ![s] = [NoEntry EXCEPT !.name = n]]
            /\ file' = [ino |-> s, name |-> n, pos |-> 0, count |-> 0, eof |-> FALSE,
                        extent |-> -1, extentno |-> -1]
    /\ UNCHANGED <<image, alv, dirty, tool, sync, copied, lost, runs, bad, kills>>
\* cpmCreat and cpmOpen.  When the file exists, or the directory is full, there
\* is an error message, and nothing changes.
CpmCreat(n) ==
    /\ Copying /\ Idle
    /\ FileExtents(dir, n) = {} /\ ~DirectoryFull(dir)
    /\ touched' = touched \cup {n}
    /\ LET s == FindFreeExtent(dir) IN
            /\ dir' = [dir EXCEPT ![s] = [NoEntry EXCEPT !.name = n]]
            /\ dirty' = TRUE
            /\ file' = [ino |-> s, name |-> n, pos |-> 0, count |-> 0, eof |-> FALSE,
                        extent |-> -1, extentno |-> -1]
    /\ UNCHANGED <<image, alv, tool, sync, copied, lost, runs, bad, kills>>

\* The next buffer.  The loop fills half of buf; in text mode a newline
\* becomes two cells, the second of which may be one too many, and the last
\* buffer ends in an end mark.
FullBuffers == IF tool = "text" THEN {Buf, Buf + 1} ELSE {Buf}
LastBuffers == IF tool = "text" THEN 1..Buf ELSE 0..Buf - 1
NextBuffer ==
    /\ Copying /\ file # NoFile /\ file.count = 0 /\ ~file.eof
    /\ \E e \in BOOLEAN : \E c \in IF e THEN LastBuffers ELSE FullBuffers :
          /\ file.pos + c <= MaxLen
          /\ file' = [file EXCEPT !.count = c, !.eof = e, !.extent = -1]
    /\ UNCHANGED <<image, dir, alv, dirty, tool, sync, touched, copied, lost, runs, bad, kills>>

Writing == Copying /\ file # NoFile /\ file.count > 0

\* cpmWrite, the entry for the position (findext): the one it has, or a free
\* one, a copy of the inode's entry without its blocks.
NeedsEntry == file.extent = -1 /\ FindFileExtent(dir, file.name, file.pos \div Lx) = {}
EntryNumber == IF file.extent = -1 THEN file.pos \div Lx ELSE file.extentno
Entry ==
    IF file.extent # -1 THEN file.extent
    ELSE IF NeedsEntry THEN FindFreeExtent(dir)
    ELSE Min(FindFileExtent(dir, file.name, file.pos \div Lx))
\* Mutant: the copy keeps the blocks of the inode's entry.
WithEntryKept ==
    IF NeedsEntry
    THEN [dir EXCEPT ![Entry] = [dir[file.ino] EXCEPT !.ext = EntryNumber, !.blkcnt = 0, !.lrc = 0]]
    ELSE dir
WithEntry ==
    IF NeedsEntry
    THEN [dir EXCEPT ![Entry] = [dir[file.ino] EXCEPT !.ptr = NoEntry.ptr, !.ext = EntryNumber,
                                                      !.blkcnt = 0, !.lrc = 0]]
    ELSE dir

\* A return of cpmWrite short of the count: cpmcp leaves the file as it is.
GiveUp == file' = NoFile /\ UNCHANGED <<tool, sync, touched, copied, runs>>

WriteDirectoryFull ==
    /\ Writing /\ NeedsEntry /\ DirectoryFull(dir)
    /\ GiveUp
    /\ UNCHANGED <<image, dir, alv, dirty, lost, bad, kills>>

Pointer == (file.pos % Phys) \div Blk
HasBlock == WithEntry[Entry].ptr[Pointer] # 0

WriteDeviceFull ==
    /\ Writing /\ ~(NeedsEntry /\ DirectoryFull(dir))
    /\ ~HasBlock /\ DeviceFull(alv)
    /\ dir' = WithEntry
    /\ GiveUp
    /\ UNCHANGED <<image, alv, dirty, lost, bad, kills>>

\* The sectors of a block the rest of the call covers, and those of them read
\* before they are written.
InBlock == file.pos % Blk
FirstSector == InBlock \div Sec
LastSector  == (IF InBlock + file.count > Blk THEN Blk - 1 ELSE InBlock + file.count - 1) \div Sec
\* Mutant: a sector written in part is not read first.
ReadBeforeNever == {}
ReadBefore ==
    (IF file.pos % Sec # 0 THEN {FirstSector} ELSE {}) \cup
    (IF LastSector # FirstSector /\ file.pos + file.count - 1 < Blk THEN {LastSector} ELSE {})

Piece == Min({file.count, Blk - InBlock})

\* What writeBlock leaves in the block: the piece, around it zeros in a new
\* block, and in an old one what was there, as far as it was read or is in
\* other sectors; the rest is whatever the buffer held.
NewData(old) ==
    [o \in Offsets |->
        IF o \in InBlock .. InBlock + Piece - 1
        THEN <<file.name, file.pos - InBlock + o>>
        ELSE IF ~HasBlock THEN Zero
        ELSE IF (o \div Sec) \in FirstSector..LastSector /\ (o \div Sec) \notin ReadBefore
        THEN Junk ELSE old[o]]

\* The entry after the piece: extent number, records and bytes.
Recorded(e, b, pos) ==
    [e EXCEPT !.ptr[Pointer] = b, !.ext = EntryNumber,
              !.blkcnt = (((pos - 1) % Lx) \div Rec) + 1, !.lrc = pos % Rec]

\* Up to the next end of a block.  The result of writeBlock is ignored.
WritePiece ==
    /\ Writing /\ ~(NeedsEntry /\ DirectoryFull(dir))
    /\ HasBlock \/ ~DeviceFull(alv)
    /\ LET b   == IF HasBlock THEN WithEntry[Entry].ptr[Pointer] ELSE AllocBlock(alv)
           pos == file.pos + Piece
       IN  /\ alv' = alv \cup {b}
           /\ dir' = [WithEntry EXCEPT ![Entry] = Recorded(@, b, pos)]
           /\ \/ /\ image' = [image EXCEPT !.data[b] = NewData(@)]
                 /\ UNCHANGED <<lost, bad, kills>>
              \/ /\ MayFail /\ bad' = bad + 1 /\ UNCHANGED kills /\ lost' = TRUE
                 /\ UNCHANGED image
           /\ file' = [file EXCEPT !.pos = pos, !.count = @ - Piece, !.extentno = EntryNumber,
                                   !.extent = IF pos % Phys = 0 THEN -1 ELSE Entry]
    /\ dirty' = TRUE
    /\ UNCHANGED <<tool, sync, touched, copied, runs>>

\* readBlock fails: cpmWrite returns what it has written.
WriteReadFails ==
    /\ Writing /\ ~(NeedsEntry /\ DirectoryFull(dir))
    /\ HasBlock /\ ReadBefore # {}
    /\ MayFail /\ bad' = bad + 1 /\ UNCHANGED kills /\ lost' = TRUE
    /\ GiveUp
    /\ UNCHANGED <<image, dir, alv, dirty>>

\* The last buffer is written: cpmClose, fclose.
Copied ==
    /\ Copying /\ file # NoFile /\ file.count = 0 /\ file.eof
    /\ copied' = [copied EXCEPT ![file.name] = [len |-> file.pos, number |-> file.extentno]]
    /\ file' = NoFile
    /\ UNCHANGED <<image, dir, alv, dirty, tool, sync, touched, lost, runs, bad, kills>>

------------------------------------------------------------------------------
(* cpmrm and cpmchattr.                                                     *)

\* Mutant: the allocation vector is left as it is.
CpmUnlinkKeeps(n) ==
    /\ tool = "rm" /\ sync = -1 /\ FileExtents(dir, n) # {}
    /\ dir' = [s \in Slots |-> IF dir[s].name = n THEN [dir[s] EXCEPT !.name = Free] ELSE dir[s]]
    /\ dirty' = TRUE
    /\ touched' = touched \cup {n}
    /\ UNCHANGED <<image, alv, tool, file, sync, copied, lost, runs, bad, kills>>

CpmUnlink(n) ==
    /\ tool = "rm" /\ sync = -1 /\ FileExtents(dir, n) # {}
    /\ dir' = [s \in Slots |-> IF dir[s].name = n THEN [dir[s] EXCEPT !.name = Free] ELSE dir[s]]
    /\ alv' = AlvInit(dir')
    /\ dirty' = TRUE
    /\ touched' = touched \cup {n}
    /\ UNCHANGED <<image, tool, file, sync, copied, lost, runs, bad, kills>>

\* cpmNamei and cpmAttrSet, which goes from the entry of the inode to the end
\* of the directory.
CpmAttrSet(n, ro) ==
    /\ tool = "attr" /\ sync = -1 /\ FileExtents(dir, n) # {}
    /\ dir' = [s \in Slots |-> IF dir[s].name = n /\ s >= Lowest(dir, n)
                               THEN [dir[s] EXCEPT !.ro = ro] ELSE dir[s]]
    /\ dirty' = TRUE
    /\ touched' = touched \cup {n}
    /\ UNCHANGED <<image, alv, tool, file, sync, copied, lost, runs, bad, kills>>

------------------------------------------------------------------------------
(* The end: cpmUmount, cpmSync.                                             *)

\* The tool has ended, its memory is gone.
Ended ==
    /\ tool' = "none" /\ file' = NoFile /\ sync' = -1
    /\ dir' = [s \in Slots |-> NoEntry] /\ alv' = {} /\ dirty' = FALSE /\ touched' = {}

Umount ==
    /\ tool # "none" /\ Idle
    /\ IF dirty THEN sync' = 0 /\ UNCHANGED <<tool, file, dir, alv, dirty, touched>>
                ELSE Ended
    /\ UNCHANGED <<image, copied, lost, runs, bad, kills>>

SlotsOf(i) == {s \in Slots : s \div DirPerBlock = i}

SyncBlock ==
    /\ sync \in DirBlocks
    /\ image' = [image EXCEPT !.dir = [s \in Slots |-> IF s \in SlotsOf(sync) THEN dir[s] ELSE @[s]]]
    /\ IF sync + 1 \in DirBlocks
       THEN sync' = sync + 1 /\ UNCHANGED <<tool, file, dir, alv, dirty, touched>>
       ELSE Ended
    /\ UNCHANGED <<copied, lost, runs, bad, kills>>

\* A write of the directory fails: cpmSync returns, cpmUmount does not look.
SyncFails ==
    /\ sync \in DirBlocks
    /\ MayFail /\ bad' = bad + 1 /\ lost' = TRUE /\ UNCHANGED kills
    /\ Ended
    /\ copied' = Nothing
    /\ UNCHANGED <<image, runs>>

\* The tool is killed.
Killed ==
    /\ tool # "none"
    /\ MayFail /\ kills' = kills + 1
    /\ Ended
    /\ lost' = TRUE /\ copied' = Nothing
    /\ UNCHANGED <<image, runs, bad>>

------------------------------------------------------------------------------
\* mkfs.cpm: an image without files.
FsInit ==
    /\ image = [dir |-> [s \in Slots |-> NoEntry],
                data |-> [b \in Blocks |-> [o \in Offsets |-> Junk]]]
    /\ dir = image.dir /\ alv = {} /\ dirty = FALSE
    /\ tool = "none" /\ file = NoFile /\ sync = -1
    /\ touched = {} /\ copied = Nothing /\ lost = FALSE
    /\ runs = 0 /\ bad = 0 /\ kills = 0

FsNext ==
    \/ \E t \in {"cp", "text", "rm", "attr"} : Start(t)
    \/ \E n \in Names : CpmCreat(n)
    \/ NextBuffer
    \/ WriteDirectoryFull \/ WriteDeviceFull \/ WritePiece \/ WriteReadFails
    \/ Copied
    \/ \E n \in Names : CpmUnlink(n)
    \/ \E n \in Names, ro \in BOOLEAN : CpmAttrSet(n, ro)
    \/ Umount \/ SyncBlock \/ SyncFails \/ Killed

FsSpec == FsInit /\ [][FsNext]_fsVars

------------------------------------------------------------------------------
(* Properties.                                                              *)

EntryType == [name : Names \cup {Free}, ext : 0..MaxLen \div Lx, blkcnt : 0..Lx \div Rec,
              lrc : 0..Rec - 1, ro : BOOLEAN, ptr : [0..Pointers - 1 -> {0} \cup DataBlocks]]

\* Types: a directory entry never counts more records than an extent has, and
\* points to blocks behind the directory only.
FsTypeOK ==
    /\ image.dir \in [Slots -> EntryType] /\ dir \in [Slots -> EntryType]
    /\ \A b \in Blocks : DOMAIN image.data[b] = Offsets
    /\ alv \subseteq Blocks /\ dirty \in BOOLEAN /\ lost \in BOOLEAN
    /\ tool \in {"none", "cp", "text", "rm", "attr"} /\ sync \in {-1} \cup DirBlocks
    /\ touched \subseteq Names /\ runs \in 0..Sessions /\ bad \in 0..Faults /\ kills \in 0..Faults
    /\ file # NoFile => /\ file.ino \in Slots /\ file.name \in Names /\ file.pos \in 0..MaxLen
                        /\ file.extent \in {-1} \cup Slots

\* The places of a directory that point to a block.
PointersOf(d) == {p \in Slots \X (0..Pointers - 1) : d[p[1]].name # Free /\ d[p[1]].ptr[p[2]] # 0}
Apart(d) == \A p, q \in PointersOf(d) : d[p[1]].ptr[p[2]] = d[q[1]].ptr[q[2]] => p = q

\* cpm.5: "A file may not share blocks with other files", nor with itself, nor
\* have two entries for one part.  So it is on the image at every moment: in
\* the middle of cpmSync, and after a tool was killed or a write failed.
ImageSound ==
    /\ Apart(image.dir)
    /\ \A s, t \in Live(image.dir) :
          /\ image.dir[s].name = image.dir[t].name
          /\ image.dir[s].ext \div Extents = image.dir[t].ext \div Extents
          => s = t

\* While a tool runs, the allocation vector is exact: no block of a file in the
\* directory is free, and none is lost when writing stops half way, or after
\* files were removed.
AlvExact == tool # "none" => alv = DirBlocks \cup UNION {Named(dir, s) : s \in Live(dir)}

\* No two files ever get one block, now or by the next allocation.
SpaceSound == ImageSound /\ AlvExact

Prefix(n, len) == [p \in 0..len - 1 |-> <<n, p>>]

\* A call of cpmWrite that begins in one logical extent and ends in the next of
\* the same entry records the number of the first: the file is then too short
\* by a logical extent, until more is written.
Recognised(n, len, number) ==
    IF len = 0 THEN [p \in 0..Rec - 1 |-> Zero]
    ELSE Prefix(n, IF number = (len - 1) \div Lx THEN len ELSE len - Lx)

\* What cpmWrite has written is what cpmRead would give, over all partial
\* sectors and blocks, and new blocks and entries; an empty file reads as one
\* record of zeros.
ReadBack ==
    Copying /\ file # NoFile /\ ~lost
        => Contents(dir, image.data, file.name) = Recognised(file.name, file.pos, file.extentno)

\* Writing is faithful all along, and when cpmcp has ended, was not killed and no
\* write failed, every file it did not complain about is on the image.
Delivered ==
    /\ ReadBack
    /\ tool = "none" /\ ~lost =>
         \A n \in Names : copied[n] # NoFile
             => OnImage(n) = Recognised(n, copied[n].len, copied[n].number)

\* As long as no write failed, nobody ever reads the data of another file, or
\* of another place of the file, off the image, whatever was removed, given up
\* for want of space or interrupted before.
OwnData ==
    bad = 0 => \A n \in Names : OnImage(n) # NoFile =>
                  \A p \in DOMAIN OnImage(n) : OnImage(n)[p] \in {Zero, <<n, p>>}

\* A tool changes nothing in the files it was not called for, at no step, also
\* when it is killed and when writes fail.
Bystanders ==
    [][\A n \in Names : n \notin touched => OnImage(n)' = OnImage(n)]_fsVars
=============================================================================
