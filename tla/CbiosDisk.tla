---------------------------- MODULE CbiosDisk -----------------------------
(***************************************************************************)
(* CbiosBlk driven by the BDOS (src/Source/CPM22/bdosb01.asm): how drives   *)
(* are selected and logged in, which write type a record gets, and what    *)
(* happens after an error.  The variable want remembers what the BIOS owes  *)
(* its caller: the last record each call accepted, Undef where nothing is   *)
(* owed.  RandomAccess says whether files are written only from the start  *)
(* of a block on, or record by record in any order (function 34).          *)
(***************************************************************************)
EXTENDS CbiosBlk

CONSTANTS Undef,
          DriveA,        \* the drive RSTDSK selects
          DirBlocks,     \* blocks at the start of a drive: the directory
          RandomAccess   \* BOOLEAN

ASSUME ClientAssumption ==
  /\ Undef \notin Val /\ DriveA \in Disk /\ RandomAccess \in BOOLEAN /\ DirBlocks \in Nat

VARIABLES want,     \* [Rec -> Val \cup {Undef}]
          alloc,    \* the data blocks in use: <<drive, block number>>
          logged,   \* the BDOS login vector
          mode      \* "run", "selerr": a select failed, "boot": after WBOOT

cvars == <<want, alloc, logged, mode>>
vars == <<blkvars, cvars>>

Pos(r) == r.trk * SPT + r.sec
BlockOf(r) == <<r.dsk, Pos(r) \div RPB>>
IsDir(r) == Pos(r) \div RPB < DirBlocks
Blocks == {BlockOf(r) : r \in {q \in Rec : ~IsDir(q)}}

TypeOK == /\ BlkTypeOK
          /\ want \in [Rec -> Val \cup {Undef}]
          /\ alloc \subseteq Blocks
          /\ logged \subseteq Disk
          /\ mode \in {"run", "selerr", "boot"}

\* WTSEQ: directory records are type 1; the record for which the BDOS had
\* to allocate a block is type 2, whatever its place in the block.
WriteType(r) == IF IsDir(r) THEN 1
                ELSE IF BlockOf(r) \in alloc THEN 0 ELSE 2

\* A file written sequentially enters a new block at its first record.
MayWrite(r) == RandomAccess \/ WriteType(r) # 2 \/ Pos(r) % RPB = 0

\* What is owed once a call returned: nothing for what it failed to save.
Owed(w) == [r \in Rec |-> IF r \in lost' THEN Undef ELSE w[r]]

---------------------------------------------------------------------------
\* TRKSEC1, then DOREAD.
BdosRead ==
  /\ mode = "run"
  /\ \E t \in Trk, s \in Sec : READ(Seek(t, s))
  /\ want' = Owed(want)
  /\ UNCHANGED <<alloc, logged, mode>>

\* TRKSEC1, then DOWRITE.  The block is in the file's extent even if the
\* write fails: the user may answer the error message with "go on".
BdosWrite ==
  /\ mode = "run"
  /\ \E t \in Trk, s \in Sec, v \in Val :
       LET p == Seek(t, s)
           r == RecOf(p)
       IN /\ MayWrite(r)
          /\ WRITE(p, WriteType(r), v)
          /\ want' = Owed(IF status' = "ok" THEN [want EXCEPT ![r] = v]
                                            ELSE want)
          /\ alloc' = IF IsDir(r) THEN alloc ELSE alloc \cup {BlockOf(r)}
  /\ UNCHANGED <<logged, mode>>

\* HOMEDRV, before every directory search.
BdosHome == mode = "run" /\ HOME /\ UNCHANGED cvars

\* LOGINDRV: E says whether the drive is in the login vector; a failed
\* select ends in SLCTERR, which can only warm boot.
BdosSelect ==
  /\ mode = "run"
  /\ \/ \E d \in Disk : /\ SELDSK(d, d \notin logged)
                        /\ logged' = IF status' = "ok" THEN logged \cup {d}
                                                       ELSE logged
     \/ SELDSKUnmapped /\ UNCHANGED logged
  /\ mode' = IF status' = "ok" THEN "run" ELSE "selerr"
  /\ UNCHANGED <<want, alloc>>

\* A program ends, the user types ^C, or SLCTERR.  The BDOS is not reloaded;
\* its login vector is cleared by the CCP, which starts with a RSTDSK.
BdosReboot == /\ WBOOT
              /\ mode' = "boot"
              /\ UNCHANGED <<want, alloc, logged>>

\* RSTDSK (function 13, called by the CCP or by a program): every drive has to
\* log in again, and DriveA does at once; deblocking is not reset.
BdosReset == /\ mode # "selerr"
             /\ SELDSK(DriveA, TRUE)
             /\ IF status' = "ok" THEN logged' = {DriveA} /\ mode' = "run"
                                  ELSE logged' = {} /\ mode' = "selerr"
             /\ UNCHANGED <<want, alloc>>

\* SETFILE for a file that is erased: a block is free again.  The directory
\* write that ends ERAFILE is a BdosWrite.
BdosErase == /\ mode = "run"
             /\ \E b \in alloc :
                  /\ alloc' = alloc \ {b}
                  /\ want' = [r \in Rec |-> IF BlockOf(r) = b THEN Undef
                                                              ELSE want[r]]
             /\ UNCHANGED <<blkvars, logged, mode>>

Init == /\ BlkInit
        /\ want = [r \in Rec |-> IF IsDir(r) THEN dma ELSE Undef]
        /\ alloc = {} /\ logged = {} /\ mode = "boot"

Next == \/ BdosRead \/ BdosWrite \/ BdosHome \/ BdosSelect \/ BdosReboot \/ BdosReset
        \/ BdosErase

Spec == Init /\ [][Next]_vars
---------------------------------------------------------------------------
\* Where record r lives: the sector of its own drive, and the place in it.
Home(r) == [lba |-> r.dsk, trk |-> r.trk, sec |-> r.sec \div RPS]
OnMedia(r) == media[Home(r)][r.sec % RPS]

\* What a READ of r would deliver now: the buffer's copy, pending or valid,
\* hides the sector on the media.
Visible(r) == IF (hstact \/ hstwrt) /\ Addr(hst) = Home(r)
                THEN buf[r.sec % RPS] ELSE OnMedia(r)

\* Deblocking loses and mixes up nothing: every record still reads as it was
\* last written (BLKRW, the pre-read it skips, BLKFLSH, BLKRES, HOME), in
\* whatever order records, drives and warm boots are interleaved.
Coherent == \A r \in Rec : want[r] # Undef => Visible(r) = want[r]

\* Whatever the power does, only records of the one sector pending in the
\* buffer can be missing from the media (BLKFLSH before BLK_SAV).
OneSectorAtRisk ==
  \A r \in Rec : want[r] # Undef /\ OnMedia(r) # want[r]
                   => hstwrt /\ Addr(hst) = Home(r)

\* A buffer in use stands for a sector of the drive that was selected: the
\* offset 0 a failed DSK_SELECT leaves in SEKLBA never reaches the media.
NoStrayAddress == hstact \/ hstwrt => hst.lba = hst.dsk

\* A READ that reports success delivers the last record written there.
ReadsTheLastWrite ==
  [][BdosRead /\ status' = "ok" /\ want[RecOf(sek')] # Undef
       => dma' = want[RecOf(sek')]]_vars

\* When a directory write reports success, every record accepted before it
\* is on the media: the directory never runs ahead of the data.
DirectoryIsBarrier ==
  [][BdosWrite /\ IsDir(RecOf(sek')) /\ status' = "ok"
       => \A r \in Rec : want'[r] # Undef => OnMedia(r)' = want'[r]]_vars

\* A sequential fill only ever expects records nothing is owed about, so
\* that skipping the pre-read (WRTYPE = 2) cannot destroy any.
FillIsFresh ==
  unacnt > 0 =>
    \A r \in Rec : /\ r.dsk = una.dsk
                   /\ Pos(r) \in Pos(una)..(Pos(una) + unacnt - 1)
                   => want[r] = Undef

\* The BIOS implements the abstract store of records.
Store == INSTANCE RecordDisk WITH
           store <- [r \in Rec |-> IF want[r] = Undef THEN Undef
                                                      ELSE Visible(r)],
           ok <- (status = "ok")
ImplementsStore == Store!Spec
============================================================================
