----------------------------- MODULE CbiosBlk -----------------------------
(***************************************************************************)
(* The disk half of the CP/M 2.2 BIOS (src/Source/CBIOS/cbios.asm): the    *)
(* seek variables the BDOS sets, drive selection, and the blocking and     *)
(* deblocking of 128-byte records into the one 512-byte sector buffer.     *)
(* It is the WBW build with WRTCACHE on, the only one the makefiles build. *)
(*                                                                         *)
(* A record is [dsk, trk, sec]; a slice of a disk is named by its drive,   *)
(* and Raw stands for the LBA offset 0 that a drive has before its first   *)
(* successful login.  HBIOS calls that fail do so nondeterministically.    *)
(***************************************************************************)
EXTENDS Integers, FiniteSets

CONSTANTS Disk,     \* the drives in the drive map
          Raw,      \* LBA offset of a drive that never logged in
          Val,      \* contents of a record
          Tracks,   \* tracks of a slice
          SPT,      \* records on a track (DPB.SPT)
          RPS,      \* records in a sector buffer: 4 in the code
          RPB       \* records in an allocation block (byte before the DPB)

ASSUME GeometryAssumption ==
  /\ Tracks \in Nat \ {0} /\ RPS \in Nat \ {0}
  /\ SPT \in Nat \ {0} /\ SPT % RPS = 0
  /\ RPB \in Nat \ {0} /\ RPB % RPS = 0
  /\ Raw \notin Disk /\ Disk # {} /\ Val # {}

VARIABLES
  sek,      \* [dsk, trk, sec, lba]: what the BDOS asked for (SEK...)
  dphlba,   \* LBAOFF of each drive's DPH
  hst,      \* [dsk, trk, sec, lba]: the sector the buffer stands for (HST...)
  hstact,   \* the buffer holds that sector
  hstwrt,   \* the buffer is dirty
  buf,      \* DSKBUF
  una,      \* [dsk, trk, sec]: the record a sequential fill writes next
  unacnt,   \* records left in the fill
  dma,      \* the record at DMAADR
  status,   \* register A of the last READ, WRITE or SELDSK
  media,    \* the sectors of the slices
  lost      \* the records whose cached contents the last call failed to save

blkvars == <<sek, dphlba, hst, hstact, hstwrt, buf, una, unacnt, dma,
             status, media, lost>>

Trk == 0..(Tracks - 1)
Sec == 0..(SPT - 1)
Rec == [dsk : Disk, trk : Trk, sec : Sec]
Lba == Disk \cup {Raw}
Sector == [lba : Lba, trk : Trk, sec : 0..((SPT \div RPS) - 1)]
Slot == 0..(RPS - 1)
Seeks == [dsk : Disk, trk : Trk, sec : Sec, lba : Lba]
Buffered == [dsk : Disk, trk : Trk, sec : 0..((SPT \div RPS) - 1), lba : Lba]
\* UNA_INC steps past the last record of the slice, so UNATRK may be Tracks.
UnaPos == [dsk : Disk, trk : 0..Tracks, sec : Sec]

BlkTypeOK ==
  /\ sek \in Seeks
  /\ dphlba \in [Disk -> Lba]
  /\ hst \in Buffered
  /\ hstact \in BOOLEAN /\ hstwrt \in BOOLEAN
  /\ buf \in [Slot -> Val]
  /\ una \in UnaPos /\ unacnt \in 0..RPB
  /\ dma \in Val /\ status \in {"ok", "err"}
  /\ media \in [Sector -> [Slot -> Val]]
  /\ lost \in SUBSET Rec

---------------------------------------------------------------------------
\* The seek variables as SETTRK and SETSEC leave them.  The BDOS calls both
\* before each transfer (TRKSEC1), so they are part of the transfer here.
Seek(t, s) == [sek EXCEPT !.trk = t, !.sec = s]

\* BLK_XLT: the sector of the record sought.  Shifting SEKSEC right twice is
\* a division by RPS.
Xlt(p) == [dsk |-> p.dsk, trk |-> p.trk, sec |-> p.sec \div RPS,
           lba |-> p.lba]
\* DSK_IO: where on the media a buffer goes: the drive letter plays no part.
Addr(h) == [lba |-> h.lba, trk |-> h.trk, sec |-> h.sec]
\* BLK_SETUP: the place of the record in the buffer.
Index(p) == p.sec % RPS
\* Bug: the drive is not compared.
CachedAnyDrive(p) == hstact /\ hst.trk = p.trk /\ hst.sec = p.sec \div RPS
\* BLK_CMP: XLTACT is always true, so an invalid buffer never matches.
Cached(p) == hstact /\ hst = Xlt(p)

RecOf(p) == [dsk |-> p.dsk, trk |-> p.trk, sec |-> p.sec]
SectorRecs(h) == {r \in Rec : /\ r.dsk = h.dsk /\ r.trk = h.trk
                              /\ r.sec \div RPS = h.sec}

\* Bug: a buffer that is not active is not flushed.
FlushedIfActive ==
  IF hstact /\ hstwrt THEN [media EXCEPT ![Addr(hst)] = buf] ELSE media
\* The media after BLKFLSH.
Flushed == IF hstwrt THEN [media EXCEPT ![Addr(hst)] = buf] ELSE media

\* Bug: whatever is in the buffer will do.
LoadedIfActive(p, skip) ==
  IF hstact \/ skip THEN buf ELSE Flushed[Addr(Xlt(p))]
\* The buffer when BLKRW gets to BLKRW6; skip: no pre-read (WRTYPE = 2).
Loaded(p, skip) ==
  IF Cached(p) \/ skip THEN buf ELSE Flushed[Addr(Xlt(p))]

\* Bug: the error of the pending write is not returned.
FlushFailsQuietly(p) ==
  /\ ~Cached(p) /\ hstwrt
  /\ hstwrt' = FALSE /\ media' \in {media, Flushed} /\ lost' = SectorRecs(hst)
  /\ status' = "ok"
  /\ UNCHANGED <<hst, hstact, buf>>

\* BLKRW4: the pending write fails.  The dirty flag is cleared all the same
\* and the buffer keeps its sector; the media may or may not have changed.
FlushFails(p) ==
  /\ ~Cached(p) /\ hstwrt
  /\ hstwrt' = FALSE
  /\ media' \in {media, Flushed}
  /\ lost' = SectorRecs(hst)
  /\ status' = "err"
  /\ UNCHANGED <<hst, hstact, buf>>

\* BLKRW4: the pending write is done and the read fails: BLKRES.
LoadFails(p, skip) ==
  /\ ~Cached(p) /\ ~skip
  /\ media' = Flushed
  /\ hst' = Xlt(p) /\ hstact' = FALSE /\ hstwrt' = FALSE
  /\ buf' \in {buf, Flushed[Addr(Xlt(p))]}
  /\ lost' = {}
  /\ status' = "err"

\* BLKRW4 to BLKRW6 without error; a dirty buffer that matches stays dirty.
LoadWorks(p) == /\ media' = IF Cached(p) THEN media ELSE Flushed
                /\ hst' = Xlt(p) /\ hstact' = TRUE
                /\ lost' = {}
                /\ status' = "ok"

\* READ: ends any sequential fill, then delivers the record.
READ(p) ==
  /\ \/ FlushFails(p) /\ UNCHANGED dma
     \/ LoadFails(p, FALSE) /\ UNCHANGED dma
     \/ /\ LoadWorks(p)
        /\ hstwrt' = (Cached(p) /\ hstwrt)
        /\ buf' = Loaded(p, FALSE)
        /\ dma' = Loaded(p, FALSE)[Index(p)]
  /\ sek' = p
  /\ unacnt' = 0
  /\ UNCHANGED <<dphlba, una>>
---------------------------------------------------------------------------
\* Bug: no wrap at the end of the track.
UnaNextStraight(u) == [u EXCEPT !.sec = u.sec + 1]

\* UNA_INC: the record after u, wrapping at the end of the track.
UnaNext(u) ==
  LET wrap == u.sec + 1 = SPT
  IN [dsk |-> u.dsk,
      trk |-> IF wrap THEN u.trk + 1 ELSE u.trk,
      sec |-> IF wrap THEN 0 ELSE u.sec + 1]

\* UNA_INI: a write of type 2 starts a fill of a whole block where it is.
UnaStart(p, wt) == IF wt = 2 THEN [pos |-> RecOf(p), cnt |-> RPB]
                             ELSE [pos |-> una, cnt |-> unacnt]

\* Bug: any write continues a fill.
SequentialAnywhere(p, wt) == wt # 1 /\ UnaStart(p, wt).cnt > 0

\* UNA_CHK: this write continues a fill.  A directory write never does.
Sequential(p, wt) == LET u == UnaStart(p, wt)
                     IN wt # 1 /\ u.cnt > 0 /\ u.pos = RecOf(p)

\* Bug: a write elsewhere does not end the fill.
TrackOn(p, wt) ==
  LET u == UnaStart(p, wt)
  IN IF Sequential(p, wt)
       THEN una' = UnaNext(u.pos) /\ unacnt' = u.cnt - 1
       ELSE una' = u.pos /\ unacnt' = u.cnt

\* The tracking BLKRW1 to BLKRW3 leave behind.
Track(p, wt) ==
  LET u == UnaStart(p, wt)
  IN IF Sequential(p, wt)
       THEN una' = UnaNext(u.pos) /\ unacnt' = u.cnt - 1
       ELSE una' = u.pos /\ unacnt' = 0

\* Bug: a directory write is left in the buffer.
ForceOutLater(p, m, b) == media' = m /\ lost' = {} /\ status' = "ok"

\* BLKRW7 for a directory write: BLKFLSH at once, whose status is returned.
\* m is the media once the buffer was loaded, b the buffer with the record in.
ForceOut(p, m, b) ==
  \/ /\ media' = [m EXCEPT ![Addr(Xlt(p))] = b]
     /\ lost' = {} /\ status' = "ok"
  \/ /\ media' \in {m, [m EXCEPT ![Addr(Xlt(p))] = b]}
     /\ lost' = SectorRecs(Xlt(p)) /\ status' = "err"

\* SETDMA and WRITE of v, with type wt: 0 allocated, 1 directory, 2 first in
\* a new block.
WRITE(p, wt, v) ==
  /\ \/ FlushFails(p)
     \/ LoadFails(p, Sequential(p, wt))
     \/ LET b == [Loaded(p, Sequential(p, wt)) EXCEPT ![Index(p)] = v]
        IN /\ buf' = b
           /\ hstwrt' = (wt # 1)
           /\ IF wt = 1
                THEN /\ ForceOut(p, IF Cached(p) THEN media ELSE Flushed, b)
                     /\ hst' = Xlt(p) /\ hstact' = TRUE
                ELSE LoadWorks(p)
  /\ sek' = p
  /\ dma' = v
  /\ Track(p, wt)
  /\ UNCHANGED dphlba
---------------------------------------------------------------------------
\* Bug: a dirty buffer is dropped as well.
HOMEDropsAll == /\ hstact' = FALSE /\ hstwrt' = FALSE
                /\ sek' = [sek EXCEPT !.trk = 0]
                /\ lost' = {}
                /\ UNCHANGED <<dphlba, hst, buf, una, unacnt, dma, status, media>>

\* HOME: track 0, and a clean buffer is dropped; a dirty one is left alone.
HOME == /\ hstact' = (hstact /\ hstwrt)
        /\ sek' = [sek EXCEPT !.trk = 0]
        /\ lost' = {}
        /\ UNCHANGED <<dphlba, hst, hstwrt, buf, una, unacnt, dma, status,
                       media>>

\* Bug: the offset found is not kept in the DPH.
SELDSKForgets(d, login) ==
  /\ \/ /\ sek' = [sek EXCEPT !.dsk = d, !.lba = IF login THEN d ELSE dphlba[d]]
        /\ status' = "ok"
     \/ /\ login /\ sek' = [sek EXCEPT !.dsk = d, !.lba = Raw]
        /\ status' = "err"
  /\ lost' = {}
  /\ UNCHANGED <<dphlba, hst, hstact, hstwrt, buf, una, unacnt, dma, media>>

\* DSK_SELECT.  Bit 0 of E clear: log the drive in, which asks HBIOS where
\* the slice is (DSK_MBR) and may fail, SEKDSK and SEKLBA already changed.
SELDSK(d, login) ==
  /\ IF login
       THEN \/ /\ sek' = [sek EXCEPT !.dsk = d, !.lba = d]
               /\ dphlba' = [dphlba EXCEPT ![d] = d]
               /\ status' = "ok"
            \/ /\ sek' = [sek EXCEPT !.dsk = d, !.lba = Raw]
               /\ status' = "err"
               /\ UNCHANGED dphlba
       ELSE /\ sek' = [sek EXCEPT !.dsk = d, !.lba = dphlba[d]]
            /\ status' = "ok"
            /\ UNCHANGED dphlba
  /\ lost' = {}
  /\ UNCHANGED <<hst, hstact, hstwrt, buf, una, unacnt, dma, media>>

\* DSK_GETINF finds the drive letter beyond the drive map, or unassigned.
SELDSKUnmapped ==
  /\ status' = "err"
  /\ lost' = {}
  /\ UNCHANGED <<sek, dphlba, hst, hstact, hstwrt, buf, una, unacnt, dma, media>>

\* WBOOT: RESCPM resets deblocking (BLKRES) and keeps a pending write.
WBOOT == /\ hstact' = FALSE
         /\ unacnt' = 0
         /\ lost' = {}
         /\ UNCHANGED <<sek, dphlba, hst, hstwrt, buf, una, dma, status, media>>

\* Cold start: BLKRES, and no drive has logged in.
BlkInit ==
  /\ \E d \in Disk :
        /\ sek = [dsk |-> d, trk |-> 0, sec |-> 0, lba |-> Raw]
        /\ hst = [dsk |-> d, trk |-> 0, sec |-> 0, lba |-> Raw]
        /\ una = [dsk |-> d, trk |-> 0, sec |-> 0]
  /\ dphlba = [d \in Disk |-> Raw]
  /\ hstact = FALSE /\ hstwrt = FALSE
  /\ unacnt = 0
  /\ status = "ok" /\ lost = {}
  /\ \E v \in Val : /\ dma = v
                    /\ buf = [i \in Slot |-> v]
                    /\ media = [s \in Sector |-> [i \in Slot |-> v]]
============================================================================
