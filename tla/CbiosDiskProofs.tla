-------------------------- MODULE CbiosDiskProofs --------------------------
(***************************************************************************)
(* For any drives, geometry and contents: when files are written from the  *)
(* start of their blocks, the deblocking BIOS keeps every record it owes.  *)
(***************************************************************************)
EXTENDS CbiosDisk, TLAPS

\* Division with remainder, and the sector and the slot of a record number.
LEMMA Division ==
  \A n \in Nat, k \in Nat \ {0} : /\ n = k * (n \div k) + (n % k)
                                  /\ n % k \in 0..(k - 1)
                                  /\ n \div k \in Nat
  OBVIOUS

\* A multiple is its divisor times the quotient.
LEMMA Multiple ==
  ASSUME NEW n \in Nat, NEW k \in Nat \ {0}, n % k = 0
  PROVE  n = k * (n \div k) /\ n \div k \in Nat
<1>1. n = k * (n \div k) + (n % k) /\ n \div k \in Nat
  BY Division
<1> QED BY <1>1

\* The shifts of BLK_XLT and BLK_SETUP stay within the track and the buffer.
LEMMA SectorRange ==
  ASSUME NEW s \in Sec
  PROVE  s \div RPS \in 0..((SPT \div RPS) - 1) /\ s % RPS \in Slot
<1> DEFINE q == SPT \div RPS
           d == s \div RPS
<1>1. RPS \in Nat \ {0} /\ SPT \in Nat \ {0} /\ SPT % RPS = 0 /\ s \in Nat
      /\ s < SPT
  BY GeometryAssumption DEF Sec
<1>2. SPT = RPS * q /\ q \in Nat
  BY <1>1, Division
<1>3. s = RPS * d + (s % RPS) /\ d \in Nat /\ s % RPS \in 0..(RPS - 1)
  BY <1>1, Division
<1>4. RPS * d < RPS * q
  BY <1>1, <1>2, <1>3
<1>5. d < q
  <2> HIDE DEF d, q
  <2> QED BY <1>1, <1>2, <1>3, <1>4
<1> QED BY <1>2, <1>3, <1>5 DEF Slot

\* A record is its sector and its slot.
LEMMA SameRecord ==
  ASSUME NEW s \in Sec, NEW t \in Sec,
         s \div RPS = t \div RPS, s % RPS = t % RPS
  PROVE  s = t
<1>1. s = RPS * (s \div RPS) + (s % RPS)
  BY GeometryAssumption, Division DEF Sec
<1>2. t = RPS * (t \div RPS) + (t % RPS)
  BY GeometryAssumption, Division DEF Sec
<1> QED BY <1>1, <1>2
---------------------------------------------------------------------------
\* Types of the pieces of BLKRW.
LEMMA XltType ==
  ASSUME NEW p \in Seeks
  PROVE  Xlt(p) \in Buffered /\ Index(p) \in Slot /\ RecOf(p) \in Rec
<1>1. p.sec \in Sec
  BY DEF Seeks
<1>2. p.sec \div RPS \in 0..((SPT \div RPS) - 1) /\ p.sec % RPS \in Slot
  BY <1>1, SectorRange
<1> QED BY <1>2 DEF Seeks, Buffered, Xlt, Index, RecOf, Rec

\* DSK_IO only ever addresses a sector of a slice.
LEMMA AddrType ==
  ASSUME NEW h \in Buffered
  PROVE  Addr(h) \in Sector
  BY DEF Buffered, Addr, Sector

\* SETTRK and SETSEC give a record of the slice.
LEMMA SeekType ==
  ASSUME BlkTypeOK, NEW t \in Trk, NEW s \in Sec
  PROVE  Seek(t, s) \in Seeks
  BY DEF BlkTypeOK, Seek, Seeks

\* BLKFLSH leaves a media.
LEMMA FlushedType ==
  ASSUME BlkTypeOK
  PROVE  Flushed \in [Sector -> [Slot -> Val]]
  BY AddrType DEF BlkTypeOK, Flushed

\* BLKRW leaves a whole sector in DSKBUF.
LEMMA LoadedType ==
  ASSUME BlkTypeOK, NEW p \in Seeks, NEW skip \in BOOLEAN
  PROVE  Loaded(p, skip) \in [Slot -> Val]
<1>1. Flushed[Addr(Xlt(p))] \in [Slot -> Val]
  BY FlushedType, XltType, AddrType
<1> QED BY <1>1 DEF Loaded, BlkTypeOK

\* UNA_INC steps at most to the track after the last.
LEMMA UnaNextType ==
  ASSUME NEW u \in UnaPos, u.trk < Tracks
  PROVE  UnaNext(u) \in UnaPos
<1>1. u.dsk \in Disk /\ u.trk \in 0..Tracks /\ u.sec \in Sec
  BY DEF UnaPos
<1>2. UnaNext(u).trk \in 0..Tracks /\ UnaNext(u).sec \in Sec
  BY <1>1, GeometryAssumption DEF UnaNext, Sec
<1> QED BY <1>1, <1>2 DEF UnaNext, UnaPos

\* UNA_INI, UNA_CHK and UNA_INC keep the tracking in range.
LEMMA TrackType ==
  ASSUME BlkTypeOK, NEW p \in Seeks, NEW wt \in {0, 1, 2}, Track(p, wt)
  PROVE  una' \in UnaPos /\ unacnt' \in 0..RPB
<1> DEFINE u == UnaStart(p, wt)
<1>1. RecOf(p) \in UnaPos /\ RecOf(p).trk < Tracks
  BY GeometryAssumption DEF RecOf, UnaPos, Seeks, Trk
<1>2. u.pos \in UnaPos /\ u.cnt \in 0..RPB
  BY <1>1, GeometryAssumption DEF UnaStart, BlkTypeOK
<1>3. CASE Sequential(p, wt)
  <2>1. u.pos = RecOf(p) /\ u.cnt > 0
    BY <1>3 DEF Sequential
  <2>2. UnaNext(u.pos) \in UnaPos
    BY <1>1, <2>1, UnaNextType
  <2>3. una' = UnaNext(u.pos) /\ unacnt' = u.cnt - 1
    BY <1>3 DEF Track
  <2> QED
    <3> HIDE DEF u
    <3> QED BY <1>2, <2>1, <2>2, <2>3, GeometryAssumption
<1>4. CASE ~Sequential(p, wt)
  <2>1. una' = u.pos /\ unacnt' = 0
    BY <1>4 DEF Track
  <2> QED
    BY <1>2, <2>1, GeometryAssumption
<1> QED BY <1>3, <1>4

\* Whatever becomes of BLKRW4, the buffer keeps its types.
LEMMA TransferType ==
  ASSUME BlkTypeOK, NEW p \in Seeks, NEW skip \in BOOLEAN,
         FlushFails(p) \/ LoadFails(p, skip)
  PROVE  /\ hst' \in Buffered /\ hstact' \in BOOLEAN /\ hstwrt' \in BOOLEAN
         /\ buf' \in [Slot -> Val]
         /\ status' \in {"ok", "err"}
         /\ media' \in [Sector -> [Slot -> Val]]
         /\ lost' \in SUBSET Rec
<1>1. Flushed[Addr(Xlt(p))] \in [Slot -> Val]
  BY FlushedType, XltType, AddrType
<1>2. SectorRecs(hst) \in SUBSET Rec
  BY DEF SectorRecs
<1>3. CASE FlushFails(p)
  BY <1>2, <1>3, FlushedType DEF FlushFails, BlkTypeOK
<1>4. CASE LoadFails(p, skip)
  BY <1>1, <1>4, FlushedType, XltType DEF LoadFails, BlkTypeOK
<1> QED BY <1>3, <1>4

\* READ keeps the types of the BIOS.
LEMMA ReadKeepsType ==
  ASSUME BlkTypeOK, NEW p \in Seeks, READ(p)
  PROVE  BlkTypeOK'
<1>1. unacnt' \in 0..RPB
  BY GeometryAssumption DEF READ
<1>2. CASE FlushFails(p) /\ UNCHANGED dma
  BY <1>1, <1>2, TransferType DEF READ, BlkTypeOK
<1>3. CASE LoadFails(p, FALSE) /\ UNCHANGED dma
  BY <1>1, <1>3, TransferType DEF READ, BlkTypeOK
<1>4. CASE /\ LoadWorks(p)
           /\ hstwrt' = (Cached(p) /\ hstwrt)
           /\ buf' = Loaded(p, FALSE)
           /\ dma' = Loaded(p, FALSE)[Index(p)]
  <2>1. media' \in [Sector -> [Slot -> Val]]
    BY <1>4, FlushedType DEF LoadWorks, BlkTypeOK
  <2>2. buf' \in [Slot -> Val] /\ dma' \in Val
    BY <1>4, LoadedType, XltType
  <2> QED
    BY <1>1, <1>4, <2>1, <2>2, XltType DEF READ, LoadWorks, BlkTypeOK
<1> QED BY <1>2, <1>3, <1>4 DEF READ

\* WRITE keeps the types of the BIOS.
LEMMA WriteKeepsType ==
  ASSUME BlkTypeOK, NEW p \in Seeks, NEW wt \in {0, 1, 2}, NEW v \in Val,
         WRITE(p, wt, v)
  PROVE  BlkTypeOK'
<1>1. una' \in UnaPos /\ unacnt' \in 0..RPB
  BY TrackType DEF WRITE
<1>2. Sequential(p, wt) \in BOOLEAN
  BY DEF Sequential
<1>3. sek' \in Seeks /\ dma' \in Val /\ dphlba' \in [Disk -> Lba]
  BY DEF WRITE, BlkTypeOK
<1>4. CASE FlushFails(p) \/ LoadFails(p, Sequential(p, wt))
  BY <1>1, <1>2, <1>3, <1>4, TransferType DEF BlkTypeOK
<1>5. CASE ~(FlushFails(p) \/ LoadFails(p, Sequential(p, wt)))
  <2> DEFINE b == [Loaded(p, Sequential(p, wt)) EXCEPT ![Index(p)] = v]
             m == IF Cached(p) THEN media ELSE Flushed
  <2>1. /\ buf' = b /\ hstwrt' = (wt # 1)
        /\ IF wt = 1 THEN ForceOut(p, m, b) /\ hst' = Xlt(p) /\ hstact' = TRUE
                     ELSE LoadWorks(p)
    BY <1>5 DEF WRITE
  <2>2. b \in [Slot -> Val]
    BY <1>2, LoadedType
  <2>3. m \in [Sector -> [Slot -> Val]]
    BY FlushedType DEF BlkTypeOK
  <2>4. [m EXCEPT ![Addr(Xlt(p))] = b] \in [Sector -> [Slot -> Val]]
    BY <2>2, <2>3
  <2>5. SectorRecs(Xlt(p)) \in SUBSET Rec
    BY DEF SectorRecs
  <2>6. /\ media' \in [Sector -> [Slot -> Val]] /\ lost' \in SUBSET Rec
        /\ status' \in {"ok", "err"} /\ hst' \in Buffered /\ hstact' \in BOOLEAN
    <3>1. CASE wt = 1
      <4> HIDE DEF b, m
      <4> QED BY <2>1, <2>3, <2>4, <2>5, <3>1, XltType DEF ForceOut
    <3>2. CASE wt # 1
      BY <2>1, <2>3, <3>2, XltType DEF LoadWorks
    <3> QED BY <3>1, <3>2
  <2> QED
    <3> HIDE DEF b, m
    <3> QED BY <1>1, <1>3, <2>1, <2>2, <2>6 DEF BlkTypeOK
<1> QED BY <1>4, <1>5
---------------------------------------------------------------------------
\* A cold start has the right types.
LEMMA TypeInit ==
  ASSUME Init
  PROVE  TypeOK
<1>1. 0 \in Trk /\ 0 \in Sec /\ 0 \in 0..Tracks /\ 0 \in 0..RPB
      /\ 0 \in 0..((SPT \div RPS) - 1)
  <2>1. 0 \in Sec /\ 0 \div RPS = 0
    BY GeometryAssumption DEF Sec
  <2> QED BY <2>1, SectorRange, GeometryAssumption DEF Trk
<1>2. PICK d \in Disk :
             /\ sek = [dsk |-> d, trk |-> 0, sec |-> 0, lba |-> Raw]
             /\ hst = [dsk |-> d, trk |-> 0, sec |-> 0, lba |-> Raw]
             /\ una = [dsk |-> d, trk |-> 0, sec |-> 0]
  BY DEF Init, BlkInit
<1>3. PICK v \in Val : /\ dma = v
                       /\ buf = [i \in Slot |-> v]
                       /\ media = [s \in Sector |-> [i \in Slot |-> v]]
  BY DEF Init, BlkInit
<1>4. sek \in Seeks /\ hst \in Buffered /\ una \in UnaPos
  BY <1>1, <1>2 DEF Seeks, Buffered, UnaPos, Lba
<1>5. dphlba \in [Disk -> Lba]
  BY DEF Init, BlkInit, Lba
<1>6. dma \in Val /\ buf \in [Slot -> Val]
      /\ media \in [Sector -> [Slot -> Val]]
  BY <1>3
<1>7. BlkTypeOK
  BY <1>1, <1>4, <1>5, <1>6 DEF Init, BlkInit, BlkTypeOK
<1> QED BY <1>6, <1>7 DEF Init, TypeOK

\* Every variable of the BIOS and the BDOS keeps its type: the position of
\* a fill (UNA_INC) and the sectors addressed stay in range.
THEOREM TypeCorrect == Spec => []TypeOK
<1>1. Init => TypeOK
  BY TypeInit
<1>2. TypeOK /\ [Next]_vars => TypeOK'
  <2> SUFFICES ASSUME TypeOK, [Next]_vars PROVE TypeOK'
    OBVIOUS
  <2>0. BlkTypeOK
    BY DEF TypeOK
  <2>1. CASE BdosRead
    <3>1. PICK t \in Trk, s \in Sec : READ(Seek(t, s))
      BY <2>1 DEF BdosRead
    <3>2. BlkTypeOK'
      BY <2>0, <3>1, SeekType, ReadKeepsType
    <3>3. want' \in [Rec -> Val \cup {Undef}]
      BY <2>1 DEF BdosRead, TypeOK, Owed
    <3> QED BY <2>1, <3>2, <3>3 DEF BdosRead, TypeOK
  <2>2. CASE BdosWrite
    <3>1. PICK t \in Trk, s \in Sec, v \in Val :
            LET p == Seek(t, s)
                r == RecOf(p)
            IN /\ WRITE(p, WriteType(r), v)
               /\ want' = Owed(IF status' = "ok" THEN [want EXCEPT ![r] = v]
                                                 ELSE want)
               /\ alloc' = IF IsDir(r) THEN alloc ELSE alloc \cup {BlockOf(r)}
      BY <2>2 DEF BdosWrite
    <3> DEFINE p == Seek(t, s)
               r == RecOf(p)
    <3>2. p \in Seeks /\ r \in Rec
      BY <2>0, SeekType, XltType
    <3>3. WriteType(r) \in {0, 1, 2}
      BY DEF WriteType
    <3>4. BlkTypeOK'
      BY <2>0, <3>1, <3>2, <3>3, WriteKeepsType
    <3>5. want' \in [Rec -> Val \cup {Undef}]
      <4> HIDE DEF p, r
      <4> DEFINE w == IF status' = "ok" THEN [want EXCEPT ![r] = v] ELSE want
      <4>1. w \in [Rec -> Val \cup {Undef}]
        BY DEF TypeOK
      <4>2. want' = Owed(w)
        BY <3>1 DEF p, r
      <4> HIDE DEF w
      <4> QED BY <4>1, <4>2 DEF Owed
    <3>6. alloc' \subseteq Blocks
      <4>1. ~IsDir(r) => BlockOf(r) \in Blocks
        BY <3>2 DEF Blocks
      <4> HIDE DEF p, r
      <4>2. alloc' = IF IsDir(r) THEN alloc ELSE alloc \cup {BlockOf(r)}
        BY <3>1 DEF p, r
      <4> QED BY <4>1, <4>2 DEF TypeOK
    <3> QED BY <2>2, <3>4, <3>5, <3>6 DEF BdosWrite, TypeOK
  <2>3. CASE BdosHome
    <3>1. 0 \in Trk
      BY GeometryAssumption DEF Trk
    <3> QED BY <2>3, <3>1
            DEF BdosHome, HOME, cvars, TypeOK, BlkTypeOK, Seeks
  <2>4. CASE BdosSelect
    <3>1. BlkTypeOK'
      <4>1. CASE SELDSKUnmapped
        BY <2>0, <4>1 DEF SELDSKUnmapped, BlkTypeOK
      <4>2. ASSUME NEW d \in Disk, SELDSK(d, d \notin logged)
            PROVE  BlkTypeOK'
        BY <2>0, <4>2 DEF SELDSK, BlkTypeOK, Seeks, Lba
      <4> QED BY <2>4, <4>1, <4>2 DEF BdosSelect
    <3>2. logged' \subseteq Disk
      BY <2>4 DEF BdosSelect, TypeOK
    <3> QED BY <2>4, <3>1, <3>2 DEF BdosSelect, TypeOK
  <2>5. CASE BdosReboot
    <3>1. 0 \in 0..RPB
      BY GeometryAssumption
    <3> QED BY <2>5, <3>1 DEF BdosReboot, WBOOT, TypeOK, BlkTypeOK
  <2>6. CASE BdosReset
    <3>1. DriveA \in Disk
      BY ClientAssumption
    <3>2. BlkTypeOK'
      BY <2>0, <2>6, <3>1 DEF BdosReset, SELDSK, BlkTypeOK, Seeks, Lba
    <3> QED BY <2>6, <3>1, <3>2 DEF BdosReset, TypeOK
  <2>7. CASE BdosErase
    <3>1. PICK b \in alloc :
            /\ alloc' = alloc \ {b}
            /\ want' = [r \in Rec |-> IF BlockOf(r) = b THEN Undef ELSE want[r]]
      BY <2>7 DEF BdosErase
    <3>2. want' \in [Rec -> Val \cup {Undef}]
      BY <3>1 DEF TypeOK
    <3> QED BY <2>7, <3>1, <3>2 DEF BdosErase, blkvars, TypeOK, BlkTypeOK
  <2>8. CASE UNCHANGED vars
    BY <2>8 DEF vars, blkvars, cvars, TypeOK, BlkTypeOK
  <2> QED BY <2>1, <2>2, <2>3, <2>4, <2>5, <2>6, <2>7, <2>8 DEF Next
<1> QED BY <1>1, <1>2, PTL DEF Spec
---------------------------------------------------------------------------
(***************************************************************************)
(* The inductive invariant.  A buffer is right when it agrees with what is  *)
(* owed on its own sector; everything off the pending sector is on the     *)
(* media; and a fill in progress at u with n records to go expects only     *)
(* records nothing is owed about, up to a sector boundary, while those it   *)
(* already wrote in the current sector wait in the buffer.                  *)
(***************************************************************************)
BufferRight ==
  \A r \in Rec : want[r] # Undef /\ (hstact \/ hstwrt) /\ Addr(hst) = Home(r)
                   => buf[r.sec % RPS] = want[r]

DrivesRight == /\ mode = "run" => sek.lba = sek.dsk
               /\ \A d \in logged : dphlba[d] = d

FillFresh(u, n) ==
  \A q \in Rec : q.dsk = u.dsk /\ Pos(q) \in Pos(u)..(Pos(u) + n - 1)
                   => want[q] = Undef

FillBehind(u) ==
  \A q \in Rec : /\ q.dsk = u.dsk /\ q.trk = u.trk
                 /\ q.sec \div RPS = u.sec \div RPS /\ q.sec < u.sec
                 /\ want[q] # Undef
                 => hstact /\ hstwrt /\ Addr(hst) = Home(q)

FillRight(u, n) ==
  n > 0 => FillFresh(u, n) /\ FillBehind(u) /\ (Pos(u) + n) % RPS = 0

FreeIsUndef ==
  \A r \in Rec : ~IsDir(r) /\ BlockOf(r) \notin alloc => want[r] = Undef

CacheRight == BufferRight /\ OneSectorAtRisk /\ NoStrayAddress

Inv == /\ TypeOK
       /\ CacheRight
       /\ DrivesRight
       /\ FillRight(una, unacnt)
       /\ FreeIsUndef

---------------------------------------------------------------------------
\* Arithmetic of record positions.
\* Positions in a slice are numbers.
LEMMA PosType ==
  ASSUME NEW t \in Nat, NEW s \in Sec
  PROVE  t * SPT + s \in Nat
  BY GeometryAssumption DEF Sec

\* Two multiples that are not equal are a whole divisor apart.
LEMMA MultipleBelow ==
  ASSUME NEW k \in Nat \ {0}, NEW x \in Nat, NEW e \in Nat, k * x < k * e
  PROVE  k * x + k <= k * e
<1>1. x < e
  OBVIOUS
<1>2. x + 1 <= e
  BY <1>1
<1>3. k * (x + 1) <= k * e
  BY <1>2
<1> QED BY <1>3

\* Two records of one sector lie on the same side of a sector boundary.
LEMMA SectorBound ==
  ASSUME NEW t \in Nat, NEW s \in Sec, NEW z \in Sec, NEW e \in Nat,
         s \div RPS = z \div RPS, e % RPS = 0, t * SPT + s < e
  PROVE  t * SPT + z < e
<1> DEFINE k == SPT \div RPS
           d == s \div RPS
           f == e \div RPS
           x == t * k + d
<1>0. RPS \in Nat \ {0} /\ SPT \in Nat /\ SPT % RPS = 0
      /\ s \in Nat /\ z \in Nat
  BY GeometryAssumption DEF Sec
<1>1. SPT = RPS * k /\ k \in Nat
  BY <1>0, Multiple
<1>2. s = RPS * d + (s % RPS) /\ d \in Nat /\ s % RPS \in 0..(RPS - 1)
  BY <1>0, Division
<1>3. z = RPS * (z \div RPS) + (z % RPS) /\ z % RPS \in 0..(RPS - 1)
  BY <1>0, Division
<1>4. e = RPS * f /\ f \in Nat
  BY <1>0, Multiple
<1>5. z = RPS * d + (z % RPS)
  BY <1>3
<1> HIDE DEF k, d, f
<1>6. t * k \in Nat /\ t * SPT = RPS * (t * k)
  BY <1>0, <1>1
<1>7. x \in Nat /\ RPS * x = RPS * (t * k) + RPS * d
  BY <1>0, <1>2, <1>6
<1>8. RPS * x + (s % RPS) < RPS * f /\ t * SPT + z = RPS * x + (z % RPS)
  BY <1>0, <1>2, <1>4, <1>5, <1>6, <1>7
<1> HIDE DEF x
<1>9. RPS * x < RPS * f
  BY <1>0, <1>2, <1>4, <1>7, <1>8
<1>10. RPS * x + RPS <= RPS * f
  BY <1>0, <1>4, <1>7, <1>9, MultipleBelow
<1>11. RPS * x \in Nat /\ RPS * f \in Nat
  BY <1>0, <1>4, <1>7
<1> QED BY <1>0, <1>3, <1>4, <1>8, <1>10, <1>11

\* The next record of a fill is one further on.
LEMMA UnaNextPos ==
  ASSUME NEW u \in UnaPos
  PROVE  Pos(UnaNext(u)) = Pos(u) + 1
<1>1. u.trk \in Nat /\ u.sec \in Sec
  BY GeometryAssumption DEF UnaPos
<1>2. CASE u.sec + 1 = SPT
  <2>1. (u.trk + 1) * SPT = u.trk * SPT + SPT
    BY <1>1, GeometryAssumption
  <2> QED BY <1>1, <1>2, <2>1, GeometryAssumption DEF UnaNext, Pos, Sec
<1>3. CASE u.sec + 1 # SPT
  <2>1. u.trk * SPT \in Nat
    BY <1>1, GeometryAssumption
  <2> QED BY <1>1, <1>3, <2>1 DEF UnaNext, Pos, Sec
<1> QED BY <1>2, <1>3
---------------------------------------------------------------------------
\* The buffer, its address and the records of its sector.
LEMMA HomeType ==
  ASSUME NEW r \in Rec
  PROVE  Home(r) \in Sector /\ r.sec % RPS \in Slot
<1>1. r.dsk \in Disk /\ r.trk \in Trk /\ r.sec \in Sec
  BY DEF Rec
<1>2. r.sec \div RPS \in 0..((SPT \div RPS) - 1) /\ r.sec % RPS \in Slot
  BY <1>1, SectorRange
<1> QED BY <1>1, <1>2 DEF Home, Sector, Lba

\* Two records with one home differ at most in their slot.
LEMMA SameHome ==
  ASSUME NEW q \in Rec, NEW r \in Rec, Home(q) = Home(r),
         q.sec % RPS = r.sec % RPS
  PROVE  q = r
<1>1. q.sec \in Sec /\ r.sec \in Sec
  BY DEF Rec
<1>2. q.sec \div RPS = r.sec \div RPS /\ q.dsk = r.dsk /\ q.trk = r.trk
  BY DEF Home
<1>3. q.sec = r.sec
  BY <1>1, <1>2, SameRecord
<1> QED BY <1>2, <1>3 DEF Rec

\* The address of the sector sought (BLK_XLT, DSK_IO) is the home of the record.
LEMMA XltHome ==
  ASSUME NEW p \in Seeks, p.lba = p.dsk
  PROVE  /\ Addr(Xlt(p)) = Home(RecOf(p))
         /\ Index(p) = RecOf(p).sec % RPS
         /\ Xlt(p).lba = Xlt(p).dsk
  BY DEF Addr, Xlt, Home, RecOf, Index

\* A valid buffer with the address sought is the sector sought.
LEMMA CachedByAddress ==
  ASSUME NEW p \in Seeks, p.lba = p.dsk, hst \in Buffered, NoStrayAddress,
         hstact, Addr(hst) = Addr(Xlt(p))
  PROVE  Cached(p)
<1>1. hst.lba = hst.dsk
  BY DEF NoStrayAddress
<1>2. hst.lba = p.lba /\ hst.trk = p.trk /\ hst.sec = p.sec \div RPS
  BY DEF Addr, Xlt
<1>3. hst = Xlt(p)
  BY <1>1, <1>2 DEF Xlt, Buffered
<1> QED BY <1>3 DEF Cached

\* The records a failed flush gives up are those of the sector at hand.
LEMMA SectorRecsHome ==
  ASSUME NEW h \in Buffered, h.lba = h.dsk, NEW r \in Rec
  PROVE  r \in SectorRecs(h) <=> Home(r) = Addr(h)
  BY DEF SectorRecs, Home, Addr, Rec, Buffered

\* Once flushed, the media has everything owed.
LEMMA FlushedRight ==
  ASSUME TypeOK, CacheRight, NEW r \in Rec, want[r] # Undef
  PROVE  Flushed[Home(r)][r.sec % RPS] = want[r]
<1>1. Home(r) \in Sector /\ r.sec % RPS \in Slot
  BY HomeType
<1>2. CASE hstwrt /\ Addr(hst) = Home(r)
  <2>1. Flushed[Home(r)] = buf
    BY <1>1, <1>2 DEF Flushed, TypeOK, BlkTypeOK
  <2> QED BY <1>2, <2>1 DEF CacheRight, BufferRight
<1>3. CASE ~(hstwrt /\ Addr(hst) = Home(r))
  <2>1. Flushed[Home(r)] = media[Home(r)]
    BY <1>1, <1>3, AddrType DEF Flushed, TypeOK, BlkTypeOK
  <2>2. OnMedia(r) = want[r]
    BY <1>3 DEF CacheRight, OneSectorAtRisk
  <2> QED BY <2>1, <2>2 DEF OnMedia
<1> QED BY <1>2, <1>3

\* The pending write fails: its sector is owed no more.
LEMMA FlushFailsSafe ==
  ASSUME TypeOK, CacheRight, NEW p \in Seeks, FlushFails(p), want' = Owed(want)
  PROVE  CacheRight'
<1>1. hst.lba = hst.dsk /\ hst \in Buffered
  BY DEF FlushFails, CacheRight, NoStrayAddress, TypeOK, BlkTypeOK
<1>2. \A r \in Rec : want'[r] # Undef
                       => Home(r) # Addr(hst) /\ want'[r] = want[r]
  BY <1>1, SectorRecsHome DEF FlushFails, Owed
<1>3. BufferRight'
  BY <1>2 DEF BufferRight, FlushFails, Home, Addr
<1>4. OneSectorAtRisk'
  <2> SUFFICES ASSUME NEW r \in Rec, want'[r] # Undef
               PROVE  media'[Home(r)][r.sec % RPS] = want'[r]
    BY DEF OneSectorAtRisk, OnMedia, Home
  <2>1. want'[r] = want[r] /\ Home(r) # Addr(hst)
    BY <1>2
  <2>2. CASE media' = media
    BY <2>1, <2>2 DEF CacheRight, OneSectorAtRisk, OnMedia
  <2>3. CASE media' = Flushed
    BY <2>1, <2>3, FlushedRight
  <2> QED BY <2>2, <2>3 DEF FlushFails
<1>5. NoStrayAddress'
  BY <1>1 DEF NoStrayAddress, FlushFails
<1> QED BY <1>3, <1>4, <1>5 DEF CacheRight

\* The read fails: nothing is buffered, everything owed is on the media.
LEMMA LoadFailsSafe ==
  ASSUME TypeOK, CacheRight, NEW p \in Seeks, NEW skip \in BOOLEAN,
         LoadFails(p, skip), want' = Owed(want)
  PROVE  CacheRight'
<1>1. \A r \in Rec : want'[r] = want[r]
  BY DEF LoadFails, Owed
<1>2. OneSectorAtRisk'
  BY <1>1, FlushedRight DEF OneSectorAtRisk, OnMedia, LoadFails, Home
<1> QED BY <1>1, <1>2
        DEF CacheRight, BufferRight, NoStrayAddress, LoadFails
\* READ keeps the cache right and delivers what is owed.
LEMMA ReadSafe ==
  ASSUME TypeOK, CacheRight, NEW p \in Seeks, p.lba = p.dsk,
         READ(p), want' = Owed(want)
  PROVE  /\ CacheRight'
         /\ status' = "ok" /\ want[RecOf(p)] # Undef
              => dma' = want[RecOf(p)]
<1>1. CASE FlushFails(p)
  BY <1>1, FlushFailsSafe DEF FlushFails
<1>2. CASE LoadFails(p, FALSE)
  BY <1>2, LoadFailsSafe DEF LoadFails
<1>3. CASE /\ LoadWorks(p)
           /\ hstwrt' = (Cached(p) /\ hstwrt)
           /\ buf' = Loaded(p, FALSE)
           /\ dma' = Loaded(p, FALSE)[Index(p)]
  <2> DEFINE r0 == RecOf(p)
  <2>1. \A r \in Rec : want'[r] = want[r]
    BY <1>3 DEF LoadWorks, Owed
  <2>2. /\ Addr(Xlt(p)) = Home(r0) /\ Index(p) = r0.sec % RPS
        /\ Xlt(p).lba = Xlt(p).dsk /\ r0 \in Rec
    BY XltHome, XltType
  <2>3. \A r \in Rec : want[r] # Undef /\ Home(r) = Addr(Xlt(p))
                         => Loaded(p, FALSE)[r.sec % RPS] = want[r]
    <3> SUFFICES ASSUME NEW r \in Rec, want[r] # Undef,
                        Home(r) = Addr(Xlt(p))
                 PROVE  Loaded(p, FALSE)[r.sec % RPS] = want[r]
      OBVIOUS
    <3>1. CASE Cached(p)
      BY <3>1 DEF Loaded, Cached, CacheRight, BufferRight
    <3>2. CASE ~Cached(p)
      BY <3>2, FlushedRight DEF Loaded
    <3> QED BY <3>1, <3>2
  <2>4. BufferRight'
    BY <1>3, <2>1, <2>3 DEF BufferRight, LoadWorks, Home, Addr
  <2>5. OneSectorAtRisk'
    <3> SUFFICES ASSUME NEW r \in Rec, want[r] # Undef,
                        ~(hstwrt' /\ Addr(Xlt(p)) = Home(r))
                 PROVE  media'[Home(r)][r.sec % RPS] = want[r]
      BY <1>3, <2>1 DEF OneSectorAtRisk, OnMedia, LoadWorks, Home, Addr
    <3>1. CASE Cached(p)
      BY <1>3, <3>1
         DEF LoadWorks, Cached, CacheRight, OneSectorAtRisk, OnMedia
    <3>2. CASE ~Cached(p)
      BY <1>3, <3>2, FlushedRight DEF LoadWorks
    <3> QED BY <3>1, <3>2
  <2>6. NoStrayAddress'
    BY <1>3, <2>2 DEF NoStrayAddress, LoadWorks
  <2> QED BY <1>3, <2>2, <2>3, <2>4, <2>5, <2>6 DEF CacheRight
<1> QED BY <1>1, <1>2, <1>3 DEF READ

\* WRITE keeps the cache right, if skipping the pre-read destroys nothing.
LEMMA WriteSafe ==
  ASSUME TypeOK, CacheRight, NEW p \in Seeks, p.lba = p.dsk,
         NEW wt \in {0, 1, 2}, NEW v \in Val,
         Sequential(p, wt) =>
           \A q \in Rec : /\ Home(q) = Home(RecOf(p)) /\ q # RecOf(p)
                          /\ want[q] # Undef
                          => Cached(p),
         WRITE(p, wt, v),
         want' = Owed(IF status' = "ok" THEN [want EXCEPT ![RecOf(p)] = v]
                                        ELSE want)
  PROVE  CacheRight'
<1> DEFINE r0 == RecOf(p)
           skip == Sequential(p, wt)
           L == Loaded(p, skip)
           b == [L EXCEPT ![Index(p)] = v]
           m == IF Cached(p) THEN media ELSE Flushed
<1>1. skip \in BOOLEAN
  BY DEF Sequential
<1>2. CASE FlushFails(p)
  <2>1. want' = Owed(want)
    BY <1>2 DEF FlushFails
  <2> QED BY <1>2, <2>1, FlushFailsSafe
<1>3. CASE LoadFails(p, skip)
  <2>1. want' = Owed(want)
    BY <1>3 DEF LoadFails
  <2> QED BY <1>1, <1>3, <2>1, LoadFailsSafe
<1>4. CASE /\ buf' = b /\ hstwrt' = (wt # 1)
           /\ IF wt = 1 THEN /\ ForceOut(p, m, b)
                             /\ hst' = Xlt(p) /\ hstact' = TRUE
                        ELSE LoadWorks(p)
  <2>1. /\ Addr(Xlt(p)) = Home(r0) /\ Index(p) = r0.sec % RPS
        /\ Xlt(p).lba = Xlt(p).dsk /\ r0 \in Rec
        /\ Xlt(p) \in Buffered /\ Index(p) \in Slot
    BY XltHome, XltType
  <2>2. hst' = Xlt(p) /\ hstact' = TRUE
    BY <1>4 DEF LoadWorks
  <2>3. \A r \in Rec :
          want'[r] # Undef =>
            /\ r \notin lost'
            /\ want'[r] = IF status' = "ok" /\ r = r0 THEN v ELSE want[r]
    BY <2>1 DEF Owed, TypeOK
  <2>4. status' # "ok" => lost' = SectorRecs(Xlt(p))
    BY <1>4 DEF ForceOut, LoadWorks
  <2>5. \A r \in Rec : want'[r] # Undef /\ Home(r) = Home(r0) => status' = "ok"
    BY <2>1, <2>3, <2>4, SectorRecsHome
  <2>6. L \in [Slot -> Val]
    BY <1>1, LoadedType DEF TypeOK
  <2>7. \A r \in Rec : want'[r] # Undef /\ Home(r) = Home(r0)
                         => b[r.sec % RPS] = want'[r]
    <3> SUFFICES ASSUME NEW r \in Rec, want'[r] # Undef, Home(r) = Home(r0)
                 PROVE  b[r.sec % RPS] = want'[r]
      OBVIOUS
    <3>1. CASE r = r0
      BY <2>1, <2>3, <2>5, <2>6, <3>1
    <3>2. CASE r # r0
      <4>1. r.sec % RPS # Index(p) /\ r.sec % RPS \in Slot
        BY <2>1, <3>2, SameHome, HomeType
      <4>2. want'[r] = want[r] /\ want[r] # Undef
        BY <2>3, <3>2
      <4>3. b[r.sec % RPS] = L[r.sec % RPS]
        BY <2>6, <4>1
      <4>4. L[r.sec % RPS] = want[r]
        <5>1. CASE Cached(p)
          BY <2>1, <4>2, <5>1 DEF Loaded, Cached, CacheRight, BufferRight
        <5>2. CASE ~Cached(p)
          <6>1. ~skip
            BY <3>2, <4>2, <5>2
          <6> QED BY <2>1, <4>2, <5>2, <6>1, FlushedRight DEF Loaded
        <5> QED BY <5>1, <5>2
      <4> QED BY <4>2, <4>3, <4>4
    <3> QED BY <3>1, <3>2
  <2>8. BufferRight'
    BY <1>4, <2>1, <2>2, <2>7 DEF BufferRight, Home, Addr
  <2>9. NoStrayAddress'
    BY <2>1, <2>2 DEF NoStrayAddress
  <2>10. \A r \in Rec : want'[r] # Undef /\ Home(r) # Home(r0)
                          => m[Home(r)][r.sec % RPS] = want'[r]
    <3> SUFFICES ASSUME NEW r \in Rec, want'[r] # Undef, Home(r) # Home(r0)
                 PROVE  m[Home(r)][r.sec % RPS] = want'[r]
      OBVIOUS
    <3>1. want'[r] = want[r]
      BY <2>3
    <3>2. CASE Cached(p)
      BY <2>1, <3>1, <3>2
         DEF Cached, CacheRight, OneSectorAtRisk, OnMedia
    <3>3. CASE ~Cached(p)
      BY <3>1, <3>3, FlushedRight
    <3> QED BY <3>2, <3>3
  <2>11. OneSectorAtRisk'
    <3> SUFFICES ASSUME NEW r \in Rec, want'[r] # Undef,
                        ~(hstwrt' /\ Addr(Xlt(p)) = Home(r))
                 PROVE  media'[Home(r)][r.sec % RPS] = want'[r]
      BY <2>2 DEF OneSectorAtRisk, OnMedia, Home, Addr
    <3>1. m \in [Sector -> [Slot -> Val]]
      BY FlushedType DEF TypeOK, BlkTypeOK
    <3>2. Home(r) \in Sector
      BY HomeType
    <3>3. CASE wt = 1
      <4>1. media' \in {m, [m EXCEPT ![Addr(Xlt(p))] = b]}
            /\ (status' = "ok" => media' = [m EXCEPT ![Addr(Xlt(p))] = b])
        BY <1>4, <3>3 DEF ForceOut
      <4>2. CASE Home(r) = Home(r0)
        <5>1. media' = [m EXCEPT ![Addr(Xlt(p))] = b]
          BY <2>5, <4>1, <4>2
        <5> HIDE DEF m, b
        <5>2. media'[Home(r)] = b
          BY <2>1, <3>1, <3>2, <4>2, <5>1
        <5> QED BY <2>7, <4>2, <5>2
      <4>3. CASE Home(r) # Home(r0)
        <5> HIDE DEF m, b
        <5>1. media'[Home(r)] = m[Home(r)]
          BY <2>1, <3>1, <3>2, <4>1, <4>3
        <5> QED BY <2>10, <4>3, <5>1
      <4> QED BY <4>2, <4>3
    <3>4. CASE wt # 1
      <4>1. Home(r) # Home(r0) /\ media' = m
        BY <1>4, <2>1, <3>4 DEF LoadWorks
      <4> HIDE DEF m
      <4> QED BY <2>10, <4>1
    <3> QED BY <3>3, <3>4
  <2> QED BY <2>8, <2>9, <2>11 DEF CacheRight
<1> QED BY <1>2, <1>3, <1>4 DEF WRITE
---------------------------------------------------------------------------
\* Fills.
LEMMA BlockBound ==
  ASSUME NEW n \in Nat, n % RPB = 0, NEW m \in n..(n + RPB - 1)
  PROVE  m \div RPB = n \div RPB
<1> DEFINE e == n \div RPB
           f == m \div RPB
<1>0. RPB \in Nat \ {0} /\ m \in Nat
  BY GeometryAssumption
<1>1. n = RPB * e /\ e \in Nat
  BY <1>0, Multiple
<1>2. m = RPB * f + (m % RPB) /\ f \in Nat /\ m % RPB \in 0..(RPB - 1)
  BY <1>0, Division
<1> HIDE DEF e, f
<1>3. ~(RPB * f < RPB * e)
  <2>1. RPB * f < RPB * e => RPB * f + RPB <= RPB * e
    BY <1>0, <1>1, <1>2, MultipleBelow
  <2>2. RPB * f \in Nat /\ RPB * e \in Nat
    BY <1>0, <1>1, <1>2
  <2> QED BY <1>0, <1>1, <1>2, <2>1, <2>2
<1>4. ~(RPB * e < RPB * f)
  <2>1. RPB * e < RPB * f => RPB * e + RPB <= RPB * f
    BY <1>0, <1>1, <1>2, MultipleBelow
  <2>2. RPB * f \in Nat /\ RPB * e \in Nat
    BY <1>0, <1>1, <1>2
  <2> QED BY <1>0, <1>1, <1>2, <2>1, <2>2
<1>5. RPB * e = RPB * f
  <2>1. RPB * f \in Nat /\ RPB * e \in Nat
    BY <1>0, <1>1, <1>2
  <2> QED BY <1>3, <1>4, <2>1
<1>6. e = f
  BY <1>0, <1>1, <1>2, <1>5
<1> QED BY <1>6 DEF e, f

\* Blocks are made of whole sectors.
LEMMA BlockOfSectors ==
  ASSUME NEW n \in Nat, n % RPB = 0
  PROVE  n % RPS = 0 /\ (n + RPB) % RPS = 0
<1> DEFINE e == n \div RPB
           k == RPB \div RPS
<1>0. RPB \in Nat \ {0} /\ RPS \in Nat \ {0} /\ RPB % RPS = 0
  BY GeometryAssumption
<1>1. n = RPB * e /\ e \in Nat
  BY <1>0, Multiple
<1>2. RPB = RPS * k /\ k \in Nat
  BY <1>0, Multiple
<1> HIDE DEF e, k
<1>3. n = RPS * (k * e) /\ n + RPB = RPS * (k * e + k)
  BY <1>0, <1>1, <1>2
<1>4. \A x \in Nat : (RPS * x) % RPS = 0
  BY <1>0
<1>5. k * e \in Nat /\ k * e + k \in Nat
  BY <1>1, <1>2
<1> QED BY <1>3, <1>4, <1>5

\* The position of any record is a number.
LEMMA PosInNat ==
  ASSUME NEW r \in Rec
  PROVE  Pos(r) \in Nat
<1>1. r.trk \in Nat /\ r.sec \in Sec
  BY GeometryAssumption DEF Rec, Trk
<1> QED BY <1>1, PosType DEF Pos

\* The tracking a write starts from is right, if it starts a block at its
\* first record.
LEMMA StartRight ==
  ASSUME TypeOK, ~RandomAccess, FillRight(una, unacnt), FreeIsUndef,
         NEW p \in Seeks, MayWrite(RecOf(p)), NEW wt,
         wt = WriteType(RecOf(p))
  PROVE  FillRight(UnaStart(p, wt).pos, UnaStart(p, wt).cnt)
<1> DEFINE r == RecOf(p)
<1>1. r \in Rec /\ Pos(r) \in Nat
  BY XltType, PosInNat
<1>2. CASE wt # 2
  BY <1>2 DEF UnaStart
<1>3. CASE wt = 2
  <2>1. Pos(r) % RPB = 0 /\ ~IsDir(r) /\ BlockOf(r) \notin alloc
    BY <1>3 DEF MayWrite, WriteType
  <2>2. FillFresh(r, RPB)
    <3> SUFFICES ASSUME NEW q \in Rec, q.dsk = r.dsk,
                        Pos(q) \in Pos(r)..(Pos(r) + RPB - 1)
                 PROVE  want[q] = Undef
      BY DEF FillFresh
    <3>1. Pos(q) \div RPB = Pos(r) \div RPB
      BY <1>1, <2>1, BlockBound
    <3>2. BlockOf(q) = BlockOf(r) /\ ~IsDir(q)
      BY <2>1, <3>1 DEF BlockOf, IsDir
    <3> QED BY <2>1, <3>2 DEF FreeIsUndef
  <2>3. Pos(r) % RPS = 0 /\ (Pos(r) + RPB) % RPS = 0
    BY <1>1, <2>1, BlockOfSectors
  <2>4. FillBehind(r)
    <3> SUFFICES ASSUME NEW q \in Rec, q.trk = r.trk,
                        q.sec \div RPS = r.sec \div RPS, q.sec < r.sec
                 PROVE  FALSE
      BY DEF FillBehind
    <3>1. r.trk \in Nat /\ q.sec \in Sec /\ r.sec \in Sec
      BY <1>1, GeometryAssumption DEF Rec, Trk
    <3>2. r.trk * SPT \in Nat
      BY <3>1, GeometryAssumption
    <3>3. r.trk * SPT + q.sec < Pos(r)
      BY <3>1, <3>2 DEF Pos, Sec
    <3>4. r.trk * SPT + r.sec < Pos(r)
      BY <1>1, <2>3, <3>1, <3>3, SectorBound
    <3> QED BY <1>1, <3>4 DEF Pos
  <2> QED BY <1>3, <2>2, <2>3, <2>4 DEF FillRight, UnaStart
<1> QED BY <1>2, <1>3

\* So skipping the pre-read destroys nothing.
LEMMA SkipSafe ==
  ASSUME TypeOK, CacheRight, NEW p \in Seeks, p.lba = p.dsk,
         NEW wt \in {0, 1, 2}, Sequential(p, wt),
         FillRight(UnaStart(p, wt).pos, UnaStart(p, wt).cnt),
         NEW q \in Rec, Home(q) = Home(RecOf(p)), q # RecOf(p),
         want[q] # Undef
  PROVE  Cached(p)
<1> DEFINE r == RecOf(p)
           n == UnaStart(p, wt).cnt
<1>1. UnaStart(p, wt).pos = r /\ n > 0
  BY DEF Sequential
<1>2. FillFresh(r, n) /\ FillBehind(r) /\ (Pos(r) + n) % RPS = 0
  BY <1>1 DEF FillRight
<1>3. n \in Nat
  BY GeometryAssumption DEF UnaStart, TypeOK, BlkTypeOK
<1>4. r \in Rec /\ Pos(r) \in Nat /\ Pos(q) \in Nat
  BY XltType, PosInNat
<1>5. q.dsk = r.dsk /\ q.trk = r.trk /\ q.sec \div RPS = r.sec \div RPS
  BY DEF Home
<1>6. q.trk \in Nat /\ q.sec \in Sec /\ r.sec \in Sec
  BY <1>4, GeometryAssumption DEF Rec, Trk
<1>7. q.sec # r.sec
  BY <1>4, <1>5 DEF Rec
<1>8. CASE q.sec < r.sec
  <2>1. hstact /\ Addr(hst) = Home(q)
    BY <1>2, <1>5, <1>8 DEF FillBehind
  <2>2. Addr(hst) = Addr(Xlt(p))
    BY <2>1, XltHome
  <2> QED BY <2>1, <2>2, CachedByAddress DEF CacheRight, TypeOK, BlkTypeOK
<1>9. CASE q.sec > r.sec
  <2>1. q.trk * SPT \in Nat
    BY <1>6, GeometryAssumption
  <2>2. Pos(r) < Pos(q)
    BY <1>5, <1>6, <1>9, <2>1 DEF Pos, Sec
  <2>3. q.trk * SPT + r.sec < Pos(r) + n
    BY <1>1, <1>3, <1>4, <1>5 DEF Pos
  <2>4. q.trk * SPT + q.sec < Pos(r) + n
    <3> DEFINE e == Pos(r) + n
    <3>1. e \in Nat /\ e % RPS = 0 /\ q.trk * SPT + r.sec < e
      BY <1>2, <1>3, <1>4, <2>3
    <3> HIDE DEF e
    <3>2. q.trk * SPT + q.sec < e
      BY <1>5, <1>6, <3>1, SectorBound
    <3> QED BY <3>2 DEF e
  <2>5. Pos(q) \in Pos(r)..(Pos(r) + n - 1)
    BY <1>3, <1>4, <2>2, <2>4 DEF Pos
  <2> QED BY <1>2, <1>5, <2>5 DEF FillFresh
<1> QED BY <1>6, <1>7, <1>8, <1>9 DEF Sec

\* Division by the block size keeps the order of positions.
LEMMA DivMonotone ==
  ASSUME NEW s \in Sec, NEW z \in Sec, s <= z
  PROVE  s \div RPS <= z \div RPS
<1> DEFINE d == s \div RPS
           f == z \div RPS
<1>0. RPS \in Nat \ {0} /\ s \in Nat /\ z \in Nat
  BY GeometryAssumption DEF Sec
<1>1. s = RPS * d + (s % RPS) /\ d \in Nat /\ s % RPS \in 0..(RPS - 1)
  BY <1>0, Division
<1>2. z = RPS * f + (z % RPS) /\ f \in Nat /\ z % RPS \in 0..(RPS - 1)
  BY <1>0, Division
<1> HIDE DEF d, f
<1>3. CASE f < d
  <2>1. f + 1 <= d
    BY <1>1, <1>2, <1>3
  <2>2. RPS * (f + 1) <= RPS * d
    BY <1>0, <1>1, <1>2, <2>1
  <2>3. RPS * (f + 1) = RPS * f + RPS /\ RPS * f \in Nat /\ RPS * d \in Nat
    BY <1>0, <1>1, <1>2
  <2>4. z < s
    BY <1>0, <1>1, <1>2, <2>2, <2>3
  <2> QED BY <1>0, <2>4
<1> QED BY <1>1, <1>2, <1>3 DEF d, f

\* The tracking a write leaves behind is right.
LEMMA TrackRight ==
  ASSUME TypeOK, CacheRight, NEW p \in Seeks, p.lba = p.dsk,
         NEW wt \in {0, 1, 2}, NEW v \in Val, WRITE(p, wt, v),
         FillRight(UnaStart(p, wt).pos, UnaStart(p, wt).cnt),
         want' = Owed(IF status' = "ok" THEN [want EXCEPT ![RecOf(p)] = v]
                                        ELSE want)
  PROVE  FillRight(una, unacnt)'
<1> DEFINE r == RecOf(p)
           n == UnaStart(p, wt).cnt
<1>1. CASE ~Sequential(p, wt)
  <2>1. unacnt' = 0
    BY <1>1 DEF WRITE, Track
  <2> QED BY <2>1 DEF FillRight
<1>2. CASE Sequential(p, wt)
  <2>1. wt # 1 /\ UnaStart(p, wt).pos = r /\ n > 0
    BY <1>2 DEF Sequential
  <2>2. una' = UnaNext(r) /\ unacnt' = n - 1
    BY <1>2, <2>1 DEF WRITE, Track
  <2>3. FillFresh(r, n) /\ FillBehind(r) /\ (Pos(r) + n) % RPS = 0
    BY <2>1 DEF FillRight
  <2>4. n \in Nat
    BY GeometryAssumption DEF UnaStart, TypeOK, BlkTypeOK
  <2>5. r \in Rec /\ Pos(r) \in Nat /\ r \in UnaPos
    BY XltType, PosInNat, GeometryAssumption DEF Rec, UnaPos, Trk
  <2>6. Pos(una') = Pos(r) + 1
    BY <2>2, <2>5, UnaNextPos
  <2>7. \A q \in Rec : want'[q] # Undef /\ q # r => want'[q] = want[q]
    BY <2>5 DEF Owed, TypeOK
  <2>8. want[r] = Undef
    BY <2>1, <2>3, <2>4, <2>5 DEF FillFresh
  <2>9. FillFresh(una, unacnt)'
    <3> SUFFICES ASSUME NEW q \in Rec, q.dsk = una'.dsk,
                        Pos(q) \in Pos(una')..(Pos(una') + unacnt' - 1)
                 PROVE  want'[q] = Undef
      BY DEF FillFresh, Pos
    <3>1. q.dsk = r.dsk
      BY <2>2 DEF UnaNext
    <3>2. Pos(q) \in Pos(r)..(Pos(r) + n - 1) /\ Pos(q) # Pos(r)
      BY <2>2, <2>4, <2>5, <2>6
    <3>3. want[q] = Undef /\ q # r
      BY <2>3, <3>1, <3>2 DEF FillFresh
    <3> QED BY <2>7, <3>3
  <2>10. FillBehind(una)'
    <3> SUFFICES ASSUME NEW q \in Rec, q.dsk = una'.dsk, q.trk = una'.trk,
                        q.sec \div RPS = una'.sec \div RPS,
                        q.sec < una'.sec, want'[q] # Undef
                 PROVE  hstact' /\ hstwrt' /\ Addr(hst') = Home(q)
      BY DEF FillBehind, Addr, Home
    <3>1. q.sec \in Sec /\ r.sec \in Sec
      BY <2>5 DEF Rec
    <3>2. r.sec + 1 # SPT
      BY <2>2, <3>1 DEF UnaNext, Sec
    <3>3. una'.sec = r.sec + 1 /\ una'.trk = r.trk /\ una'.dsk = r.dsk
      BY <2>2, <3>2 DEF UnaNext
    <3>4. q.sec <= r.sec /\ una'.sec \in Sec /\ r.sec <= una'.sec
      BY <3>1, <3>2, <3>3, GeometryAssumption DEF Sec
    <3>5. q.sec \div RPS = r.sec \div RPS
      <4>1. q.sec \div RPS <= r.sec \div RPS
        BY <3>1, <3>4, DivMonotone
      <4>2. r.sec \div RPS <= una'.sec \div RPS
        BY <3>1, <3>4, DivMonotone
      <4>3. r.sec \div RPS \in Int /\ q.sec \div RPS \in Int
        BY <3>1, SectorRange
      <4> QED BY <4>1, <4>2, <4>3
    <3>6. Home(q) = Home(r) /\ Addr(Xlt(p)) = Home(r)
      BY <3>3, <3>5, XltHome DEF Home
    <3>7. CASE FlushFails(p)
      <4>1. want' = Owed(want)
        BY <3>7 DEF FlushFails
      <4>2. q # r /\ want[q] # Undef
        BY <2>5, <2>8, <4>1 DEF Owed
      <4>3. q.sec < r.sec
        BY <2>5, <3>1, <3>3, <3>4, <4>2 DEF Rec, Sec
      <4>4. hstact /\ Addr(hst) = Home(q)
        BY <2>3, <3>3, <3>5, <4>2, <4>3 DEF FillBehind
      <4>5. Cached(p)
        BY <3>6, <4>4, CachedByAddress DEF CacheRight, TypeOK, BlkTypeOK
      <4> QED BY <3>7, <4>5 DEF FlushFails
    <3>8. CASE LoadFails(p, Sequential(p, wt))
      BY <1>2, <3>8 DEF LoadFails
    <3>9. CASE hstwrt' = TRUE /\ LoadWorks(p)
      BY <3>6, <3>9 DEF LoadWorks
    <3> QED BY <2>1, <3>7, <3>8, <3>9 DEF WRITE
  <2>11. (Pos(una') + unacnt') % RPS = 0
    BY <2>2, <2>3, <2>4, <2>5, <2>6
  <2> QED BY <2>9, <2>10, <2>11 DEF FillRight, Pos
<1> QED BY <1>1, <1>2

\* Owing less keeps a fill right.
LEMMA FillWeaker ==
  ASSUME FillRight(una, unacnt),
         UNCHANGED <<una, unacnt>>,
         \A q \in Rec : want'[q] \in {want[q], Undef},
         hstwrt' = hstwrt, hst' = hst, hstact /\ hstwrt => hstact'
  PROVE  FillRight(una, unacnt)'
<1>1. FillFresh(una, unacnt) => FillFresh(una, unacnt)'
  BY DEF FillFresh, Pos
<1>2. FillBehind(una) => FillBehind(una)'
  BY DEF FillBehind, Addr, Home
<1> QED BY <1>1, <1>2 DEF FillRight, Pos
---------------------------------------------------------------------------
\* A cold start establishes the invariant.
LEMMA InvInit == Init => CacheRight /\ DrivesRight /\ FillRight(una, unacnt)
                         /\ FreeIsUndef
<1> SUFFICES ASSUME Init
             PROVE  CacheRight /\ DrivesRight /\ FillRight(una, unacnt)
                    /\ FreeIsUndef
  OBVIOUS
<1>1. PICK v \in Val : /\ dma = v
                       /\ media = [s \in Sector |-> [i \in Slot |-> v]]
  BY DEF Init, BlkInit
<1>2. ~hstact /\ ~hstwrt /\ unacnt = 0 /\ mode = "boot" /\ logged = {}
      /\ want = [r \in Rec |-> IF IsDir(r) THEN dma ELSE Undef]
  BY DEF Init, BlkInit
<1>3. OneSectorAtRisk
  <2> SUFFICES ASSUME NEW r \in Rec, want[r] # Undef
               PROVE  OnMedia(r) = want[r]
    BY DEF OneSectorAtRisk
  <2>1. want[r] = v
    BY <1>1, <1>2
  <2>2. OnMedia(r) = v
    BY <1>1, HomeType DEF OnMedia
  <2> QED BY <2>1, <2>2
<1> QED BY <1>2, <1>3 DEF CacheRight, BufferRight, NoStrayAddress,
                          DrivesRight, FillRight, FreeIsUndef

\* The records that cannot be lost to a call become no promise.
LEMMA OwedLess ==
  ASSUME TypeOK, NEW q \in Rec, want' = Owed(want)
  PROVE  want'[q] \in {want[q], Undef}
  BY DEF Owed

\* SELDSK, whether it logs the drive in or not, leaves the offset sought and
\* the one in the DPH right unless it reports an error.
LEMMA SelectRight ==
  ASSUME TypeOK, NEW d \in Disk, NEW login \in BOOLEAN, SELDSK(d, login),
         ~login => dphlba[d] = d
  PROVE  /\ status' = "ok" => sek'.lba = sek'.dsk /\ dphlba'[d] = d
         /\ \A e \in Disk : dphlba[e] = e => dphlba'[e] = e
<1>1. sek \in Seeks /\ dphlba \in [Disk -> Lba]
  BY DEF TypeOK, BlkTypeOK
<1>2. CASE ~login
  BY <1>1, <1>2 DEF SELDSK, Seeks
<1>3. CASE login
  BY <1>1, <1>3 DEF SELDSK, Seeks
<1> QED BY <1>2, <1>3

\* Every call of the BDOS keeps the invariant.
LEMMA InvNext ==
  ASSUME ~RandomAccess, TypeOK, CacheRight, DrivesRight,
         FillRight(una, unacnt), FreeIsUndef, [Next]_vars
  PROVE  (CacheRight /\ DrivesRight /\ FillRight(una, unacnt)
          /\ FreeIsUndef)'
<1>1. CASE BdosRead
  <2>1. PICK t \in Trk, s \in Sec : READ(Seek(t, s))
    BY <1>1 DEF BdosRead
  <2> DEFINE p == Seek(t, s)
  <2>2. p \in Seeks /\ p.lba = p.dsk /\ p.lba = sek.lba /\ p.dsk = sek.dsk
    BY <1>1, SeekType DEF BdosRead, DrivesRight, Seek, TypeOK, BlkTypeOK, Seeks
  <2>3. want' = Owed(want) /\ sek' = p
    BY <1>1, <2>1 DEF BdosRead, READ
  <2>4. CacheRight'
    BY <2>1, <2>2, <2>3, ReadSafe
  <2>5. DrivesRight'
    BY <1>1, <2>1, <2>2, <2>3 DEF DrivesRight, BdosRead, READ
  <2>6. FillRight(una, unacnt)'
    BY <2>1 DEF FillRight, READ
  <2>7. FreeIsUndef'
    BY <1>1, <2>3, OwedLess DEF FreeIsUndef, BdosRead, IsDir, BlockOf, Pos
  <2> QED BY <2>4, <2>5, <2>6, <2>7
<1>2. CASE BdosWrite
  <2>1. PICK t \in Trk, s \in Sec, v \in Val :
          LET p == Seek(t, s)
              r == RecOf(p)
          IN /\ MayWrite(r)
             /\ WRITE(p, WriteType(r), v)
             /\ want' = Owed(IF status' = "ok" THEN [want EXCEPT ![r] = v]
                                               ELSE want)
             /\ alloc' = IF IsDir(r) THEN alloc ELSE alloc \cup {BlockOf(r)}
    BY <1>2 DEF BdosWrite
  <2> DEFINE p == Seek(t, s)
             r == RecOf(p)
             wt == WriteType(r)
  <2>2. p \in Seeks /\ p.lba = p.dsk /\ p.lba = sek.lba /\ p.dsk = sek.dsk
    BY <1>2, SeekType DEF BdosWrite, DrivesRight, Seek, TypeOK, BlkTypeOK, Seeks
  <2>3. wt \in {0, 1, 2} /\ r \in Rec
    BY <2>2, XltType DEF WriteType
  <2>4. FillRight(UnaStart(p, wt).pos, UnaStart(p, wt).cnt)
    <3>1. MayWrite(RecOf(p))
      BY <2>1
    <3> HIDE DEF p
    <3> QED BY <2>2, <3>1, StartRight
  <2>5. CacheRight'
    <3>1. Sequential(p, wt) =>
            \A q \in Rec : /\ Home(q) = Home(RecOf(p)) /\ q # RecOf(p)
                           /\ want[q] # Undef
                           => Cached(p)
      <4> HIDE DEF p, wt
      <4> QED BY <2>2, <2>3, <2>4, SkipSafe
    <3>2. WRITE(p, wt, v)
          /\ want' = Owed(IF status' = "ok" THEN [want EXCEPT ![RecOf(p)] = v]
                                            ELSE want)
      BY <2>1
    <3> HIDE DEF p, wt
    <3> QED BY <2>2, <2>3, <3>1, <3>2, WriteSafe
  <2>6. FillRight(una, unacnt)'
    <3>1. WRITE(p, wt, v)
          /\ want' = Owed(IF status' = "ok" THEN [want EXCEPT ![RecOf(p)] = v]
                                            ELSE want)
      BY <2>1
    <3> HIDE DEF p, wt
    <3> QED BY <2>2, <2>3, <2>4, <3>1, TrackRight
  <2>7. DrivesRight'
    BY <1>2, <2>1, <2>2 DEF DrivesRight, BdosWrite, WRITE
  <2>8. FreeIsUndef'
    <3> SUFFICES ASSUME NEW q \in Rec, ~IsDir(q), BlockOf(q) \notin alloc'
                 PROVE  want'[q] = Undef
      BY DEF FreeIsUndef, IsDir, BlockOf, Pos
    <3>1. q # r /\ BlockOf(q) \notin alloc
      BY <2>1
    <3>2. want[q] = Undef
      BY <3>1 DEF FreeIsUndef
    <3>3. want' = Owed(IF status' = "ok" THEN [want EXCEPT ![r] = v] ELSE want)
      BY <2>1
    <3> HIDE DEF r, p
    <3> QED BY <3>1, <3>2, <3>3 DEF Owed, TypeOK
  <2> QED BY <2>5, <2>6, <2>7, <2>8
<1>3. CASE BdosHome
  <2>1. UNCHANGED <<dphlba, hst, hstwrt, buf, una, unacnt, media, want, alloc,
                    logged, mode>>
        /\ hstact' = (hstact /\ hstwrt)
        /\ sek' = [sek EXCEPT !.trk = 0]
    BY <1>3 DEF BdosHome, HOME, cvars
  <2>2. BufferRight' /\ OneSectorAtRisk' /\ NoStrayAddress'
    BY <2>1 DEF CacheRight, BufferRight, OneSectorAtRisk, NoStrayAddress,
                OnMedia, Home, Addr
  <2>3. DrivesRight'
    BY <2>1 DEF DrivesRight, TypeOK, BlkTypeOK, Seeks
  <2>4. FillRight(una, unacnt)'
    BY <2>1, FillWeaker
  <2>5. FreeIsUndef'
    BY <2>1 DEF FreeIsUndef, IsDir, BlockOf, Pos
  <2> QED BY <2>2, <2>3, <2>4, <2>5 DEF CacheRight
<1>4. CASE BdosSelect
  <2>1. \/ SELDSKUnmapped /\ UNCHANGED logged /\ mode' = "selerr"
        \/ \E d \in Disk :
             /\ SELDSK(d, d \notin logged)
             /\ logged' = IF status' = "ok" THEN logged \cup {d} ELSE logged
             /\ mode' = IF status' = "ok" THEN "run" ELSE "selerr"
    BY <1>4 DEF BdosSelect, SELDSKUnmapped
  <2>2. UNCHANGED <<hst, hstact, hstwrt, buf, una, unacnt, media, want, alloc>>
    BY <1>4, <2>1 DEF BdosSelect, SELDSK, SELDSKUnmapped
  <2>3. BufferRight' /\ OneSectorAtRisk' /\ NoStrayAddress'
    BY <2>2 DEF CacheRight, BufferRight, OneSectorAtRisk, NoStrayAddress,
                OnMedia, Home, Addr
  <2>4. DrivesRight'
    <3>1. CASE SELDSKUnmapped /\ UNCHANGED logged /\ mode' = "selerr"
      BY <3>1 DEF DrivesRight, SELDSKUnmapped
    <3>2. ASSUME NEW d \in Disk, SELDSK(d, d \notin logged),
                 logged' = IF status' = "ok" THEN logged \cup {d} ELSE logged,
                 mode' = IF status' = "ok" THEN "run" ELSE "selerr"
          PROVE  DrivesRight'
      <4>1. /\ status' = "ok" => sek'.lba = sek'.dsk /\ dphlba'[d] = d
            /\ \A e \in Disk : dphlba[e] = e => dphlba'[e] = e
        BY <3>2, SelectRight DEF DrivesRight
      <4> QED BY <3>2, <4>1 DEF DrivesRight, TypeOK
    <3> QED BY <2>1, <3>1, <3>2
  <2>5. FillRight(una, unacnt)' /\ FreeIsUndef'
    BY <2>2 DEF FillRight, FillFresh, FillBehind, FreeIsUndef, IsDir, BlockOf,
                Pos, Home, Addr
  <2> QED BY <2>3, <2>4, <2>5 DEF CacheRight
<1>5. CASE BdosReboot
  <2>1. UNCHANGED <<sek, dphlba, hst, hstwrt, buf, una, media, want, alloc>>
        /\ hstact' = FALSE /\ unacnt' = 0 /\ logged' = logged /\ mode' = "boot"
    BY <1>5 DEF BdosReboot, WBOOT
  <2>2. BufferRight' /\ OneSectorAtRisk' /\ NoStrayAddress'
    BY <2>1 DEF CacheRight, BufferRight, OneSectorAtRisk, NoStrayAddress,
                OnMedia, Home, Addr
  <2> QED BY <2>1, <2>2 DEF CacheRight, DrivesRight, FillRight, FreeIsUndef,
                            IsDir, BlockOf, Pos
<1>6. CASE BdosReset
  <2>1. SELDSK(DriveA, TRUE) /\ DriveA \in Disk
        /\ IF status' = "ok" THEN logged' = {DriveA} /\ mode' = "run"
                             ELSE logged' = {} /\ mode' = "selerr"
    BY <1>6, ClientAssumption DEF BdosReset
  <2>2. UNCHANGED <<hst, hstact, hstwrt, buf, una, unacnt, media, want, alloc>>
    BY <1>6 DEF BdosReset, SELDSK
  <2>3. DrivesRight'
    <3>1. status' = "ok" => sek'.lba = sek'.dsk /\ dphlba'[DriveA] = DriveA
      BY <2>1, SelectRight
    <3> QED BY <2>1, <3>1 DEF DrivesRight
  <2>4. BufferRight' /\ OneSectorAtRisk' /\ NoStrayAddress'
    BY <2>2 DEF CacheRight, BufferRight, OneSectorAtRisk, NoStrayAddress,
                OnMedia, Home, Addr
  <2>5. FillRight(una, unacnt)' /\ FreeIsUndef'
    BY <2>2 DEF FillRight, FillFresh, FillBehind, FreeIsUndef, IsDir, BlockOf,
                Pos, Home, Addr
  <2> QED BY <2>3, <2>4, <2>5 DEF CacheRight
<1>7. CASE BdosErase
  <2>1. PICK b \in alloc :
          /\ alloc' = alloc \ {b}
          /\ want' = [r \in Rec |-> IF BlockOf(r) = b THEN Undef ELSE want[r]]
    BY <1>7 DEF BdosErase
  <2>2. UNCHANGED <<sek, dphlba, hst, hstact, hstwrt, buf, una, unacnt, media,
                    logged, mode>>
    BY <1>7 DEF BdosErase, blkvars
  <2>3. \A q \in Rec : want'[q] \in {want[q], Undef}
    BY <2>1
  <2>4. BufferRight' /\ OneSectorAtRisk' /\ NoStrayAddress'
    BY <2>2, <2>3 DEF CacheRight, BufferRight, OneSectorAtRisk, NoStrayAddress,
                      OnMedia, Home, Addr
  <2>5. FillRight(una, unacnt)'
    BY <2>2, <2>3, FillWeaker
  <2>6. FreeIsUndef'
    BY <2>1 DEF FreeIsUndef, IsDir, BlockOf, Pos
  <2>7. DrivesRight'
    BY <2>2 DEF DrivesRight
  <2> QED BY <2>4, <2>5, <2>6, <2>7 DEF CacheRight
<1>8. CASE UNCHANGED vars
  BY <1>8 DEF vars, blkvars, cvars, CacheRight, BufferRight, OneSectorAtRisk,
              NoStrayAddress, OnMedia, Home, Addr, DrivesRight, FillRight,
              FillFresh, FillBehind, FreeIsUndef, IsDir, BlockOf, Pos
<1> QED BY <1>1, <1>2, <1>3, <1>4, <1>5, <1>6, <1>7, <1>8 DEF Next

\* The invariant holds of every state reached by sequential writers.
LEMMA InvHolds ==
  ASSUME ~RandomAccess
  PROVE  Spec => []Inv
<1>1. Init /\ TypeOK => Inv
  BY InvInit DEF Inv
<1>2. Inv /\ TypeOK' /\ [Next]_vars => Inv'
  BY InvNext DEF Inv
<1>3. Spec => []TypeOK
  BY TypeCorrect
<1> QED BY <1>1, <1>2, <1>3, PTL DEF Spec

\* Every record still reads as it was last written: blocking, deblocking,
\* the deferred write and the skipped pre-read (BLKRW) lose nothing that the
\* caller was not told about.
THEOREM NothingIsLost ==
  ASSUME ~RandomAccess
  PROVE  Spec => []Coherent
<1>1. Inv => Coherent
  <2> SUFFICES ASSUME Inv, NEW r \in Rec, want[r] # Undef
               PROVE  Visible(r) = want[r]
    BY DEF Coherent
  <2>1. CASE (hstact \/ hstwrt) /\ Addr(hst) = Home(r)
    BY <2>1 DEF Inv, CacheRight, BufferRight, Visible
  <2>2. CASE ~((hstact \/ hstwrt) /\ Addr(hst) = Home(r))
    BY <2>2 DEF Inv, CacheRight, OneSectorAtRisk, Visible
  <2> QED BY <2>1, <2>2
<1> QED BY <1>1, InvHolds, PTL

\* Everything owed is on the media, but for the sector pending in DSKBUF.
THEOREM AtMostOneSectorAtRisk ==
  ASSUME ~RandomAccess
  PROVE  Spec => []OneSectorAtRisk
<1>1. Inv => OneSectorAtRisk
  BY DEF Inv, CacheRight
<1> QED BY <1>1, InvHolds, PTL

\* No transfer goes to the LBA offset 0 of a failed drive login.
THEOREM NoTransferStrays ==
  ASSUME ~RandomAccess
  PROVE  Spec => []NoStrayAddress
<1>1. Inv => NoStrayAddress
  BY DEF Inv, CacheRight
<1> QED BY <1>1, InvHolds, PTL

\* The tracking of sequential writes (UNA_INI, UNA_CHK, UNA_INC) never
\* reaches a record that something is owed about.
THEOREM FillsStayFresh ==
  ASSUME ~RandomAccess
  PROVE  Spec => []FillIsFresh
<1>1. Inv => FillIsFresh
  BY DEF Inv, FillRight, FillFresh, FillIsFresh
<1> QED BY <1>1, InvHolds, PTL

\* A READ that reports success delivers the last record written there.
THEOREM ReadsAreRight ==
  ASSUME ~RandomAccess
  PROVE  Spec => ReadsTheLastWrite
<1>1. Inv /\ [Next]_vars =>
        [BdosRead /\ status' = "ok" /\ want[RecOf(sek')] # Undef
           => dma' = want[RecOf(sek')]]_vars
  <2> SUFFICES ASSUME Inv, BdosRead, status' = "ok",
                      want[RecOf(sek')] # Undef
               PROVE  dma' = want[RecOf(sek')]
    OBVIOUS
  <2>1. PICK t \in Trk, s \in Sec : READ(Seek(t, s))
    BY DEF BdosRead
  <2>2. Seek(t, s) \in Seeks /\ Seek(t, s).lba = Seek(t, s).dsk
    BY SeekType
       DEF BdosRead, Inv, DrivesRight, Seek, TypeOK, BlkTypeOK, Seeks
  <2>3. want' = Owed(want) /\ sek' = Seek(t, s)
    BY <2>1 DEF BdosRead, READ
  <2> QED BY <2>1, <2>2, <2>3, ReadSafe DEF Inv
<1>2. Spec => []Inv
  BY InvHolds
<1> QED BY <1>1, <1>2, PTL DEF Spec, ReadsTheLastWrite

\* What a call writes, at the record the seek variables name afterwards.
LEMMA WriteIs ==
  ASSUME Inv, BdosWrite
  PROVE  \E v \in Val :
           LET r == RecOf(sek')
           IN /\ r \in Rec /\ sek' \in Seeks /\ WRITE(sek', WriteType(r), v) /\ dma' = v
              /\ want' = Owed(IF status' = "ok" THEN [want EXCEPT ![r] = v] ELSE want)
<1>1. PICK t \in Trk, s \in Sec, v \in Val :
        LET p == Seek(t, s)
            r == RecOf(p)
        IN /\ WRITE(p, WriteType(r), v)
           /\ want' = Owed(IF status' = "ok" THEN [want EXCEPT ![r] = v] ELSE want)
  BY DEF BdosWrite
<1> DEFINE p == Seek(t, s)
<1>2. p \in Seeks /\ sek' = p /\ dma' = v
  BY <1>1, SeekType DEF Inv, TypeOK, WRITE
<1>3. RecOf(p) \in Rec
  BY <1>2, XltType
<1> QED BY <1>1, <1>2, <1>3

\* When a directory write reports success, every record accepted before it is
\* on the media: BLKRW7 has flushed the buffer, and the pending sector before it.
THEOREM DirectoryFollowsData ==
  ASSUME ~RandomAccess
  PROVE  Spec => DirectoryIsBarrier
<1>1. Inv /\ Inv' /\ [Next]_vars =>
        [BdosWrite /\ IsDir(RecOf(sek')) /\ status' = "ok"
           => \A r \in Rec : want'[r] # Undef => OnMedia(r)' = want'[r]]_vars
  <2> SUFFICES ASSUME Inv, Inv', BdosWrite, IsDir(RecOf(sek')), status' = "ok",
                      NEW r \in Rec, want'[r] # Undef
               PROVE  OnMedia(r)' = want'[r]
    OBVIOUS
  <2>1. PICK v \in Val : WRITE(sek', WriteType(RecOf(sek')), v)
    BY WriteIs
  <2>2. WriteType(RecOf(sek')) = 1
    BY DEF WriteType
  <2>3. hstwrt' = FALSE
    BY <2>1, <2>2 DEF WRITE, FlushFails, LoadFails
  <2> QED BY <2>3 DEF Inv, CacheRight, OneSectorAtRisk
<1>2. Spec => []Inv
  BY InvHolds
<1> QED BY <1>1, <1>2, PTL DEF Spec, DirectoryIsBarrier
---------------------------------------------------------------------------
(***************************************************************************)
(* The BIOS implements the store of records.                               *)
(***************************************************************************)
\* What the store holds: what a READ would deliver, where something is owed.
Stored == [r \in Rec |-> IF want[r] = Undef THEN Undef ELSE Visible(r)]

\* It is what is owed.
LEMMA StoredIsWant ==
  ASSUME Inv
  PROVE  Stored = want
<1>1. \A r \in Rec : want[r] # Undef => Visible(r) = want[r]
  BY DEF Inv, CacheRight, BufferRight, OneSectorAtRisk, Visible
<1> QED BY <1>1 DEF Stored, Inv, TypeOK

\* A call that fails, and one that gives space back, only drops promises.
LEMMA OnlyVoids ==
  ASSUME Inv, want' = Owed(want)
  PROVE  /\ want' \in [Rec -> Val \cup {Undef}]
         /\ \A r \in Rec : want'[r] \in {want[r], Undef}
  BY DEF Inv, TypeOK, Owed

\* Every call is one of the store, or none.
LEMMA StoreStep ==
  ASSUME ~RandomAccess, Inv, Inv', [Next]_vars
  PROVE  [Store!Next]_(Store!vars)
<1>1. Stored = want /\ Stored' = want'
  <2>1. Stored = want
    BY StoredIsWant
  <2>2. Inv' => Stored' = want'
    <3>1. Inv => Stored = want
      BY StoredIsWant
    <3>2. (Inv => Stored = want)'
      BY StoredIsWant, PTL
    <3> QED BY <3>2
  <2> QED BY <2>1, <2>2
<1>2. want \in [Rec -> Val \cup {Undef}] /\ dma \in Val /\ dma' \in Val
      /\ status \in {"ok", "err"} /\ status' \in {"ok", "err"}
  BY DEF Inv, TypeOK, BlkTypeOK
<1>3. ASSUME want' = want, dma' = dma, status' = status \/ status' = "ok"
      PROVE  Store!Control \/ UNCHANGED Store!vars
  BY <1>1, <1>3 DEF Store!Control, Store!vars, Stored
<1>4. ASSUME want' \in [Rec -> Val \cup {Undef}], \A r \in Rec : want'[r] \in {want[r], Undef}
      PROVE  Store!Voided
  BY <1>1, <1>4 DEF Store!Voided, Stored
<1>5. ASSUME status' = "err", want' = Owed(want) PROVE Store!Fail
  <2>1. Store!Voided
    BY <1>4, <1>5, OnlyVoids
  <2> QED BY <1>2, <1>5, <2>1 DEF Store!Fail
<1>6. CASE BdosRead
  <2>1. PICK t \in Trk, s \in Sec : READ(Seek(t, s))
    BY <1>6 DEF BdosRead
  <2> DEFINE p == Seek(t, s)
             r == RecOf(p)
  <2>2. p \in Seeks /\ p.lba = p.dsk /\ want' = Owed(want)
    BY <1>6, SeekType DEF BdosRead, Inv, DrivesRight, Seek, TypeOK, BlkTypeOK, Seeks
  <2>3. r \in Rec
    BY <2>2, XltType
  <2>4. CASE status' = "ok"
    <3>1. want[r] # Undef => dma' = want[r]
      <4> HIDE DEF p
      <4>1. READ(p)
        BY <2>1 DEF p
      <4> QED BY <2>2, <2>4, <4>1, ReadSafe DEF Inv
    <3>2. want' = want
      <4>1. lost' = {}
        BY <2>1, <2>4 DEF READ, FlushFails, LoadFails, LoadWorks
      <4> QED BY <1>2, <2>2, <4>1 DEF Owed
    <3> HIDE DEF r
    <3>3. Store!Read(r)
      BY <1>1, <1>2, <2>3, <2>4, <3>1, <3>2 DEF Store!Read, Stored
    <3> QED BY <2>3, <3>3 DEF Store!Next
  <2>5. CASE status' # "ok"
    BY <1>2, <1>5, <2>2, <2>5 DEF Store!Next
  <2> QED BY <2>4, <2>5
<1>7. CASE BdosWrite
  <2> DEFINE r == RecOf(sek')
  <2>1. PICK v \in Val :
          /\ r \in Rec /\ WRITE(sek', WriteType(r), v) /\ dma' = v
          /\ want' = Owed(IF status' = "ok" THEN [want EXCEPT ![r] = v] ELSE want)
    BY <1>7, WriteIs
  <2>2. CASE status' = "ok"
    <3>1. lost' = {}
      BY <2>1, <2>2 DEF WRITE, FlushFails, LoadFails, LoadWorks, ForceOut
    <3>2. PICK q \in Rec : q = r
      BY <2>1
    <3> HIDE DEF r
    <3>3. want' = [want EXCEPT ![q] = v]
      BY <1>2, <2>1, <2>2, <3>1, <3>2 DEF Owed
    <3>4. Stored' = [Stored EXCEPT ![q] = dma']
      BY <1>1, <2>1, <3>3
    <3>5. Store!Write(q)
      BY <1>2, <2>2, <3>4, Zenon DEF Store!Write, Stored
    <3> QED BY <3>5 DEF Store!Next
  <2>3. CASE status' # "ok"
    BY <1>2, <1>5, <2>1, <2>3 DEF Store!Next
  <2> QED BY <2>2, <2>3
<1>8. CASE BdosHome
  BY <1>3, <1>8 DEF BdosHome, HOME, cvars, Store!Next
<1>9. CASE BdosSelect \/ BdosReset
  <2>1. want' = want /\ dma' = dma
    BY <1>9 DEF BdosSelect, BdosReset, SELDSK, SELDSKUnmapped
  <2>2. CASE status' = "ok"
    BY <1>3, <2>1, <2>2 DEF Store!Next
  <2>3. CASE status' # "ok"
    <3>1. Store!Voided
      BY <1>2, <1>4, <2>1
    <3>2. Store!Fail
      BY <1>2, <2>3, <3>1 DEF Store!Fail
    <3> QED BY <3>2 DEF Store!Next
  <2> QED BY <2>2, <2>3
<1>10. CASE BdosReboot
  BY <1>3, <1>10 DEF BdosReboot, WBOOT, Store!Next
<1>11. CASE BdosErase
  <2>1. PICK b \in alloc : want' = [r \in Rec |-> IF BlockOf(r) = b THEN Undef ELSE want[r]]
    BY <1>11 DEF BdosErase
  <2>2. Store!Voided
    BY <1>2, <1>4, <2>1
  <2>3. Store!Release
    BY <1>11, <2>2 DEF Store!Release, BdosErase, blkvars
  <2> QED BY <2>3 DEF Store!Next
<1>12. CASE UNCHANGED vars
  BY <1>3, <1>12 DEF vars, blkvars, cvars, Store!Next
<1> QED BY <1>6, <1>7, <1>8, <1>9, <1>10, <1>11, <1>12 DEF Next

\* The BIOS with its buffer, its deferred writes and its skipped reads is a store
\* of records that changes only what a WRITE names, and drops a promise only with an
\* error.
THEOREM ImplementsRecords ==
  ASSUME ~RandomAccess
  PROVE  Spec => ImplementsStore
<1>1. Init => Store!Init
  <2> SUFFICES ASSUME Init PROVE Store!Init
    OBVIOUS
  <2>1. Inv
    BY TypeInit, InvInit DEF Inv
  <2> QED BY <2>1, StoredIsWant DEF Store!Init, Stored, Inv, TypeOK, BlkTypeOK, Init, BlkInit
<1>2. Inv /\ Inv' /\ [Next]_vars => [Store!Next]_(Store!vars)
  BY StoreStep
<1>3. Spec => []Inv
  BY InvHolds
<1> QED BY <1>1, <1>2, <1>3, PTL DEF Spec, ImplementsStore, Store!Spec
============================================================================
