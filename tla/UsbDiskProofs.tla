---------------------------- MODULE UsbDiskProofs ---------------------------
(***************************************************************************)
(* For any disks: a call that succeeds has moved the right sectors, and    *)
(* every transfer of it addresses the disk that it is for.                 *)
(***************************************************************************)
EXTENDS UsbDisk, SequenceTheorems, TLAPS

---------------------------------------------------------------------------
(* The critical section.                                                    *)

\* How often it has been entered.
CritIs ==
  /\ pc \in {"idle", "sector", "next", "return", "end"} \cup Transfer
  /\ pc \in {"idle", "sector", "next", "return"} => crit = 0 /\ ~open
  /\ pc = "end" => crit = 1 /\ ~open
  /\ pc \in Transfer => crit = IF open THEN 2 ELSE 1

BusRight ==
  /\ addr \in Disk \cup {"kbd", none} /\ retry = "3s" /\ open \in BOOLEAN
  /\ CritIs
  /\ open => addr = call.dev
  /\ pc # "idle" => call.dev \in Disk

LEMMA BusInitRight == DiskInit => BusRight
BY DEF DiskInit, BusRight, CritIs, Transfer

\* A transfer that ends leaves the command in the section.
LEMMA EndsRight ==
  ASSUME BusRight, NEW p, Ends(p),
         pc' \in {"end"} \cup Transfer, call' = call
  PROVE  BusRight'
<1>1. pc \in Transfer /\ crit = 2
  BY DEF BusRight, CritIs, Ends, Transfer
<1>2. CritIs'
  BY <1>1 DEF CritIs, Ends, CriticalEnd, Transfer
<1> QED BY <1>1, <1>2 DEF BusRight, Ends, Transfer

LEMMA BusStepRight == BusRight /\ DiskNext => BusRight'
<1> SUFFICES ASSUME BusRight, DiskNext PROVE BusRight'
  OBVIOUS
<1> USE DEF BusRight, CritIs, Transfer, bus
<1>1. ASSUME NEW d \in Disk, NEW l \in Sector, Seek(d, l) PROVE BusRight'
  BY <1>1 DEF Seek
<1>2. ASSUME NEW d \in Disk, NEW op, NEW src, CallDisk(d, op, src) PROVE BusRight'
  BY <1>2 DEF CallDisk
<1>3. CASE Open
  BY <1>3 DEF Open, CriticalBegin, hbios
<1>4. CASE ScsiBegin
  BY <1>4 DEF ScsiBegin, CriticalBegin, hbios
<1>5. CASE ScsiEnd
  BY <1>5 DEF ScsiEnd, CriticalEnd, SectorReturns
<1>6. CASE Scsi /\ ~ScsiBegin /\ ~ScsiEnd
  BY <1>6, EndsRight DEF Scsi, CbwFails, DataFails, DataStoredButFails, CswFails,
     ScsiFails, CbwSent, DataIn, DataOut, CswIn, hbios
<1>7. CASE UfiBegin
  BY <1>7 DEF UfiBegin, Command, CriticalBegin, hbios
<1>8. CASE Adsc \/ BulkFails \/ BulkIn \/ BulkOut \/ BulkSense \/ Interrupt \/ ClearHalt
  BY <1>8, EndsRight DEF Adsc, BulkFails, BulkIn, BulkOut, BulkSense, Interrupt,
     ClearHalt, AfterBulk, hbios
<1>9. CASE CommandEnd
  BY <1>9 DEF CommandEnd, CriticalEnd, hbios
<1>10. CASE UfiNext
  BY <1>10 DEF UfiNext, Command, CriticalBegin, AskAgain, UfiReturns, SectorReturns
<1>11. CASE Return
  BY <1>11 DEF Return
<1> QED BY <1>1, <1>2, <1>3, <1>4, <1>5, <1>6, <1>7, <1>8, <1>9, <1>10, <1>11
        DEF DiskNext, Work, Scsi, Ufi, Read, Write

---------------------------------------------------------------------------
(* The call.                                                                *)

\* Each driver has transfers of its own; a sector is under way until all are
\* done, and the position of the disk follows what was done.
CallRight ==
  /\ pc \in {"cbw", "data", "csw"} => call.dev = "hd"
  /\ pc \in {"adsc", "bulk", "int", "clear", "next"} => call.dev = "fd"
  /\ pc # "idle" =>
       /\ call \in [dev : Disk, op : {"read", "write"}, lba : 0..Sectors, n : Count]
       /\ Len(mem) = call.n /\ done <= call.n /\ call.lba + call.n <= Sectors
       /\ current_lba[call.dev] = call.lba + IF call.dev = "hd" THEN done ELSE 0
       /\ call.op = "write" => \A i \in 1..Len(mem) : mem[i] \in Val
       /\ pc # "return" => done < call.n

DiskRight == DiskTypeOK /\ BusRight /\ CallRight

\* During a call, what it needs to know of the call.
LEMMA CallIs ==
  ASSUME DiskRight, pc # "idle"
  PROVE  /\ call \in [dev : Disk, op : {"read", "write"}, lba : 0..Sectors, n : Count]
         /\ call.dev \in Disk /\ call.op \in {"read", "write"}
         /\ call.lba \in Nat /\ call.n \in Nat /\ done \in Nat /\ Sectors \in Nat
         /\ pc # "return" => Lba \in Sector /\ done + 1 \in 1..Len(mem)
                             /\ done + 1 <= call.n
<1>1. call \in [dev : Disk, op : {"read", "write"}, lba : 0..Sectors, n : Count]
  BY DEF DiskRight, DiskTypeOK, CallRight
<1>2. /\ call.dev \in Disk /\ call.op \in {"read", "write"}
      /\ call.lba \in Nat /\ call.n \in Nat /\ Sectors \in Nat
  <2>1. /\ call.dev \in Disk /\ call.op \in {"read", "write"}
        /\ call.lba \in 0..Sectors /\ call.n \in Count
    BY <1>1
  <2>2. Sectors \in Nat /\ Count \subseteq Nat
    BY DiskAssumption
  <2>3. call.lba \in Nat
    BY <2>1, <2>2
  <2>4. call.n \in Nat
    BY <2>1, <2>2
  <2> QED BY <2>1, <2>2, <2>3, <2>4
<1>3. done \in Nat
  BY DEF DiskRight, DiskTypeOK
<1>4. ASSUME pc # "return" PROVE Lba \in Sector /\ done + 1 \in 1..Len(mem) /\ done + 1 <= call.n
  BY <1>1, <1>2, <1>3, <1>4 DEF DiskRight, CallRight, Lba, Sector
<1> QED BY <1>1, <1>2, <1>3, <1>4

LEMMA CallInitRight == DiskInit => CallRight
BY DEF DiskInit, CallRight

\* A call begins with nothing done, and a write with nothing but data.
LEMMA CallBegins ==
  ASSUME DiskTypeOK, NEW d \in Disk, NEW n \in Count, NEW op \in {"read", "write"},
         NEW src, DOMAIN src = 1..n, src \in Seq(Cell),
         op = "write" => \A i \in 1..n : src[i] \in Val,
         CallDisk(d, op, src)
  PROVE  CallRight'
<1>1. n \in Nat /\ Len(src) = n
  BY DiskAssumption
<1>2. current_lba[d] \in 0..Sectors /\ Sectors \in Nat
  BY DiskAssumption DEF DiskTypeOK
<1>3. /\ call' = [dev |-> d, op |-> op, lba |-> current_lba[d], n |-> n]
      /\ current_lba[d] + n <= Sectors
      /\ current_lba' = current_lba /\ mem' = src /\ done' = 0
      /\ pc' = IF n = 0 THEN "return" ELSE "sector"
  BY <1>1 DEF CallDisk
<1> QED BY <1>1, <1>2, <1>3 DEF CallRight

LEMMA CallStepRight == DiskRight /\ DiskNext => CallRight'
<1> SUFFICES ASSUME DiskRight, DiskNext PROVE CallRight'
  OBVIOUS
<1> USE DEF DiskRight, CallRight
<1>1. ASSUME NEW d \in Disk, NEW l \in Sector, Seek(d, l) PROVE CallRight'
  BY <1>1 DEF Seek
<1>2. ASSUME NEW d \in Disk, NEW n \in Count, Read(d, n) PROVE CallRight'
  <2> DEFINE src == [i \in 1..n |-> none]
  <2>1. src \in Seq(Cell)
    BY DiskAssumption DEF Cell
  <2>2. DOMAIN src = 1..n /\ CallDisk(d, "read", src)
    BY <1>2 DEF Read
  <2> QED BY <2>1, <2>2, CallBegins
<1>3. ASSUME NEW d \in Disk, NEW n \in Count, Write(d, n) PROVE CallRight'
  <2>1. PICK src \in [1..n -> Val] : CallDisk(d, "write", src)
    BY <1>3 DEF Write
  <2>2. n \in Nat /\ Val \subseteq Cell
    BY DiskAssumption DEF Cell
  <2>3. src \in Seq(Cell)
    BY <2>2
  <2> QED BY <2>1, <2>3, CallBegins
<1>4. CASE Open
  BY <1>4, Zenon DEF Open, hbios
<1>5. CASE ScsiBegin
  BY <1>5 DEF ScsiBegin, hbios
<1>6. CASE ScsiEnd
  <2>1. /\ call' = call /\ mem' = mem /\ pc' \in {"sector", "return"}
        /\ call.dev = "hd"
    BY <1>6 DEF ScsiEnd, SectorReturns
  <2>2. CASE res = "ok"
    <3>1. /\ current_lba'[call.dev] = call.lba + (done + 1) /\ done' = done + 1
          /\ pc' = IF done + 1 = call.n THEN "return" ELSE "sector"
      BY <1>6, <2>1, <2>2, CallIs DEF ScsiEnd, SectorReturns, Advance, DiskTypeOK
    <3> QED BY <1>6, <2>1, <3>1, CallIs DEF ScsiEnd
  <2>3. CASE res # "ok"
    BY <1>6, <2>1, <2>3, CallIs DEF ScsiEnd, SectorReturns, Advance
  <2> QED BY <2>2, <2>3
<1>7. CASE DataIn
  BY <1>7, CallIs DEF DataIn, Ends, Got, DiskTypeOK
<1>8. CASE Scsi /\ ~ScsiBegin /\ ~ScsiEnd /\ ~DataIn
  BY <1>8 DEF Scsi, CbwFails, DataFails, DataStoredButFails, CswFails,
     ScsiFails, CbwSent, DataOut, CswIn, Ends, hbios
<1>9. CASE UfiBegin
  BY <1>9 DEF UfiBegin, Command, hbios
<1>10. CASE BulkIn
  BY <1>10, CallIs DEF BulkIn, Ends, Got, AfterBulk, DiskTypeOK
<1>11. CASE Adsc \/ BulkFails \/ BulkOut \/ BulkSense \/ Interrupt \/ ClearHalt
  BY <1>11 DEF Adsc, BulkFails, BulkOut, BulkSense, Interrupt, ClearHalt, AfterBulk,
     Ends, hbios
<1>12. CASE CommandEnd
  BY <1>12 DEF CommandEnd, hbios
<1>13. CASE UfiNext
  BY <1>13, CallIs DEF UfiNext, Command, AskAgain, UfiReturns, SectorReturns
<1>14. CASE Return
  BY <1>14 DEF Return
<1> QED BY <1>1, <1>2, <1>3, <1>4, <1>5, <1>6, <1>7, <1>8, <1>9, <1>10, <1>11,
           <1>12, <1>13, <1>14
        DEF DiskNext, Work, Scsi, Ufi

---------------------------------------------------------------------------
(* Types.                                                                   *)

LEMMA NoPackets == <<>> \in Seq(Packet) /\ <<>> \in Seq(Cell)
OBVIOUS

LEMMA TypeInitRight == DiskInit => DiskTypeOK
<1> SUFFICES ASSUME DiskInit PROVE DiskTypeOK
  OBVIOUS
<1>1. current_lba \in [Disk -> 0..Sectors] /\ next_tag \in 0..Tags - 1 /\ tries \in 0..Tries
  BY DiskAssumption DEF DiskInit
<1>2. mem \in Seq(Cell) /\ pipe \in Seq(Packet)
  BY NoPackets DEF DiskInit
<1>3. addr \in Disk \cup {"kbd", none} /\ retry \in {"3s", "off"} /\ crit \in 0..2
  BY DEF DiskInit
<1>7. open \in BOOLEAN
  BY Zenon DEF DiskInit
<1>4. /\ pc \in {"idle", "sector", "end", "next", "return"} \cup Transfer
      /\ stage \in {"test", "ask", "sector", "sense", none}
  BY DEF DiskInit
<1>5. done \in Nat /\ status \in Result /\ res \in Result /\ key \in {0, 1} /\ sense \in {0, 1}
  BY DEF DiskInit, Result
<1>6. call = NoCall /\ media \in [Disk -> [Sector -> Val]] /\ halted \subseteq {"in", "out"}
  BY DEF DiskInit
<1> QED BY <1>1, <1>2, <1>3, <1>4, <1>5, <1>6, <1>7 DEF DiskTypeOK

\* What a transfer that ends leaves of its types to be shown.
LEMMA EndsTypes ==
  ASSUME DiskRight, NEW p, Ends(p), UNCHANGED <<current_lba, call, done, status, stage,
           tries, next_tag>>,
         mem' \in Seq(Cell), media' \in [Disk -> [Sector -> Val]], pipe' \in Seq(Packet),
         pc' \in {"end"} \cup Transfer, res' \in Result,
         sense' \in {0, 1}, key' \in {0, 1}, halted' \subseteq {"in", "out"}
  PROVE  DiskTypeOK'
<1>1. pc \in Transfer /\ crit = 2
  BY DEF DiskRight, BusRight, CritIs, Ends, Transfer
<1>2. crit' = 1 /\ open' = FALSE /\ UNCHANGED <<addr, retry>>
  BY <1>1 DEF Ends, CriticalEnd
<1>3. DiskTypeOK
  BY DEF DiskRight
<1>4. /\ addr' \in Disk \cup {"kbd", none} /\ retry' \in {"3s", "off"}
      /\ crit' \in 0..2
  BY <1>2, <1>3 DEF DiskTypeOK
<1>7. open' \in BOOLEAN
  BY <1>2, Zenon
<1>5. /\ pc' \in {"idle", "sector", "end", "next", "return"} \cup Transfer
      /\ stage' \in {"test", "ask", "sector", "sense", none}
      /\ tries' \in 0..Tries /\ next_tag' \in 0..Tags - 1 /\ done' \in Nat /\ status' \in Result
  BY <1>3 DEF DiskTypeOK
<1>6. /\ current_lba' \in [Disk -> 0..Sectors]
      /\ call' \in [dev : Disk, op : {"read", "write"}, lba : 0..Sectors, n : Count]
                  \cup {NoCall}
      /\ NoCall' = NoCall
  BY <1>3 DEF DiskTypeOK, NoCall
<1> QED BY <1>4, <1>5, <1>6, <1>7 DEF DiskTypeOK

\* A sector stored is data of the caller.
LEMMA StoredTypes ==
  ASSUME DiskRight, pc \in Transfer, call.op = "write", Stored
  PROVE  media' \in [Disk -> [Sector -> Val]]
<1>1. Lba \in Sector /\ Here \in Val /\ call.dev \in Disk
  BY CallIs DEF Transfer, DiskRight, CallRight, Here
<1> QED BY <1>1 DEF Stored, DiskRight, DiskTypeOK

\* A sector read goes to its place in the buffer.
LEMMA GotTypes ==
  ASSUME DiskRight, pc \in Transfer, NEW v \in Cell, Got(v)
  PROVE  mem' \in Seq(Cell)
BY CallIs DEF Transfer, Got, DiskRight, DiskTypeOK

LEMMA TypeStepRight == DiskRight /\ DiskNext => DiskTypeOK'
<1> SUFFICES ASSUME DiskRight, DiskNext PROVE DiskTypeOK'
  OBVIOUS
<1>0. DiskTypeOK /\ BusRight /\ BusRight'
  BY BusStepRight DEF DiskRight
<1>1. ASSUME NEW d \in Disk, NEW l \in Sector, Seek(d, l) PROVE DiskTypeOK'
  BY <1>0, <1>1, DiskAssumption DEF Seek, DiskTypeOK, bus, ufi, device, Sector
<1>2. ASSUME NEW d \in Disk, NEW n \in Count, NEW op \in {"read", "write"},
             NEW src \in Seq(Cell), Len(src) = n, CallDisk(d, op, src)
      PROVE  DiskTypeOK'
  BY <1>0, <1>2, DiskAssumption DEF CallDisk, DiskTypeOK, bus, ufi, device, Result
<1>3. CASE Open
  BY <1>0, <1>3 DEF Open, DiskTypeOK, BusRight, CritIs, CriticalBegin, Transfer, hbios, ufi, device
<1>4. CASE ScsiBegin
  BY <1>0, <1>4, DiskAssumption
     DEF ScsiBegin, DiskTypeOK, BusRight, CritIs, CriticalBegin, Transfer, hbios, ufi, device, Result
<1>5. CASE CbwFails \/ DataFails \/ DataStoredButFails \/ CswFails
  <2>1. media' \in [Disk -> [Sector -> Val]]
    BY <1>0, <1>5, StoredTypes DEF CbwFails, DataFails, DataStoredButFails, CswFails, ScsiFails,
       Ends, Transfer, DiskTypeOK
  <2>2. pipe' \in Seq(Packet)
    <3>1. pipe' = <<>> \/ pipe' = pipe
      BY <1>5, Zenon DEF CbwFails, DataFails, DataStoredButFails, CswFails
    <3> QED BY <1>0, <3>1, NoPackets DEF DiskTypeOK
  <2> QED BY <1>0, <1>5, <2>1, <2>2, EndsTypes
          DEF CbwFails, DataFails, DataStoredButFails, CswFails, ScsiFails, hbios, ufi,
              DiskTypeOK, Result
<1>6. CASE CbwSent
  <2>1. pipe' \in Seq(Packet)
    <3>1. pc # "idle" /\ Lba \in Sector
      BY <1>6, CallIs DEF CbwSent, Ends
    <3>2. call.op = "read" => "hd" \in Disk /\ media["hd"][Lba] \in Val
      BY <1>0, <1>6, <3>1, CallIs DEF CbwSent, Ends, DiskTypeOK, DiskRight, CallRight
    <3>3. Tag \in 0..Tags - 1
      BY <1>0, DiskAssumption DEF Tag, DiskTypeOK
    <3>4. \A ok \in BOOLEAN : Csw(ok) \in Packet
      BY <3>3 DEF Csw, Packet
    <3>5. [is |-> "short"] \in Packet
      BY DEF Packet
    <3>6. call.op = "read" => [is |-> "data", val |-> media["hd"][Lba]] \in Packet
      BY <3>2 DEF Packet
    <3>7. pipe \in Seq(Packet)
      BY <1>0 DEF DiskTypeOK
    <3> HIDE DEF Packet
    <3>8. ASSUME NEW s \in Seq(Packet), NEW a \in Packet, NEW b \in Packet
          PROVE  s \o <<a, b>> \in Seq(Packet) /\ <<a, b>> \in Seq(Packet)
                 /\ <<a>> \in Seq(Packet)
      OBVIOUS
    <3> QED BY <1>6, <3>4, <3>5, <3>6, <3>7, <3>8, NoPackets, Zenon DEF CbwSent
  <2> QED BY <1>0, <1>6, <2>1, EndsTypes DEF CbwSent, hbios, ufi, DiskTypeOK, Transfer
<1>7. CASE DataIn
  <2>1. Head(pipe) \in Packet /\ Tail(pipe) \in Seq(Packet)
    BY <1>0, <1>7 DEF DataIn, DiskTypeOK
  <2>2. Head(pipe).is = "data" => Head(pipe).val \in Val
    BY <2>1 DEF Packet
  <2>3. mem' \in Seq(Cell)
    BY <1>7, <2>2, GotTypes DEF DataIn, Cell, Ends, Transfer
  <2>4. pipe' \in Seq(Packet)
    BY <1>7, <2>1, NoPackets, Zenon DEF DataIn
  <2> QED BY <1>0, <1>7, <2>3, <2>4, EndsTypes DEF DataIn, ufi, DiskTypeOK, Transfer
<1>8. CASE DataOut
  <2>1. Csw(TRUE) \in Packet /\ Csw(FALSE) \in Packet
    BY <1>0, DiskAssumption DEF Csw, Packet, Tag, DiskTypeOK
  <2>2. media' \in [Disk -> [Sector -> Val]]
    BY <1>0, <1>8, StoredTypes DEF DataOut, Ends, Transfer, DiskTypeOK
  <2>3. ASSUME NEW a \in Packet PROVE <<a>> \in Seq(Packet)
    OBVIOUS
  <2>4. pipe' \in Seq(Packet)
    BY <1>8, <2>1, <2>3, Zenon DEF DataOut
  <2> QED BY <1>0, <1>8, <2>2, <2>4, EndsTypes DEF DataOut, hbios, ufi, DiskTypeOK, Transfer
<1>9. CASE CswIn
  BY <1>0, <1>9, EndsTypes DEF CswIn, hbios, ufi, DiskTypeOK, Result
<1>10. CASE ScsiEnd
  <2>1. current_lba' \in [Disk -> 0..Sectors]
    <3>1. call.dev \in Disk /\ Lba \in Sector /\ Sectors \in Nat
      BY <1>10, CallIs DEF ScsiEnd
    <3>2. current_lba \in [Disk -> 0..Sectors] /\ Lba + 1 \in 0..Sectors
      BY <1>0, <3>1 DEF DiskTypeOK, Sector
    <3>3. \/ current_lba' = current_lba
          \/ current_lba' = [current_lba EXCEPT ![call.dev] = Lba + 1]
      BY <1>10 DEF ScsiEnd, Advance, Lba
    <3> QED BY <3>1, <3>2, <3>3
  <2>2. crit' \in 0..2
    BY <1>0, <1>10 DEF ScsiEnd, CriticalEnd, BusRight, CritIs
  <2> QED BY <1>0, <1>10, <2>1, <2>2
          DEF ScsiEnd, SectorReturns, DiskTypeOK, ufi, device, Result
<1>11. CASE UfiBegin
  BY <1>0, <1>11, DiskAssumption
     DEF UfiBegin, Command, DiskTypeOK, BusRight, CritIs, CriticalBegin, Transfer, hbios, device, Result
<1>12. CASE Adsc \/ BulkFails \/ Interrupt \/ ClearHalt \/ BulkSense
  BY <1>0, <1>12, EndsTypes DEF Adsc, BulkFails, Interrupt, ClearHalt, BulkSense, hbios, ufi, device,
     DiskTypeOK, Transfer, Result, AfterBulk
<1>13. CASE BulkIn
  <2>1. mem' \in Seq(Cell)
    <3>1. Lba \in Sector /\ "fd" \in Disk
      BY <1>13, CallIs DEF BulkIn, Ends, DiskRight, CallRight
    <3>2. media["fd"][Lba] \in Cell /\ junk \in Cell
      BY <1>0, <3>1 DEF DiskTypeOK, Cell
    <3> QED BY <1>13, <3>2, GotTypes DEF BulkIn, Ends, Transfer
  <2> QED BY <1>0, <1>13, <2>1, EndsTypes DEF BulkIn, ufi, DiskTypeOK, Transfer, AfterBulk
<1>14. CASE BulkOut
  <2>1. media' \in [Disk -> [Sector -> Val]]
    BY <1>0, <1>14, StoredTypes DEF BulkOut, Ends, Transfer, DiskTypeOK
  <2> QED BY <1>0, <1>14, <2>1, EndsTypes DEF BulkOut, hbios, ufi, DiskTypeOK, Transfer, AfterBulk
<1>15. CASE CommandEnd
  BY <1>0, <1>15 DEF CommandEnd, CriticalEnd, DiskTypeOK, BusRight, CritIs, hbios, ufi, device
<1>16. CASE UfiNext
  <2>1. crit' \in 0..2
    BY <1>0, <1>16 DEF UfiNext, Command, AskAgain, UfiReturns, CriticalBegin, BusRight, CritIs
  <2> QED BY <1>0, <1>16, <2>1, DiskAssumption
          DEF UfiNext, Command, AskAgain, UfiReturns, SectorReturns, Judge, DiskTypeOK, Transfer,
              Result, device, ufi
<1>17. CASE Return
  BY <1>0, <1>17, DiskAssumption DEF Return, DiskTypeOK, bus, device, Result
<1>18. ASSUME NEW d \in Disk, NEW n \in Count, Read(d, n) PROVE DiskTypeOK'
  <2> DEFINE src == [i \in 1..n |-> none]
  <2>1. src \in Seq(Cell) /\ Len(src) = n
    BY DiskAssumption DEF Cell
  <2> QED BY <1>2, <1>18, <2>1 DEF Read
<1>19. ASSUME NEW d \in Disk, NEW n \in Count, Write(d, n) PROVE DiskTypeOK'
  <2>1. PICK src \in [1..n -> Val] : CallDisk(d, "write", src)
    BY <1>19 DEF Write
  <2>2. n \in Nat /\ Val \subseteq Cell
    BY DiskAssumption DEF Cell
  <2>3. src \in Seq(Cell) /\ Len(src) = n
    BY <2>2
  <2> QED BY <1>2, <2>1, <2>3
<1> QED BY <1>1, <1>3, <1>4, <1>5, <1>6, <1>7, <1>8, <1>9, <1>10, <1>11, <1>12,
           <1>13, <1>14, <1>15, <1>16, <1>17, <1>18, <1>19
        DEF DiskNext, Work, Scsi, Ufi

---------------------------------------------------------------------------
(* Mass storage.                                                            *)

\* Packets left by commands before this one: none, or a sector and a status
\* that does not have the tag t, or more than the next command will wait for.
Left(t) == \/ pipe = <<>> \/ Len(pipe) = 4
           \/ Len(pipe) = 2 /\ pipe[2].is = "csw" /\ pipe[2].tag # t

\* What the device is about to send, as far as the driver will believe it.
PipeRight ==
  /\ pc = "cbw" => Left(Tag)
  /\ pc = "data" => \/ pipe = <<>> \/ pipe[1].is # "data"
                    \/ /\ Len(pipe) = 2 /\ pipe[1].val = media["hd"][Lba]
                       /\ pipe[2].is = "csw" /\ pipe[2].tag = Tag
                    \/ /\ Len(pipe) = 4 /\ pipe[2].tag # Tag
                       /\ pipe[4].is = "csw" /\ pipe[4].tag = Tag
  /\ pc = "csw" => \/ pipe = <<>>
                   \/ Len(pipe) = 1 /\ (pipe[1].ok => Here = media["hd"][Lba])
                   \/ /\ Len(pipe) = 3 /\ pipe[1].tag # Tag
                      /\ pipe[3].is = "csw" /\ pipe[3].tag = Tag
  /\ pc \notin {"cbw", "data", "csw"} => Left(next_tag)

\* The sectors done are where they belong, and so is one that is about to count.
SectorsRight ==
  pc # "idle" /\ call.dev = "hd" =>
    /\ \A i \in 1..done : mem[i] = media["hd"][call.lba + i - 1]
    /\ pc = "end" /\ res = "ok" => Here = media["hd"][Lba]
    /\ pc = "return" => (status = "ok" <=> done = call.n)

\* The tag of the command under way is not the next one, which is what it will
\* be once that begins.
LEMMA TagRight ==
  ASSUME DiskTypeOK
  PROVE  Tag # next_tag /\ (next_tag' = (next_tag + 1) % Tags => Tag' = next_tag)
<1>1. Tags \in Nat \ {0, 1} /\ next_tag \in 0..Tags - 1
  BY DiskAssumption DEF DiskTypeOK
<1>2. (next_tag + Tags - 1) % Tags = IF next_tag = 0 THEN Tags - 1 ELSE next_tag - 1
  BY <1>1
<1>3. (next_tag + 1) % Tags = IF next_tag + 1 = Tags THEN 0 ELSE next_tag + 1
  BY <1>1
<1>4. ASSUME next_tag' = (next_tag + 1) % Tags PROVE (next_tag' + Tags - 1) % Tags = next_tag
  <2>1. CASE next_tag + 1 = Tags
    BY <1>1, <1>3, <1>4, <2>1
  <2>2. CASE next_tag + 1 # Tags
    <3>1. next_tag' = next_tag + 1
      BY <1>3, <1>4, <2>2
    <3>2. (next_tag' + Tags - 1) % Tags = (next_tag + Tags) % Tags
      BY <1>1, <3>1
    <3> QED BY <1>1, <3>2
  <2> QED BY <2>1, <2>2
<1> QED BY <1>1, <1>2, <1>4 DEF Tag

\* What ends a sequence of one, and of three.
LEMMA TailIs ==
  ASSUME pipe \in Seq(Packet), pipe # <<>>
  PROVE  /\ Head(pipe) = pipe[1] /\ Len(Tail(pipe)) = Len(pipe) - 1
         /\ \A i \in 1..Len(pipe) - 1 : Tail(pipe)[i] = pipe[i + 1]
         /\ Len(pipe) \in Nat \ {0}
         /\ Len(pipe) = 1 => Tail(pipe) = <<>>
<1>1. /\ Len(pipe) \in Nat \ {0} /\ Tail(pipe) \in Seq(Packet)
      /\ Len(Tail(pipe)) = Len(pipe) - 1
      /\ \A i \in 1..Len(pipe) - 1 : Tail(pipe)[i] = pipe[i + 1]
  BY HeadTailProperties, EmptySeq
<1> QED BY <1>1, EmptySeq

\* What is behind two packets when two more come.
LEMMA TwoMore ==
  ASSUME NEW S, NEW s \in Seq(S), Len(s) = 2, NEW a, NEW b
  PROVE  /\ Len(s \o <<a, b>>) = 4
         /\ (s \o <<a, b>>)[2] = s[2] /\ (s \o <<a, b>>)[4] = b
<1> DEFINE T == S \cup {a, b}
<1>1. s \in Seq(T) /\ <<a, b>> \in Seq(T) /\ Len(<<a, b>>) = 2 /\ <<a, b>>[2] = b
  OBVIOUS
<1> DEFINE two == <<a, b>>
<1> HIDE DEF T, two
<1>2. two \in Seq(T) /\ Len(two) = 2 /\ two[2] = b
  BY <1>1 DEF two
<1>3. /\ Len(s \o two) = Len(s) + Len(two)
      /\ \A i \in 1..Len(s) + Len(two) :
           (s \o two)[i] = IF i <= Len(s) THEN s[i] ELSE two[i - Len(s)]
  BY <1>1, <1>2, ConcatProperties
<1>4. Len(s \o two) = 4 /\ (s \o two)[2] = s[2] /\ (s \o two)[4] = two[2]
  BY <1>2, <1>3
<1> QED BY <1>2, <1>4 DEF two

LEMMA PipeStepRight ==
  ASSUME DiskRight, PipeRight, DiskNext PROVE PipeRight'
<1> USE DEF PipeRight
<1>0. DiskTypeOK /\ pipe \in Seq(Packet) /\ next_tag \in 0..Tags - 1
  BY DEF DiskRight, DiskTypeOK
<1>1. CASE UNCHANGED <<pipe, next_tag>> /\ pc \notin {"cbw", "data", "csw"}
           /\ pc' \notin {"cbw", "data", "csw"}
  BY <1>1 DEF Left
<1>2. CASE ScsiBegin
  BY <1>0, <1>2, TagRight DEF ScsiBegin, Left, device
<1>3. CASE Open
  BY <1>3 DEF Open, Left, hbios, device, Lba, Here, Tag
<1>4. CASE CbwFails
  <2>1. /\ pc = "cbw" /\ pc' = "end" /\ next_tag' = next_tag
        /\ IF \E i \in DOMAIN pipe : pipe[i].is = "csw" /\ pipe[i].tag = next_tag
             THEN pipe' = <<>> ELSE pipe' = pipe
    BY <1>4 DEF CbwFails, ScsiFails
  <2>2. Len(pipe) = 2 => 2 \in DOMAIN pipe
    BY <1>0
  <2> QED BY <2>1, <2>2 DEF Left
<1>5. CASE DataFails \/ DataStoredButFails \/ CswFails
  <2>1. /\ pc' = "end" /\ next_tag' = next_tag
        /\ \/ pipe' = <<>>
           \/ pc = "data" /\ pipe # <<>> /\ Head(pipe).is = "data" /\ pipe' = pipe
    BY <1>5 DEF DataFails, DataStoredButFails, CswFails, ScsiFails, hbios
  <2> QED BY <1>0, <2>1, TailIs, TagRight DEF Left
<1>6. CASE CbwSent
  <2> DEFINE d == [is |-> "data", val |-> media["hd"][Lba]]
  <2>1. /\ pc = "cbw" /\ pc' = "data" /\ UNCHANGED <<next_tag, media, current_lba, call>>
        /\ Lba' = Lba /\ Tag' = Tag
    BY <1>6 DEF CbwSent, Ends, hbios, Lba, Tag
  <2>2. /\ d.is = "data" /\ d.val = media["hd"][Lba]
        /\ Csw(TRUE).is = "csw" /\ Csw(TRUE).tag = Tag
    BY DEF Csw
  <2>7. CASE pipe' = <<>>
    BY <2>1, <2>7
  <2>8. ASSUME NEW ok \in BOOLEAN, pipe' = <<[is |-> "short"], Csw(ok)>> PROVE PipeRight'
    <3>1. pipe'[1] = [is |-> "short"]
      BY <2>8
    <3>2. pipe'[1].is = "short"
      BY <3>1
    <3> QED BY <2>1, <3>2
  <2>3. CASE pipe' = <<Csw(FALSE)>>
    <3>1. pipe'[1] = Csw(FALSE)
      BY <2>3
    <3>2. pipe'[1].is = "csw"
      BY <3>1 DEF Csw
    <3> QED BY <2>1, <3>2
  <2> HIDE DEF d
  <2>4. CASE pipe' = <<>> \o <<d, Csw(TRUE)>>
    <3>1. pipe' = <<d, Csw(TRUE)>>
      BY <2>4
    <3> QED BY <2>1, <2>2, <3>1
  <2>5. CASE Len(pipe) = 2 /\ pipe' = pipe \o <<d, Csw(TRUE)>>
    <3>1. /\ Len(pipe') = 4 /\ pipe'[2] = pipe[2] /\ pipe'[4] = Csw(TRUE)
      <4> DEFINE c == Csw(TRUE)
      <4> HIDE DEF c
      <4>1. /\ Len(pipe \o <<d, c>>) = 4
            /\ (pipe \o <<d, c>>)[2] = pipe[2] /\ (pipe \o <<d, c>>)[4] = c
        BY <1>0, <2>5, TwoMore
      <4> QED BY <2>5, <4>1 DEF c
    <3>2. pipe'[2].tag # Tag
      BY <2>1, <2>5, <3>1, EmptySeq DEF Left
    <3>3. pipe'[4].is = "csw" /\ pipe'[4].tag = Tag
      BY <2>2, <3>1
    <3> QED BY <2>1, <3>1, <3>2, <3>3
  <2>6. ASSUME NEW late \in {<<>>, pipe}, Len(late) <= 2, pipe' = late \o <<d, Csw(TRUE)>>
        PROVE  PipeRight'
    <3>1. pipe = <<>> \/ Len(pipe) = 4 \/ Len(pipe) = 2
      BY <2>1 DEF Left
    <3>3. late = <<>> \/ late = pipe
      BY <2>6
    <3>2. late = <<>> \/ (late = pipe /\ Len(pipe) = 2)
      <4>1. CASE late = pipe /\ pipe = <<>>
        BY <4>1
      <4>2. CASE late = pipe /\ Len(pipe) = 4
        <5>1. Len(late) = 4
          BY <4>2
        <5> QED BY <2>6, <5>1
      <4> QED BY <3>1, <3>3, <4>1, <4>2, Zenon
    <3> QED BY <2>4, <2>5, <2>6, <3>2
  <2> QED BY <1>6, <2>3, <2>6, <2>7, <2>8 DEF CbwSent, d
<1>7. CASE DataIn
  <2>1. /\ pc = "data" /\ pc' = "csw" /\ UNCHANGED <<next_tag, media, current_lba, call, done>>
        /\ Lba' = Lba /\ Tag' = Tag /\ pipe # <<>> /\ pc # "idle" /\ pc # "return"
    BY <1>7 DEF DataIn, Ends, Lba, Tag
  <2>2. CASE Head(pipe).is # "data"
    BY <1>7, <2>1, <2>2 DEF DataIn
  <2>3. CASE Head(pipe).is = "data"
    <3>1. Got(pipe[1].val) /\ pipe' = Tail(pipe)
      BY <1>0, <1>7, <2>1, <2>3, TailIs DEF DataIn
    <3>2. Here' = pipe[1].val
      BY <1>0, <2>1, <3>1, CallIs DEF Got, Here, DiskTypeOK
    <3>3. pipe[1].is = "data"
      BY <1>0, <2>1, <2>3, TailIs
    <3>4. CASE Len(pipe) = 2 /\ pipe[1].val = media["hd"][Lba]
      BY <1>0, <2>1, <3>1, <3>2, <3>4, TailIs
    <3>5. CASE Len(pipe) = 4 /\ pipe[2].tag # Tag /\ pipe[4].is = "csw" /\ pipe[4].tag = Tag
      <4>1. /\ Len(Tail(pipe)) = Len(pipe) - 1
            /\ \A i \in 1..Len(pipe) - 1 : Tail(pipe)[i] = pipe[i + 1]
        BY <1>0, <2>1, TailIs
      <4>2. Len(Tail(pipe)) = 3 /\ Tail(pipe)[1] = pipe[2] /\ Tail(pipe)[3] = pipe[4]
        BY <3>5, <4>1
      <4>3. Len(pipe') = 3 /\ pipe'[1] = pipe[2] /\ pipe'[3] = pipe[4]
        BY <3>1, <4>2
      <4> QED BY <2>1, <3>5, <4>3
    <3> QED BY <2>1, <3>3, <3>4, <3>5
  <2> QED BY <2>2, <2>3
<1>8. CASE DataOut
  <2>1. /\ pc' = "csw" /\ UNCHANGED <<next_tag, current_lba, call, done, mem>>
        /\ Lba' = Lba /\ Here' = Here /\ pc = "data" /\ call.dev = "hd"
    BY <1>8 DEF DataOut, Ends, hbios, Lba, Here, DiskRight, CallRight
  <2>2. CASE pipe' = <<Csw(FALSE)>>
    BY <2>1, <2>2 DEF Csw
  <2>3. CASE Stored /\ pipe' = <<Csw(TRUE)>>
    <3>1. "hd" \in Disk /\ Lba \in Sector
      BY <2>1, CallIs
    <3>2. media'["hd"][Lba] = Here
      BY <1>0, <2>1, <2>3, <3>1 DEF Stored, DiskTypeOK
    <3> QED BY <2>1, <2>3, <3>2
  <2> QED BY <1>8, <2>2, <2>3 DEF DataOut
<1>9. CASE CswIn
  <2>1. pc = "csw" /\ pc' = "end" /\ next_tag' = next_tag /\ pipe # <<>> /\ pipe' = Tail(pipe)
    BY <1>9 DEF CswIn, Ends
  <2>2. CASE Len(pipe) = 1
    BY <1>0, <2>1, <2>2, TailIs DEF Left
  <2>3. CASE Len(pipe) = 3 /\ pipe[3].is = "csw" /\ pipe[3].tag = Tag
    <3>2. /\ Len(Tail(pipe)) = Len(pipe) - 1
          /\ \A i \in 1..Len(pipe) - 1 : Tail(pipe)[i] = pipe[i + 1]
      BY <1>0, <2>1, TailIs
    <3>4. Len(pipe) = 3
      BY <2>3
    <3>3. Len(Tail(pipe)) = 2 /\ Tail(pipe)[2] = pipe[3]
      BY <3>2, <3>4
    <3>1. Len(pipe') = 2 /\ pipe'[2] = pipe[3]
      BY <2>1, <3>3
    <3> QED BY <1>0, <2>1, <2>3, <3>1, TagRight DEF Left
  <2> QED BY <2>1, <2>2, <2>3
<1>10. CASE ScsiEnd \/ Return \/ Ufi
  BY <1>1, <1>10 DEF ScsiEnd, SectorReturns, Return, Ufi, UfiBegin, Adsc, BulkFails, BulkIn,
     BulkOut, BulkSense, Interrupt, ClearHalt, CommandEnd, UfiNext, Command, AskAgain, UfiReturns,
     Ends, AfterBulk, hbios, ufi, device
<1>11. ASSUME NEW d \in Disk, NEW l \in Sector, Seek(d, l) PROVE PipeRight'
  BY <1>1, <1>11 DEF Seek, device
<1>12. ASSUME NEW d \in Disk, NEW op, NEW src, CallDisk(d, op, src) PROVE PipeRight'
  BY <1>1, <1>12 DEF CallDisk, device
<1> QED BY <1>2, <1>3, <1>4, <1>5, <1>6, <1>7, <1>8, <1>9, <1>10, <1>11, <1>12
        DEF DiskNext, Work, Scsi, Read, Write

LEMMA SectorsStepRight ==
  ASSUME DiskRight, PipeRight, SectorsRight, DiskNext PROVE SectorsRight'
<1> USE DEF SectorsRight
<1>0. DiskTypeOK /\ CallRight
  BY DEF DiskRight
<1>1. CASE /\ UNCHANGED <<call, current_lba, done, mem, media>>
           /\ pc # "idle" /\ pc' # "return" /\ (pc' = "end" => res' # "ok" \/ (pc = "end" /\ res = "ok"))
  BY <1>1 DEF Here, Lba
<1>2. CASE call'.dev # "hd" \/ pc' = "idle"
  BY <1>2
<1>3. CASE Open \/ ScsiBegin \/ CbwFails \/ CbwSent
  BY <1>1, <1>3 DEF Open, ScsiBegin, CbwFails, ScsiFails, CbwSent, Ends, Transfer, hbios, device
<1>4. CASE ScsiFails
  BY <1>1, <1>4 DEF ScsiFails, Ends, hbios
<1>5. CASE DataStoredButFails \/ DataOut
  <2>1. /\ UNCHANGED <<call, current_lba, done, mem>> /\ pc = "data" /\ call.dev = "hd"
        /\ pc' = "csw" \/ (pc' = "end" /\ res' = "error")
        /\ Stored \/ media' = media
    BY <1>0, <1>5 DEF DataStoredButFails, DataOut, Ends, hbios, CallRight
  <2>2. /\ "hd" \in Disk /\ Lba \in Sector /\ call.lba \in Nat /\ done \in Nat
        /\ Lba = call.lba + done
    BY <1>0, <2>1, CallIs DEF CallRight, Lba
  <2>3. ASSUME NEW i \in 1..done PROVE media'["hd"][call.lba + i - 1] = media["hd"][call.lba + i - 1]
    <3>1. call.lba + i - 1 # Lba
      BY <2>2
    <3>2. CASE Stored
      <4>1. media \in [Disk -> [Sector -> Val]] /\ "hd" \in Disk
        BY <1>0, <2>2 DEF DiskTypeOK
      <4>2. media' = [media EXCEPT !["hd"][Lba] = Here]
        BY <2>1, <3>2 DEF Stored
      <4>3. media'["hd"] = [media["hd"] EXCEPT ![Lba] = Here]
        BY <4>1, <4>2
      <4> QED BY <3>1, <4>3
    <3> QED BY <2>1, <3>2
  <2> QED BY <2>1, <2>3
<1>6. CASE DataIn
  <2>1. /\ UNCHANGED <<call, done, media>> /\ pc = "data" /\ pc' = "csw"
        /\ \E v : Got(v)
    BY <1>6 DEF DataIn, Ends
  <2>2. \A i \in 1..done : mem'[i] = mem[i]
    BY <1>0, <2>1, CallIs DEF Got, DiskTypeOK
  <2> QED BY <2>1, <2>2
<1>7. CASE CswIn
  <2>1. /\ UNCHANGED <<call, current_lba, done, mem, media>> /\ pc = "csw" /\ pc' = "end"
        /\ pipe # <<>> /\ res' = IF CswRight(Head(pipe)) THEN "ok" ELSE "error"
        /\ Here' = Here /\ Lba' = Lba
    BY <1>7 DEF CswIn, Ends, hbios, Here, Lba
  <2>2. Head(pipe) = pipe[1] /\ Len(pipe) \in Nat
    BY <1>0, <2>1, TailIs DEF DiskTypeOK
  <2>3. CswRight(pipe[1]) => Here = media["hd"][Lba]
    BY <2>1, <2>2 DEF PipeRight, CswRight
  <2> QED BY <2>1, <2>2, <2>3
<1>8. CASE ScsiEnd
  <2>1. UNCHANGED <<call, mem, media>> /\ pc = "end" /\ call.dev = "hd" /\ pc' \in {"sector", "return"}
    BY <1>8 DEF ScsiEnd, SectorReturns, device
  <2>2. /\ call.lba \in Nat /\ call.n \in Nat /\ done \in Nat /\ Lba = call.lba + done
        /\ done < call.n
    BY <1>0, <2>1, CallIs DEF CallRight, Lba
  <2>3. CASE res = "ok"
    <3>1. /\ done' = done + 1 /\ (pc' = "return" <=> done + 1 = call.n)
          /\ status' = "ok"
      BY <1>8, <2>3 DEF ScsiEnd, SectorReturns
    <3>2. mem[done + 1] = media["hd"][call.lba + done]
      BY <2>1, <2>2, <2>3 DEF Here
    <3>3. \A i \in 1..done + 1 : mem[i] = media["hd"][call.lba + i - 1]
      <4> SUFFICES ASSUME NEW i \in 1..done + 1 PROVE mem[i] = media["hd"][call.lba + i - 1]
        OBVIOUS
      <4>1. CASE i = done + 1
        <5>1. call.lba + i - 1 = call.lba + done
          BY <2>2, <4>1
        <5> QED BY <3>2, <4>1, <5>1
      <4>2. CASE i # done + 1
        <5>1. i \in 1..done
          BY <2>2, <4>2
        <5> QED BY <2>1, <5>1
      <4> QED BY <4>1, <4>2
    <3> QED BY <2>1, <3>1, <3>3
  <2>4. CASE res # "ok"
    <3>1. done' = done /\ status' # "ok" /\ pc' = "return"
      BY <1>8, <2>4 DEF ScsiEnd, SectorReturns
    <3> QED BY <2>1, <2>2, <3>1
  <2> QED BY <2>3, <2>4
<1>9. CASE Return
  BY <1>9 DEF Return
<1>10. CASE Ufi
  BY <1>0, <1>2, <1>10 DEF Ufi, UfiBegin, Adsc, BulkFails, BulkIn, BulkOut, BulkSense, Interrupt,
     ClearHalt, CommandEnd, UfiNext, Ends, hbios, CallRight
<1>11. ASSUME NEW d \in Disk, NEW l \in Sector, Seek(d, l) PROVE SectorsRight'
  BY <1>11 DEF Seek
<1>12. ASSUME NEW d \in Disk, NEW n \in Count, NEW op, NEW src, Len(src) = n,
              CallDisk(d, op, src)
       PROVE  SectorsRight'
  <2>1. /\ done' = 0 /\ call'.n = n /\ n \in Nat
        /\ pc' = "sector" \/ (pc' = "return" /\ status' = "ok" /\ Len(src) = 0)
    BY <1>12, DiskAssumption, EmptySeq DEF CallDisk
  <2> QED BY <1>12, <2>1
<1>13. ASSUME NEW d \in Disk, NEW n \in Count, Read(d, n) PROVE SectorsRight'
  BY <1>12, <1>13, DiskAssumption DEF Read
<1>14. ASSUME NEW d \in Disk, NEW n \in Count, Write(d, n) PROVE SectorsRight'
  BY <1>12, <1>14, DiskAssumption DEF Write
<1> QED BY <1>3, <1>4, <1>5, <1>6, <1>7, <1>8, <1>9, <1>10, <1>11, <1>13, <1>14
        DEF DiskNext, Work, Scsi, DataFails, CswFails

\* The device has sent nothing, or is idle, and no sector is done.
LEMMA DataInitRight == DiskInit => PipeRight /\ SectorsRight
BY DEF DiskInit, PipeRight, SectorsRight, Left

---------------------------------------------------------------------------
(* Floppy.                                                                  *)

\* A sector is on both sides when its command has gone well and the drive has
\* no sense data to give; and when the sense data that it gave were none.
FloppyRight ==
  /\ pc = "clear" => res = "stall"
  /\ pc = "int" => stage = "sector"
  /\ /\ stage = "sector" /\ sense = 0
     /\ pc = "int" \/ (pc \in {"end", "next"} /\ call.dev = "fd" /\ res = "ok")
     => Here = media["fd"][Lba]
  /\ stage = "sense" /\ sense = 0 /\ pc \in {"adsc", "bulk"} => Here = media["fd"][Lba]
  /\ stage = "sense" /\ key = 0 /\ pc \in {"end", "next"} /\ call.dev = "fd" /\ res = "ok"
     => Here = media["fd"][Lba]

LEMMA FloppyInitRight == DiskInit => FloppyRight
BY DEF DiskInit, FloppyRight

LEMMA FloppyStepRight ==
  ASSUME DiskRight, FloppyRight, DiskNext PROVE FloppyRight'
<1> USE DEF FloppyRight
<1>0. DiskTypeOK /\ CallRight /\ BusRight
  BY DEF DiskRight
<1>1. CASE pc' \in {"idle", "sector", "return"} \/ call'.dev = "hd"
  <2>1. pc' \notin {"int", "clear", "adsc", "bulk"}
    BY <1>1, CallStepRight DEF CallRight
  <2> QED BY <1>1, <2>1
<1>2. CASE Scsi
  BY <1>0, <1>1, <1>2 DEF Scsi, ScsiBegin, CbwFails, DataFails, DataStoredButFails, CswFails,
     ScsiFails, CbwSent, DataIn, DataOut, CswIn, ScsiEnd, Ends, hbios, CallRight
<1>3. CASE Open
  BY <1>3 DEF Open, hbios, ufi, device, Here, Lba
<1>4. CASE UfiBegin
  BY <1>4 DEF UfiBegin, Command
<1>5. CASE Adsc \/ BulkFails \/ BulkSense \/ Interrupt \/ ClearHalt
  BY <1>0, <1>5 DEF Adsc, BulkFails, BulkSense, Interrupt, ClearHalt, AfterBulk, Ends, hbios, ufi,
     device, Here, Lba, CallRight, DiskTypeOK
<1>6. CASE BulkIn
  <2>1. /\ stage = "sector" /\ pc = "bulk" /\ pc' = "int" /\ UNCHANGED <<stage, media, call, current_lba, done>>
        /\ Got(media["fd"][Lba]) \/ sense' = 1
        /\ Lba' = Lba
    BY <1>6 DEF BulkIn, Ends, AfterBulk, ufi, Lba
  <2>2. Got(media["fd"][Lba]) => Here' = media["fd"][Lba]
    BY <1>0, <2>1, CallIs DEF Got, Here, DiskTypeOK
  <2> QED BY <2>1, <2>2
<1>7. CASE BulkOut
  <2>1. /\ stage = "sector" /\ pc = "bulk" /\ pc' = "int" /\ stage' = stage
        /\ Stored \/ sense' = 1
        /\ Lba' = Lba /\ Here' = Here /\ call.dev = "fd"
    BY <1>0, <1>7 DEF BulkOut, Ends, AfterBulk, ufi, hbios, Lba, Here, CallRight
  <2>2. "fd" \in Disk /\ Lba \in Sector
    BY <2>1, CallIs
  <2>3. Stored => media'["fd"][Lba] = Here
    BY <1>0, <2>1, <2>2 DEF Stored, DiskTypeOK
  <2> QED BY <2>1, <2>3
<1>8. CASE CommandEnd
  BY <1>8 DEF CommandEnd, hbios, ufi, device, Here, Lba
<1>9. CASE UfiNext
  <2>1. /\ pc = "next" /\ call.dev = "fd"
    BY <1>0, <1>9 DEF UfiNext, CallRight
  <2>2. CASE /\ stage = "sector" /\ res = "ok" /\ Command("sense")
             /\ UNCHANGED <<done, current_lba, call, mem, device>>
    BY <2>1, <2>2 DEF Command, device, Here, Lba
  <2>3. ASSUME NEW s \in {"test", "ask", "sector"}, Command(s) PROVE FloppyRight'
    BY <2>3 DEF Command
  <2>4. ASSUME NEW r, UfiReturns(r) PROVE FloppyRight'
    BY <1>1, <2>4 DEF UfiReturns, SectorReturns
  <2> QED BY <1>9, <2>2, <2>3, <2>4 DEF UfiNext, AskAgain
<1>10. CASE Return
  BY <1>1, <1>10 DEF Return
<1>11. ASSUME NEW d \in Disk, NEW l \in Sector, Seek(d, l) PROVE FloppyRight'
  BY <1>1, <1>11 DEF Seek
<1>12. ASSUME NEW d \in Disk, NEW op, NEW src, CallDisk(d, op, src) PROVE FloppyRight'
  BY <1>1, <1>12 DEF CallDisk
<1> QED BY <1>2, <1>3, <1>4, <1>5, <1>6, <1>7, <1>8, <1>9, <1>10, <1>11, <1>12
        DEF DiskNext, Work, Ufi, Read, Write

---------------------------------------------------------------------------
(* All of it.                                                               *)

DiskInv == DiskRight /\ PipeRight /\ SectorsRight /\ FloppyRight

LEMMA DiskInitInv == DiskInit => DiskInv
BY BusInitRight, CallInitRight, TypeInitRight, DataInitRight, FloppyInitRight DEF DiskInv, DiskRight

LEMMA DiskStepInv == DiskInv /\ DiskNext => DiskInv'
BY BusStepRight, CallStepRight, TypeStepRight, PipeStepRight, SectorsStepRight, FloppyStepRight
   DEF DiskInv, DiskRight

\* The chip may be addressed anew by anyone outside the critical section.
LEMMA DiskInvKept ==
  ASSUME DiskInv, crit = 0, addr' = "kbd", retry' = "3s", UNCHANGED <<crit, open>>,
         UNCHANGED <<hbios, ufi, next_tag, pc, res, device>>
  PROVE  DiskInv'
<1> USE DEF hbios, ufi, device
<1>1. BusRight'
  BY DEF DiskInv, DiskRight, BusRight, CritIs, Transfer
<1>2. DiskTypeOK'
  BY DEF DiskInv, DiskRight, DiskTypeOK
<1>3. CallRight' /\ PipeRight' /\ SectorsRight' /\ FloppyRight'
  BY DEF DiskInv, DiskRight, CallRight, PipeRight, SectorsRight, FloppyRight, Left, Here, Lba, Tag
<1> QED BY <1>1, <1>2, <1>3 DEF DiskInv, DiskRight

LEMMA DiskInvStuttered == DiskInv /\ UNCHANGED diskvars => DiskInv'
BY DEF DiskInv, DiskRight, DiskTypeOK, BusRight, CritIs, CallRight, PipeRight, SectorsRight,
   FloppyRight, Left, Here, Lba, Tag, diskvars, bus, hbios, ufi, device

\* What it says of the transfers, of mass storage and of the floppy drive.
LEMMA DiskInvShows ==
  DiskInv => DiskTypeOK /\ TokensAddressed /\ MassStorageExact /\ FloppySectorHonest
<1> SUFFICES ASSUME DiskInv
             PROVE  DiskTypeOK /\ TokensAddressed /\ MassStorageExact /\ FloppySectorHonest
  OBVIOUS
<1>1. TokensAddressed
  BY DEF DiskInv, DiskRight, BusRight, CritIs, TokensAddressed, Transfer
<1>2. MassStorageExact
  BY DEF DiskInv, DiskRight, CallRight, SectorsRight, MassStorageExact, Exact
<1>3. FloppySectorHonest
  BY DEF DiskInv, DiskRight, CallRight, FloppyRight, FloppySectorHonest, Judge, Satisfied
<1> QED BY <1>1, <1>2, <1>3 DEF DiskInv, DiskRight
=============================================================================
