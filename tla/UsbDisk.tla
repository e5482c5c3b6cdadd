------------------------------ MODULE UsbDisk -------------------------------
(***************************************************************************)
(* Disks behind the CH376 (src/Source/HBIOS/ch376-native/source-doc): a    *)
(* call of HBIOS for several sectors (HB_DSKREAD, HB_DSKWRITE) goes to a   *)
(* mass storage device by SCSI commands over two bulk pipes (scsi-drv) or  *)
(* to a floppy drive by UFI commands over the control pipe (ufi-drv), each *)
(* command a few transfers that address the one chip all devices share.    *)
(* A transfer is two steps, between which the timer interrupt may come.    *)
(***************************************************************************)
EXTENDS Integers, Sequences

CONSTANTS Disk,    \* the disks: a subset of {"hd", "fd"}
          Sectors, \* sectors of each
          Count,   \* sectors a call may ask for
          Tags,    \* next_tag counts modulo this number, 2^16 in the code
          Tries,   \* the timeout_counter of wait_for_device_ready
          Val,     \* contents of a sector
          junk, none

ASSUME DiskAssumption ==
  /\ Disk \subseteq {"hd", "fd"} /\ Sectors \in Nat \ {0}
  /\ Count \subseteq Nat /\ Tags \in Nat \ {0, 1} /\ Tries \in Nat
  /\ junk \notin Val /\ none \notin Val /\ junk # none

VARIABLES
  addr, retry,       \* the chip: device addressed, what it does about NAKs
  crit,              \* in_critical_usb_section
  open,              \* between ch_set_usb_address and the end of the transfer
  current_lba,       \* of each device's configuration
  next_tag,
  pc,                \* the transfer that is next
  call, done, mem,   \* HBIOS: the call, sectors completed, the caller's buffer
  status,            \* what the call returns
  stage, tries, key, \* UFI: the command, attempts left, sense key received
  res,               \* outcome of the command so far
  media,             \* what is on the disks
  pipe,              \* the mass storage device: packets it has yet to send
  sense, halted      \* the floppy drive: pending sense key, halted bulk endpoints

bus == <<addr, retry, crit, open>>
hbios == <<current_lba, call, done, mem, status>>
ufi == <<stage, tries, key>>
device == <<media, pipe, sense, halted>>
diskvars == <<bus, hbios, ufi, next_tag, pc, res, device>>

Sector == 0..Sectors - 1
Cell == Val \cup {junk, none}
Packet == [is : {"data"}, val : Val]
          \cup [is : {"short"}] \cup [is : {"csw"}, tag : 0..Tags - 1, ok : BOOLEAN]
NoCall == [dev |-> none, op |-> none, lba |-> 0, n |-> 0]
Transfer == {"cbw", "data", "csw", "adsc", "bulk", "int", "clear"}
Result == {"ok", "stall", "error"}

DiskTypeOK ==
  /\ addr \in Disk \cup {"kbd", none} /\ retry \in {"3s", "off"}
  /\ crit \in 0..2 /\ open \in BOOLEAN
  /\ current_lba \in [Disk -> 0..Sectors] /\ next_tag \in 0..Tags - 1
  /\ pc \in {"idle", "sector", "end", "next", "return"} \cup Transfer
  /\ call \in [dev : Disk, op : {"read", "write"}, lba : 0..Sectors, n : Count]
              \cup {NoCall}
  /\ done \in Nat /\ mem \in Seq(Cell)
  /\ status \in Result
  /\ stage \in {"test", "ask", "sector", "sense", none}
  /\ tries \in 0..Tries /\ key \in {0, 1} /\ res \in Result
  /\ media \in [Disk -> [Sector -> Val]]
  /\ pipe \in Seq(Packet) /\ sense \in {0, 1}
  /\ halted \subseteq {"in", "out"}

DiskInit ==
  /\ addr = none /\ retry = "3s" /\ crit = 0 /\ open = FALSE
  /\ current_lba = [d \in Disk |-> 0] /\ next_tag = 0
  /\ pc = "idle" /\ call = NoCall /\ done = 0 /\ mem = <<>> /\ status = "ok"
  /\ stage = none /\ tries = 0 /\ key = 0 /\ res = "ok"
  /\ media \in [Disk -> [Sector -> Val]]
  /\ pipe = <<>> /\ sense = 0 /\ halted = {}

---------------------------------------------------------------------------
(* Calls of HBIOS. *)

\* DIOSEEK: usb_scsi_seek of either driver.
Seek(d, l) ==
  /\ pc = "idle"
  /\ current_lba' = [current_lba EXCEPT ![d] = l]
  /\ UNCHANGED <<bus, ufi, call, done, mem, status, next_tag, pc, res, device>>

\* DIOREAD of n sectors, or DIOWRITE of those in src, from the current sector.
CallDisk(d, op, src) ==
  /\ pc = "idle"
  /\ current_lba[d] + Len(src) <= Sectors
  /\ call' = [dev |-> d, op |-> op, lba |-> current_lba[d], n |-> Len(src)]
  /\ mem' = src /\ done' = 0
  /\ IF src = <<>> THEN pc' = "return" /\ status' = "ok"
                   ELSE pc' = "sector" /\ UNCHANGED status
  /\ UNCHANGED <<bus, ufi, current_lba, next_tag, res, device>>

Read(d, n) == CallDisk(d, "read", [i \in 1..n |-> none])
Write(d, n) == \E src \in [1..n -> Val] : CallDisk(d, "write", src)

\* The driver's function returns to the loop of HB_DSKIO, which stops at the
\* first error and counts the sectors before it.
SectorReturns(r) ==
  IF r = "ok" THEN /\ done' = done + 1
                   /\ status' = "ok"
                   /\ pc' = IF done + 1 = call.n THEN "return" ELSE "sector"
              ELSE status' = r /\ pc' = "return" /\ UNCHANGED done

\* The call is over; the caller looks at what it got.
Return ==
  /\ pc = "return"
  /\ pc' = "idle" /\ call' = NoCall /\ done' = 0 /\ mem' = <<>> /\ status' = "ok"
  /\ stage' = none /\ tries' = 0 /\ key' = 0 /\ res' = "ok"
  /\ UNCHANGED <<bus, current_lba, next_tag, device>>

---------------------------------------------------------------------------
(* Transfers (transfers.c, dev_transfers.c). *)

CriticalBegin == crit' = crit + 1
\* Bug: the section is not left.
CriticalEndNever == crit' = crit
CriticalEnd == crit' = crit - 1

\* A transfer enters the critical section and addresses its device.
Open ==
  /\ pc \in Transfer /\ ~open
  /\ CriticalBegin
  /\ addr' = call.dev
  /\ open' = TRUE
  /\ UNCHANGED <<retry, hbios, ufi, next_tag, pc, res, device>>

\* The transfer p ends: of every action below that is one.
Ends(p) == /\ pc = p /\ open
           /\ open' = FALSE
           /\ CriticalEnd
           /\ UNCHANGED <<addr, retry>>

Lba == current_lba[call.dev]
Here == mem[done + 1]
Got(v) == mem' = [mem EXCEPT ![done + 1] = v]
Stored == media' = [media EXCEPT ![call.dev][Lba] = Here]

---------------------------------------------------------------------------
(* Mass storage: do_scsi_cmd.  Nothing is done about a transfer that failed,
   so the device may still hold what it had to send. *)

Tag == (next_tag + Tags - 1) % Tags
Csw(ok) == [is |-> "csw", tag |-> Tag, ok |-> ok]

ScsiBegin ==
  /\ pc = "sector" /\ call.dev = "hd"
  /\ next_tag' = (next_tag + 1) % Tags
  /\ CriticalBegin
  /\ pc' = "cbw" /\ res' = "ok"
  /\ UNCHANGED <<addr, retry, open, hbios, ufi, device>>

\* One transfer of the command fails.
ScsiFails ==
  /\ \E p \in {"cbw", "data", "csw"} : Ends(p)
  /\ pc' = "end" /\ res' = "error"
  /\ UNCHANGED <<hbios, ufi, next_tag, media, sense, halted>>

\* The device does not take the command, and what it is late with is still to
\* come (Bound: until the tags have gone round).
CbwFails ==
  /\ pc = "cbw" /\ ScsiFails
  /\ pipe' = IF \E i \in DOMAIN pipe : pipe[i].is = "csw" /\ pipe[i].tag = next_tag
               THEN <<>> ELSE pipe
\* A read gives up on the sector, which the device drops or is late with.
DataFails ==
  /\ pc = "data" /\ ScsiFails
  /\ \/ pipe' = <<>>
     \/ call.op = "read" /\ pipe # <<>> /\ Head(pipe).is = "data" /\ pipe' = pipe
DataStoredButFails ==
  /\ call.op = "write" /\ Ends("data") /\ Stored
  /\ pc' = "end" /\ res' = "error" /\ pipe' = <<>>
  /\ UNCHANGED <<hbios, ufi, next_tag, sense, halted>>
CswFails == pc = "csw" /\ ScsiFails /\ pipe' = <<>>

\* The command block arrives.  A read is answered with the sector, with less,
\* or with the status alone; late answers are dropped or come first (Bound: one).
CbwSent ==
  /\ Ends("cbw")
  /\ \/ call.op = "write" /\ pipe' = <<>>
     \/ /\ call.op = "read"
        /\ \/ \E late \in {<<>>, pipe} :
                /\ Len(late) <= 2
                /\ pipe' = late \o <<[is |-> "data", val |-> media["hd"][Lba]], Csw(TRUE)>>
           \/ \E ok \in BOOLEAN : pipe' = <<[is |-> "short"], Csw(ok)>>
           \/ pipe' = <<Csw(FALSE)>>
  /\ pc' = "data"
  /\ UNCHANGED <<hbios, ufi, next_tag, res, media, sense, halted>>

\* Packets are taken until they make up a sector, whatever they are: after a
\* short one the status is counted too, and is not there when it is waited for.
DataIn ==
  /\ call.op = "read" /\ pipe # <<>>
  /\ Ends("data")
  /\ IF Head(pipe).is = "data" THEN Got(Head(pipe).val) /\ pipe' = Tail(pipe)
                               ELSE Got(junk) /\ pipe' = <<>>
  /\ pc' = "csw"
  /\ UNCHANGED <<current_lba, call, done, status, ufi, next_tag, res, media,
                 sense, halted>>

DataOut ==
  /\ call.op = "write"
  /\ Ends("data")
  /\ \/ Stored /\ pipe' = <<Csw(TRUE)>>
     \/ UNCHANGED media /\ pipe' = <<Csw(FALSE)>>
  /\ pc' = "csw"
  /\ UNCHANGED <<hbios, ufi, next_tag, res, sense, halted>>

\* Bug: the tag of the answer is not compared.
CswRightAnyTag(csw) == csw.ok
CswRight(csw) == csw.ok /\ csw.tag = Tag

CswIn ==
  /\ pipe # <<>>
  /\ Ends("csw")
  /\ res' = IF CswRight(Head(pipe)) THEN "ok" ELSE "error"
  /\ pipe' = Tail(pipe)
  /\ pc' = "end"
  /\ UNCHANGED <<hbios, ufi, next_tag, media, sense, halted>>

\* usb_scsi_read, usb_scsi_write: after success the next sector is current.
Advance == IF res = "ok"
             THEN current_lba' = [current_lba EXCEPT ![call.dev] = @ + 1]
             ELSE UNCHANGED current_lba

ScsiEnd ==
  /\ pc = "end" /\ call.dev = "hd"
  /\ CriticalEnd
  /\ Advance
  /\ SectorReturns(res)
  /\ UNCHANGED <<addr, retry, open, call, mem, ufi, next_tag, res, device>>

---------------------------------------------------------------------------
(* Floppy: usb_ufi_read and usb_ufi_write are several commands, each one a
   usb_execute_cbi: TEST UNIT READY and REQUEST SENSE until they are content
   (stages "test" and "ask"), the sector, REQUEST SENSE. *)

Command(s) == /\ stage' = s
              /\ CriticalBegin
              /\ pc' = "adsc" /\ res' = "ok" /\ key' = 0

UfiBegin ==
  /\ pc = "sector" /\ call.dev = "fd"
  /\ tries' = Tries
  /\ Command("test")
  /\ UNCHANGED <<addr, retry, open, hbios, next_tag, device>>

\* The command goes over the control pipe.  The drive may refuse it, and what
\* TEST UNIT READY finds is for REQUEST SENSE to tell.
Adsc ==
  /\ Ends("adsc")
  /\ \/ /\ pc' = (IF stage = "test" THEN "end" ELSE "bulk") /\ res' = "ok"
        /\ sense' \in (IF stage = "test" THEN {0, 1} ELSE {sense})
     \/ /\ pc' = (IF stage = "sector" THEN "int" ELSE "end") /\ res' = "stall"
        /\ sense' = 1
     \/ pc' = "end" /\ res' = "error" /\ UNCHANGED sense
  /\ UNCHANGED <<hbios, ufi, next_tag, media, pipe, halted>>

\* A bulk transfer fails; by a stall the endpoint is halted.
BulkFails ==
  /\ Ends("bulk")
  /\ \/ pc' = "end" /\ res' = "error" /\ UNCHANGED <<sense, halted>>
     \/ /\ pc' = "clear" /\ res' = "stall" /\ sense' = 1
        /\ halted' = halted \cup {IF stage = "sector" /\ call.op = "write"
                                   THEN "out" ELSE "in"}
  /\ UNCHANGED <<hbios, ufi, next_tag, media, pipe>>

AfterBulk == IF stage = "sector" THEN "int" ELSE "end"

\* Data of a read: the sector, or what was read of it before an error.
BulkIn ==
  /\ stage = "sector" /\ call.op = "read" /\ "in" \notin halted
  /\ Ends("bulk")
  /\ \/ Got(media["fd"][Lba]) /\ UNCHANGED sense
     \/ Got(junk) /\ sense' = 1
  /\ pc' = AfterBulk
  /\ UNCHANGED <<current_lba, call, done, status, ufi, next_tag, res,
                 media, pipe, halted>>

BulkOut ==
  /\ stage = "sector" /\ call.op = "write" /\ "out" \notin halted
  /\ Ends("bulk")
  /\ \/ Stored /\ UNCHANGED sense
     \/ UNCHANGED media /\ sense' = 1
  /\ pc' = AfterBulk
  /\ UNCHANGED <<hbios, ufi, next_tag, res, pipe, halted>>

\* Sense data, which the drive gives once.
BulkSense ==
  /\ stage # "sector" /\ "in" \notin halted
  /\ Ends("bulk")
  /\ key' = sense /\ sense' = 0
  /\ pc' = AfterBulk
  /\ UNCHANGED <<hbios, stage, tries, next_tag, res, media, pipe, halted>>

\* Two bytes of status over the interrupt pipe end a command for a sector, if
\* they come; a command that was refused stays so.
Interrupt ==
  /\ Ends("int")
  /\ pc' \in {"end", "clear"}
  /\ res' \in CASE res = "stall" \/ pc' = "clear" -> {"stall"}
               [] OTHER -> {"ok", "error"}
  /\ UNCHANGED <<hbios, ufi, next_tag, device>>

\* usbtrn_clr_ep_halt, whose result is ignored.  The endpoint is named without
\* its direction, so that only the one for output can be meant.
ClearHalt ==
  /\ Ends("clear")
  /\ halted' \in {halted, halted \ {"out"}}
  /\ pc' = "end"
  /\ UNCHANGED <<hbios, ufi, next_tag, res, media, pipe, sense>>

CommandEnd ==
  /\ pc = "end" /\ call.dev = "fd"
  /\ CriticalEnd
  /\ pc' = "next"
  /\ UNCHANGED <<addr, retry, open, hbios, ufi, next_tag, res, device>>

Satisfied == res = "ok" /\ key = 0

\* Bug: the drive is asked again without counting.
AskAgainForever == /\ stage = "ask" /\ ~Satisfied
                   /\ Command("test")
                   /\ UNCHANGED <<tries, done, status>>
\* wait_for_device_ready goes round again.
AskAgain == /\ stage = "ask" /\ ~Satisfied /\ tries > 0
            /\ Command("test")
            /\ tries' = tries - 1
            /\ UNCHANGED <<done, status>>

\* ch376ufi.asm: CH_UFI_READ returns zero whatever usb_ufi_read returned.
UfiReturns(r) == /\ SectorReturns(IF call.op = "read" THEN "ok" ELSE r)
                 /\ UNCHANGED <<crit, ufi, res>>

\* Bug: the sense data asked for after the sector are not looked at.
JudgeBlind == IF res = "ok" THEN "ok" ELSE "error"
\* What usb_ufi_read and usb_ufi_write make of the last REQUEST SENSE.
Judge == IF Satisfied THEN "ok" ELSE "error"

\* Between two commands of the floppy drive: the driver's next one, if any.
UfiNext ==
  /\ pc = "next"
  /\ \/ /\ \/ stage = "test" /\ Command("ask")
           \/ stage = "ask" /\ Satisfied /\ Command("sector")
           \/ stage = "sector" /\ res = "ok" /\ Command("sense")
        /\ UNCHANGED <<tries, done, status>>
     \/ AskAgain
     \/ /\ \/ stage = "ask" /\ ~Satisfied /\ tries = 0
           \/ stage = "sector" /\ res # "ok"
        /\ UfiReturns("error")
     \/ stage = "sense" /\ UfiReturns(Judge)
  /\ UNCHANGED <<addr, retry, open, current_lba, call, mem, next_tag, device>>

---------------------------------------------------------------------------
Scsi == \/ ScsiBegin \/ CbwFails \/ DataFails \/ DataStoredButFails \/ CswFails
        \/ CbwSent \/ DataIn \/ DataOut \/ CswIn \/ ScsiEnd
Ufi == \/ UfiBegin \/ Adsc \/ BulkFails \/ BulkIn \/ BulkOut \/ BulkSense
       \/ Interrupt \/ ClearHalt \/ CommandEnd \/ UfiNext
Work == Open \/ Scsi \/ Ufi \/ Return

DiskNext == \/ \E d \in Disk, l \in Sector : Seek(d, l)
            \/ \E d \in Disk, n \in Count : Read(d, n) \/ Write(d, n)
            \/ Work

DiskSpec == DiskInit /\ [][DiskNext]_diskvars

---------------------------------------------------------------------------
\* Every token of a transfer goes to the device the transfer is for, with the
\* retries it counts on: the section is open meanwhile, and the section is left
\* as often as it was entered, on every way out of a command.
TokensAddressed ==
  /\ open => addr = call.dev /\ retry = "3s" /\ crit > 0
  /\ pc \in {"idle", "sector", "next", "return"} => crit = 0 /\ ~open

\* What SystemGuide.md says of DIOREAD and DIOWRITE, for one disk: the sectors
\* counted are right, on whichever side they came from; the current sector has
\* moved past them and is the one that failed, if one did; and all are counted
\* if the call succeeds.
Exact(d) ==
  pc = "return" /\ call.dev = d =>
    /\ current_lba[d] = call.lba + done
    /\ status = "ok" <=> done = call.n
    /\ \A i \in 1..done : mem[i] = media[d][call.lba + i - 1]
MassStorageExact == Exact("hd")
FloppyExact == Exact("fd")

\* The floppy driver itself is honest, below the entry that hides its result:
\* when it is content, the sector on the disk is the one in the buffer.
FloppySectorHonest ==
  pc = "next" /\ stage = "sense" /\ Judge = "ok" => Here = media["fd"][Lba]
=============================================================================
