# RomWBW in TLA+

Models, model checks and machine-checked proofs of the parts of RomWBW whose
correctness is hardest to see from the assembler source: code that runs with
the memory under it being switched, interrupts striking between any two
instructions, one sector buffer shared by all drives, writes that are
deferred, USB devices that fail in the middle of a transfer, and disk images
left half written.

Everything is translated from the source in `Source/` and `Tools/`; a comment in each
module says which routine a definition stands for, and `PROJECT.json` gives the
lines.

## 1. Inventory

RomWBW is a ROM firmware (HBIOS) for Z80-family computers with banked memory
and a set of operating systems adapted to it.

| Part | State it keeps | Operations | Used by |
|---|---|---|---|
| HBIOS proxy, top 512 bytes of memory (`HBIOS/hbios.asm` 566-1467) | current and invoking bank, copy banks, saved stacks, bounce buffer, page selectors | invoke, select bank, copy, call, peek, poke, interrupt entry | everything |
| HBIOS dispatch and unit tables (`hbios.asm` 4477-4680, 7505) | unit counts and tables of the character, disk, video, sound and RTC units | dispatch by function and unit, HB_ADDENT | all HBIOS callers, driver initialisation |
| HBIOS disk layer (`hbios.asm` 4683-4907) | transfer cells (HB_IOBUF, HB_IOBNK, HB_DSKCMD) | read and write sector by sector, through HB_WRKBUF for banked memory | drivers |
| HBIOS system functions (`hbios.asm` 5710-7062) | heap top, CPU speed, switches in NVRAM, timer and ticks, interrupt vectors | reset, version, banks, copy, heap, get/set, peek/poke, interrupt management | applications, OS |
| EXT_SLICE (`hbios.asm` 5401-5703) | none (reads the partition table) | find a slice of a disk and its media id | CBIOS, romldr |
| Serial drivers (ASCI, SIO, UART, ACIA, Z2U, ...) | receive ring buffer, RTS | interrupt-driven receive, polled send | CIO |
| USB driver of the CH376 chip, in C (`HBIOS/ch376-native/source-doc`) | work area of device slots, current LBA and tag, critical section; keyboard ring, last report, caps lock | enumerate hubs and devices, SCSI over bulk, UFI over CBI, poll the keyboard on the timer tick | DIO, CIO, boot |
| Other disk drivers (MD, FD, IDE, PPIDE, SD, PRP, SCSI, CH376, ...) | unit state, media size, current LBA | seek, read, write, reset, media | DIO |
| Video and keyboard drivers, terminal emulation, sound, RTC | cursor, attributes, key buffers, tone registers | VDA, SND, RTC functions | CIO, applications |
| Boot loader (`HBIOS/romldr.asm`) | autoboot settings | menu, load an OS or ROM application | reset |
| CBIOS for CP/M 2.2 and ZSDOS (`CBIOS/cbios.asm`) | seek variables, sector buffer and its flags, fill tracking, DPHs, drive and device maps | the BIOS jump table | BDOS |
| BDOS (`CPM22/bdosb01.asm`), ZSDOS, CCP, ZCPR | FCBs, login and write-protect vectors, allocation vectors | CP/M functions | programs |
| CP/M 3 BIOS (`CPM3/`), p-System, QPM, CP/NET | as the CBIOS, with the blocking left to the BDOS of CP/M 3 | BIOS functions | their OS |
| Applications (`Apps/`): ASSIGN, MODE, XM, FAT, FDU, TUNE, ... | drive map of the CBIOS, files | command line | user |
| cpmtools (`Tools/unix/cpmtools`), which write the disk images of the build | directory and allocation vector in memory, the image file | cpmcp, cpmrm, cpmchattr, cpmls | build |

The BDOS is read in `CPM22/bdosb01.asm`, the disassembled and commented source.
`CPM22/Makefile` assembles it beside `OS3BDOS.ASM`, the other source of the same
BDOS, and links the system image from the latter.

How they meet: an operating system calls HBIOS with RST 08 in its own bank; the
proxy maps the HBIOS bank, runs the function on HBIOS's own stack and maps the
caller's bank again.  Data in low memory of another bank goes through the
64-byte bounce buffer.  An interrupt can strike in any of these; its handler
runs in the HBIOS bank and returns to whatever the proxy's bank cell says.  The
CBIOS keeps one 512-byte sector in the HBIOS bank for all its drives, in which
128-byte records are collected and out of which they are served.  The USB
devices share one chip, which has one address register: the timer tick polls
the keyboard through it whenever the program is not in the disk driver's
critical section.  The images the machine starts from have been written by
cpmtools, which keep a directory in memory and write it when they end.

What makes it hard, and what is therefore stated (the list with source lines is
`hazards` in `PROJECT.json`):

- *Proxy.*  Code and stack must be in mapped memory at every instruction;
  copies must be exact although the buffer also serves as two stacks; a call
  must give back the bank, the stack and the interrupt state; in interrupt mode
  1 an interrupt must find its vector; and every call must end.
- *Deblocking.*  Nothing accepted may be lost or mixed up by the deferred
  write, by the pre-read that is skipped when a new block is filled, by a drive
  change, a failed login, a failed transfer or a warm boot; the directory must
  never be ahead of the data on the medium.
- *Unit tables, heap, disk layer.*  Limits at which a table or memory is full;
  partial transfers; the number of sectors reported.
- *NVRAM switches, interrupt vectors, timers.*  Checksums after a partial
  update; an interrupt between the two bytes of a vector or of a tick count.
- *Serial buffers.*  Overflow, and flow control racing the interrupt handler.
- *USB transfers.*  A tick between a transfer's address and its tokens; answers
  that are short, stalled, late or of the call before; a floppy drive that is
  not ready, or whose pending status nobody fetched; the loop over the sectors
  of a call.
- *USB keyboard.*  A ring written in the interrupt and read by the program;
  ring, status and flush on either side of the wrap.
- *USB enumeration.*  One device at address 0 at a time, through stalls and hubs
  on hubs; descriptors longer than the buffer; the work area full; drives that
  are found by two drivers one after the other; a boot that must go on.
- *File system of the images.*  No block in two files, at any moment: a full
  device or directory, a tool killed or a write failed between two blocks.

## 2. Plan

In the order in which the parts matter to the machine as a whole:

1. `CbiosBlk` / `CbiosDisk` / `RecordDisk`: deblocking, its client and the
   abstract store of records it implements; proofs.  **Done.**
2. `HbxProxy`: bank switching under interrupts; proofs.  **Done.**
3. `SioReceive` / `ByteQueue`: the receive buffer of an interrupt-driven serial
   driver with its flow control, and the queue it implements; proofs.  **Done.**
4. `Heap`: the heap of the HBIOS bank; proofs.  **Done.**
5. `Switches`: the NVRAM switches, with a power failure between any two byte
   writes; proofs.  **Done.**  `MCHbios` runs it together with the heap.
6. `UsbKeyboard` / `KeyQueue` / `HidKeymap` and `UsbDisk`, composed in
   `UsbHost`: keyboard and disks on one USB chip; the queue the keyboard
   implements; proofs.  **Done.**
7. `UsbEnumerate`: enumeration, work area, drives and keyboard found in it;
   proofs that addresses are unique, slots sound and drives exact, and that every
   ordinary device that fits is found.  **Done.**
8. `CpmFs`: the file system as cpmtools write it; proofs for every geometry and
   any number of failures.  **Done.**
9. `BdosFiles`: the file system of the BDOS: FCBs, extents, and allocation
   vectors rebuilt at login.  To be composed with `RecordDisk`, which
   `CbiosDisk` already implements, and compared with `CpmFs`, the other program
   that writes the same directories.
10. `HbUnits`: HB_ADDENT, HB_DISPATCH and the dispatchers of the unit classes:
    limits of the tables, unit numbers out of range.  Composed with `Heap`, from
    start to reset.  To prove: a table never runs over its end.
11. `HbDisk`: HB_DSKREAD, HB_DSKWRITE, HB_DSKIO with the seek done before and a
    caller in another bank; the loop over the sectors is in `UsbDisk` already.
12. `Slice`: EXT_SLICE over all small partition tables, against a reference
    definition.
13. `Timer` and `Vectors`: ticks and seconds read while the tick interrupt
    runs; SYS_INTSET; the chain of mode 1 handlers (HB_ADDIM1), of which
    `SioReceive` is one link.
14. `DriveMap`: the drive map of the CBIOS as ASSIGN edits it, with the DPHs
    that `CbiosBlk` takes as given.

The number of runs stays small: a new part joins the run of the part it
interacts with (10 with `hbios_state`, 9 with `cbios_drives`).

Refinements worth stating: deblocking implements a store of records (done), a
serial driver implements a queue that gives up bytes only when full (done), the
USB keyboard likewise (done), the file system implements a map from names to
sequences of records.

## 3. The modules

### Deblocking

`CbiosBlk` is the disk half of `cbios.asm`, one operator for each BIOS entry:

| Variable | In the code |
|---|---|
| `sek` | SEKDSK, SEKTRK, SEKSEC, SEKLBA |
| `dphlba` | LBAOFF in each drive's DPH |
| `hst`, `hstact`, `hstwrt`, `buf` | HST..., HSTACT, HSTWRT, the buffer at DSKBUF |
| `una`, `unacnt` | UNADSK, UNATRK, UNASEC; UNACNT |
| `dma`, `status` | the record at DMAADR; register A |
| `media` | the sectors of the slices, outside the code |
| `lost` | ghost: the records the last call reported an error about |

`READ` and `WRITE` are all of BLKRW: each is a disjunction of *the pending
write fails*, *the read fails* and *it works*, in that order, as the code's
error returns are.  SETTRK, SETSEC and SETDMA are part of the transfer, because
the BDOS calls them before each one.  The contents of a record are one value,
a sector is `RPS` of them (4 in the code, where the shifts and the mask 3 are
division and remainder).  HBIOS calls succeed or fail nondeterministically, and
a failed write may or may not have reached the medium.

`CbiosDisk` composes this with its caller, the BDOS: it chooses the write type
as WTSEQ does, selects drives with the login bit as LOGINDRV does, homes,
resets the disk system, and after an error either goes on (the user ignores it)
or boots.  Its ghost `want` is what is owed: the last value accepted for each
record, and `Undef` for records of free blocks and those an error was reported
about.  `RandomAccess = FALSE` keeps to files written from the start of each
block; `TRUE` is function 34.

`RecordDisk` is the specification: records, no buffer.  `ImplementsStore` is
the refinement, with `Visible(r)` (the buffer if it stands for the record's
sector, the medium if not) as the abstract record.

### Proxy

`HbxProxy` follows one CPU through the proxy.  `pc` is the place in the code,
`sub` the instruction within HBX_BNKSEL (store the bank, first selector, second
selector), which is called at ten places.  Instructions that touch nothing an
interrupt handler can see or change are one step with their neighbours.

| Variable | In the code |
|---|---|
| `cur`, `inv`, `invsp` | HB_CURBNK, HB_INVBNK, HBX_INVSP |
| `ramsel`, `romsel` | MPCL_RAM, MPCL_ROM, in the hardware |
| `sp`, `iff` | the stack area SP points into; the interrupt flip-flop |
| `src`, `dst`, `left`, `bcsp`, `bcbnk`, `back` | HB_SRCBNK, HB_DSTBNK, BC, HBX_BC_SP, the bank pushed, the return address |
| `bounce` | HBX_BUF: its lower half, where HBX_PEEK has its stack, and its upper half, where HBX_INVOKE has |
| `arg`, `ppsp`, `ppbnk`, `pint` | register D or A; HBX_PPSP; the bank pushed; HB_PUSHINT's flags |
| `frames` | what HBX_BNKCALL pushes on the user's stack |
| `isr`, `intsp` | in the handler; HBX_INT_SP |
| `home` | ghost: what the caller had and wants back |

The memory is the SBC's: `Mapped` is the ROM selector's bank unless that names
a RAM bank.  `Shadow` gives the RAM bank the number of a ROM bank would select:
the test of bit 7 that mode 1 adds is there to keep that bank from being mapped
between the two OUTs.  The user program may do anything a program may: keep its
stack in its bank or above, enable interrupts where page zero has a vector
(mode 1), call HBIOS, copy, select banks and call routines in them.  A handler
is one step for a program that waits for it, with `IntPeek` for the front panel
driver's use of HBX_PEEK inside the handler.

### Serial receive

`SioReceive` is one channel of the SIO driver.  The interrupt handler and
SIO_IN share the count, the head and the tail of a ring buffer, and the chip's
register pointer: a write to the command port goes to WR0 unless the one before
selected WR5.  SIO_IN (`InCall` to `InReturn`) is cut where an interrupt makes
a difference: before it masks interrupts, and in the critical section, where
none can come, at the instructions the mutants show to matter.

| Variable | In the code |
|---|---|
| `cnt`, `hd`, `tl`, `buf` | SIO0A_CNT, _HD, _TL, _BUF |
| `fifo`, `wr5`, `ptr` | the chip: received bytes, write register 5, the pointer |
| `slip` | the remote: bytes sent since RTS went off |
| `cfg` | the line characteristics in the unit's data |
| `isr`, `masked`, `pc`, `got` | in the handler; after HB_DI; the place in SIO_IN; register E |

`Size` is SIO_BUFSZ, `Fifo` what the chip holds, `Lag` what a remote still
sends after RTS has gone off.  `ByteQueue` is the specification: bytes arrive,
are accepted in order or lost when `Size` wait, and are delivered in order.

### USB keyboard and disks

`UsbHost` is one program, one timer interrupt and one CH376.  `TickPoll` and
`TickPut` are usb_kyb_tick: the poll itself, which does nothing while the
critical section is held, and then one step per slot of a report that is news.
`ProgramKeyboard` and `ProgramDisk` are the program's calls; a tick may come
between any two of their steps.

| Variable | In the code |
|---|---|
| `buffer`, `write_index`, `read_index` | the ring of kyb_driver.c, of the same names |
| `report`, `previous`, `caps_lock_engaged` | of the same names |
| `indx`, `reading`, `got` | the tick: slots still to look at; the program: past the test for an empty ring; what usb_kyb_read returned |
| `addr`, `retry`, `crit`, `open` | the chip's device address and NAK retries; in_critical_usb_section; between ch_set_usb_address and the end of the transfer |
| `current_lba`, `next_tag` | of the device's configuration; the tag of the command block wrapper |
| `call`, `done`, `mem`, `status` | HB_DSKIO: the call, the sectors completed, the caller's buffer, the result |
| `pc`, `stage`, `tries`, `key`, `res` | the transfer that is next; of a UFI command: which, attempts left, sense key; outcome so far |
| `media`, `pipe`, `sense`, `halted` | outside the code: the disks, packets a mass storage device has yet to send, what a floppy drive has pending |

`UsbKeyboard` is the keyboard, `HidKeymap` its table of characters as an
operator, `KeyQueue` the queue it implements.  `UsbDisk` is both disk drivers.
Every transfer may be answered, answered short, stalled, or not answered, and a
status that was not in time stays in the device for the next transfer to find.  A
device that is sent a new command forgets a status nobody fetched; one that
kept it as well would give its data one transfer late, from which the driver
does not recover (section 6).  Contents are one value per sector.

### USB enumeration

`UsbEnumerate` is `_chnative_init` from the reset of the bus to the drives.  A
wiring says what is plugged in; one step is one request, which the device
takes, stalls or leaves unanswered.

| Variable | In the code |
|---|---|
| `stack`, `result` | the calls of read_all_configs, which recurs through the hubs, with their locals |
| `nextAddress`, `slots` | next_device_address; device_configs, by the offset a slot begins at |
| `phase`, `round`, `index` | which part of the boot runs; loop_counter; the slot chscsi_init, chufi_init or ukyb_init looks at |
| `drives`, `keyboard` | hbios_usbstore_devs; the slot of the keyboard |
| `wiring`, `at` | outside the code: what is plugged in, and the address each device answers at |

Descriptors are records with a type and a length.  `AdvToNextDesc` walks them
as the code does, over a buffer of 140 bytes, and `Spins` where the code would
not come back.  An address has seven bits in the protocol, and the driver counts
no further than `MaxAddress` in the model; in a slot it has four, which is why
`SlotsHonest` speaks of enumerations that gave fewer than sixteen.  `LegalTree`
is what a bus can look like: a device hangs on one port and the root on none,
and a hub has ports and, as the USB standard has it, one interface.  With two
hub interfaces the driver would walk its ports twice.

`Ordinary` is what `EverythingFound` needs beyond that, and what the drivers take
for granted: everything plugged in hangs on the root by way of hubs, fewer than
sixteen devices (the four bits of an address in a slot), configurations that
count their interfaces and endpoints as they are, at most one endpoint of a kind
for a disk, a keyboard whose last endpoint is the one to be read.  All wirings of
`usb_enum` are ordinary, and TLC checks that they are (`MCWiringsOrdinary`).
`Fits` says that no configuration is longer than the buffer and that there are no
more than six interfaces with a driver; one wiring does not fit.

### File system of the images

`CpmFs` is cpmfs.c under cpmcp (with and without `-t`), cpmrm and cpmchattr.

| Variable | In the code |
|---|---|
| `image` | the file, as its directory and its blocks |
| `dir`, `alv`, `dirty` | sb->dir, sb->alv, sb->dirtyDirectory |
| `tool`, `file`, `sync` | which tool runs; cpmFile with the locals of cpmWrite; the next directory block of cpmSync |
| `touched`, `copied`, `lost` | ghosts: names the tool was called for, what it copied without complaint, whether a write failed |

Positions are counted in cells, of which a record, a sector, a block and a
logical extent are some number each.  A cell of a file holds its owner and its
place, so that whoever reads it knows whose data it is.  A step is one write
to the image or the work between two of them; the tool can be killed between
any two steps (`Killed`), and one read or write of the image can fail.

### Heap and switches

`Heap` is SYSALLOC and SYSRESET.  `Refused` is the code's arithmetic, two
additions that wrap at `Word` with the carries it tests and bit 15; `RefusalExact`
compares it with the arithmetic of numbers.

`Switches` has the configuration block (`sw`), the NVRAM (`nv`) and the next
byte NVSW_WRITE will write (`at`).  A byte is the set of its one bits, so that
XOR is the symmetric difference and the proof holds for any width.  `Boot` can
come at any moment and is the end of NVR_INIT.  The ghosts `kind`, `old` and
`new` remember the update the NVRAM was last left in.

## 4. Runs

All use `tlc -config <cfg> <module>`; the largest, `cpmfs`, takes a few minutes
with two workers, the others seconds to a minute.

| Run | Instance | What it shows |
|---|---|---|
| `cbios_fill` | 1 drive, 2 tracks of 2 records, sectors of 2, blocks of 4 | types; records are never lost; a fill expects only records nothing is owed about. The block crosses the track end, so UNA_INC's wrap is taken |
| `cbios_drives` | 2 drives, each a directory block and a data block of one sector | the buffer shared by drives whose logins and transfers fail: nothing goes astray, at most the buffered sector is at risk, a directory write is a barrier for both drives; refinement of `RecordDisk` |
| `cbios_random` | 1 drive, random access | **violation**: a fill started in the middle of a block destroys records of the next block |
| `hbx_im1` | 4 banks (HBIOS, user, application without vector, ROM), copies of up to 2 pieces, 2 nested calls, mode 1, front panel | bank, vectors, what calls give back |
| `hbx_im2` | mode 2, 4 banks, 2 pieces, 1 call, `FairSpec` | copies are exact with interrupts on; every call returns |
| `sio_live` | buffer of 6, the chip holds 2, the remote sends 3 more, `FairSpec` | the ring is a queue; RTS follows its fill; bytes are dropped only when the remote did not stop in time; the line reopens, what arrived is served |
| `sio_bits` | 1 byte value | **violation**: RTS changes take the character length back to 8 bits |
| `hbios_state` | heap: words of 64 values, HBIOS ends at 5, every size; switches: bytes of 2 bits, every content of the NVRAM to begin with; one cold start for both | blocks and their headers are apart; what does not fit is refused, sums that wrap included; settings reported stored survive; a torn update of one switch is old, new or rejected |
| `usb_host` | ring of 4, 2 slots, a letter and caps lock; both disks with 2 sectors, 3 tags, 2 attempts, `FairSpec` | ring and map of the keyboard; no transfer's address is changed under it; mass storage calls are exact, floppy calls of one sector are honest; calls return |
| `usb_floppy` | a floppy drive with 2 sectors | **violation**: a call for two sectors transfers one of them twice, and a failed read counts as read |
| `usb_enum` | 11 wirings, 3 requests fail, 1 enumeration is tried again, `EnumSpec` with fairness | addresses, slots and drives through failures; everything is found when nothing fails; the boot goes on |
| `cpmfs` | 2 names, 2 directory entries in 2 blocks, 3 data blocks, files of up to 10 cells, 3 tools, 1 failure or kill | no block in two files at any moment; what was copied is there; nobody reads another file's data; files a tool was not called for stay as they are |

Deadlock is checked except where the system may stop: in `usb_host` and
`usb_floppy` a call that returned need not be followed by another within the
bounds, the boot of `usb_enum` ends, and the sessions of `cpmfs` are counted.

*Bounds.*  Deblocking copies contents and never looks at them, so two values
are enough, and a state in which two records are mixed up is among those in
which one record has the second value (`OneMarked`).  One sector buffer means
that at most two sectors are involved in any step, and two drives or two blocks
are all that can be confused.  For the proxy, a bank matters as the HBIOS bank,
the caller's, another with and another without a vector, or a ROM bank; two
pieces are a first and a last one; two nested calls have an inner and an outer
one.  A buffer of 6 has its two
thresholds apart from each other and from its ends, and a chip and a remote
that deliver 5 more after RTS went off fill it.  Of a byte the queue needs only
that two can be told apart.  Two bits give the four kinds of byte the switches
distinguish: 0, 1, 'W', another; `OneAtATime` in `MCHbios` looks at a heap in
use with one content of the NVRAM only, as nothing but the cold start connects
the two.

A ring of 4 wraps and fills with three characters, a report of two slots has a
first and a last one and keys that move between them.  Two sectors are a first
and a last one, two attempts a first and a last one, and three tags let a
status be of the command before without being of the one after; one late answer
at a time is all the pipe holds.  `OneAtATime` in `MCUsbHost` lets a behaviour
use the keyboard or one of the disks, with the other side polled without news:
what they share is the chip, and of that the poll changes all it ever changes.

The ten wirings are a device alone, composite devices, two configurations, a
configuration longer than the buffer, an interface nobody serves, hubs, hubs on
hubs with devices before and behind, empty ports, and work areas with six slots
that fill it exactly.  Three failures hit a request, its retry and another one.

In the file system two names are the victim and the intruder (the names are
symmetric).  Two directory entries in blocks of their own are a directory that
is written in two pieces: in the code a block holds at least thirty-two
entries, so the model's order is finer than the code's.  An entry has two
pointers to blocks of one logical extent, so an entry holds two extents, and a
file of 10 cells needs a second entry, three blocks and a partial sector.  Three
tools are one that fails, one that follows, and one that reads what the
first two left.

The proofs below hold without any of these bounds.

*Views.*  `View` leaves out cells no later step reads before writing them (a
tracked position when the count is 0, the saved stack of a call that is not in
progress).  In `SioReceive` it is the cells of the ring outside the queue.  The
properties are either about the cells in the view or about a step from its
start state, so no violation is hidden.

*Fairness* (`hbx_im2`, `sio_live`, `usb_host`, `usb_enum`).  `WF(IntReturn)`:
handlers end.  `SF(System)`: the program gets to its next instruction although
interrupts interrupt it again and again; the CPU guarantees that after the EI
before RETI one instruction is executed.  `SF(FnDone)`: a driver's function
ends, that is, a disk transfer has a last sector (the sector count is one byte
counted down).  The user program is not fair: it may stop calling.  For the
serial driver, `SF(IntEnter)`: a pending interrupt is taken at the first
instruction with interrupts enabled, so masking them again and again cannot
hold it off.  `WF(Interrupt)`: the handler runs on. `WF(Receive)`: the program
keeps reading; without that nobody is owed anything.  For USB, `WF(TickPut)`: a
tick that has its report ends, being a loop over its slots.  `SF` of a disk
step while no report is being put away: the timer interrupts at a fixed rate
and leaves the program the time between; the caller itself is not fair.  In
`usb_enum`, `WF` of the boot's own steps: nothing runs beside it.

## 5. Proofs

`CbiosDiskProofs`, `HbxProxyProofs`, `SioReceiveProofs`, `HbiosProofs` (heap and
switches), `UsbDiskProofs` with `UsbHostProofs`, `UsbEnumerateProofs` and
`CpmFsProofs` are checked by TLAPS for every value of the constants that
the named assumptions admit.  In each there is an inductive invariant, with one
lemma for each operation or group of operations.

*Deblocking.*  `GeometryAssumption` (sectors divide tracks and blocks) and
`ClientAssumption`.  The properties other than typing assume `~RandomAccess`,
without which they are false.  `Coherent` is not inductive; `Inv` adds that the
buffer agrees with what is owed on its own sector (`BufferRight`), that all
else owed is on the medium (`OneSectorAtRisk`), that DPHs of logged-in drives
have the right offset (`DrivesRight`), and of a fill in progress: the records
it expects are owed to nobody (`FillFresh`), those before them in the current
sector are in the dirty buffer (`FillBehind`) and it ends on a sector boundary.
The last two are what makes skipping the pre-read safe (`SkipSafe`), and the
arithmetic of blocks, tracks and sectors is where the work is.
The barrier (`DirectoryFollowsData`) follows from what a flush leaves: after a
directory write that went well the buffer is clean, so what is owed is on the
media.  The refinement (`ImplementsRecords`) maps each record to what is visible
of it, which `Coherent` says is what is owed where anything is; each call is a
Read, Write, Fail, Release or Control of `RecordDisk`, or a stutter.
Theorems: `TypeCorrect`, `NothingIsLost`, `AtMostOneSectorAtRisk`,
`NoTransferStrays`, `FillsStayFresh`, `ReadsAreRight`, `DirectoryFollowsData`,
`ImplementsRecords`.

*Proxy.*  `ProxyAssumption`.  `IInv` says, for each place in the code and
whether or not a handler is running, what the selectors hold
(`SelectorsRight`), which bank the cell names (`BanksRight`, `SwitchRight`),
which stack is in use (`StackRight`), what the saved cells hold (`SavedRight`),
and what is in the bounce buffer and when interrupts are masked.  An interrupt
keeps it because the handler gives back all it takes; HBX_BNKSEL keeps it
because the cell is written before the selectors.
Theorems: `InvariantHolds`, `TypeCorrect`, `AlwaysInTheRightBank`,
`CopiesAreExact`, `VectorsAreReady`, `CallsGiveBack`.

*Serial receive.*  `SioAssumption`: a buffer of 4 to 255 bytes, any chip, any
remote.  `IInv` adds to the types where the head is, relative to tail and count
(`RingRight`), that the critical section is masked and between which
instructions the register pointer is at WR5 (`ProgramRight`), and how much the
chip and the remote can still deliver for each state of RTS (`RtsRight`),
without which `FlowControl` is not inductive.  The refinement is proved step by
step: each action is one of `ByteQueue`'s or leaves line and queue alone.
Theorems: `TypeCorrect`, `FlowIsControlled`, `NothingDropped` (if the half of
the buffer above the threshold takes what chip and remote still deliver),
`ImplementsQueue`.

*Heap.*  `HeapAssumption`: the end of HBIOS lies in the bank.  `HeapInv` adds that
blocks end at or below the top (`BelowTop`) and that there are none before
HBIOS is up (`AboveCurb`).  Theorems: `HeapInvariantHolds`, `HeapTypesRight`,
`BlocksNeverMeet`, `RefusedWhenFull`.

*Switches.*  `SwitchAssumption`.  `SwitchesInv` adds how much of an update has reached
the NVRAM (`WritingRight`) and, of an update by SYS_SETSWITCH, that it began
from valid switches and differs from them in one byte or in bytes 1 and 2
(`SetRight`).  The one state that is neither old nor new is then byte 1 written
and byte 2 not, and with the old checksum that is valid only if byte 1 did not
change: XOR cancels.  Theorems: `SwitchesInvariantHolds`, `SwitchesTypesRight`,
`StoredIsStored`, `TornSetsAreSeen`.

*USB keyboard and disks.*  `KeyboardAssumption`: a ring of any size from 2 on,
any reports.  Its invariant is the types; the work is the arithmetic of a ring
modulo its size (`WaitingRight`, `QueueRight`, `StoreAppends`, `TakeIsHead`),
from which every step is one of `KeyQueue`'s or leaves the queue alone.
`KeymapRight` is a fact about the tables for each state of caps lock, proved
case by case over the scan codes; caps lock is its only link to the state.
`DiskAssumption`: any number of sectors, of attempts, and of tags above one.
`DiskInv` is `DiskRight` (types; how often the critical section is entered at
each place, and that from an open transfer on the chip has the call's address;
where the call stands), `PipeRight` (what a mass storage device is about to
send: whatever a command left behind does not have the next command's tag, or
is more than it will wait for), `SectorsRight` (the sectors done are where they
belong) and `FloppyRight` (a sector is on both sides when the command went well
and the drive has no sense data).  `MassStorageExact` alone is not inductive:
without `PipeRight` a late status would pass for the one awaited.  A poll by
the tick keeps all of it, being possible only with the section free.
Theorems: `TypesRight`, `StatusIsExact`, `KeyboardIsQueue`, `NewKeysTyped`,
`KeymapIsRight`, `TransfersUndisturbed`, `MassStorageIsExact`, `FloppyIsHonest`.

*USB enumeration.*  `WiringsAssumption` and `BoundsAssumption`: any tree of hubs
and devices, any number of failures and rounds.  `AddressInv` says, for each
place of the innermost call, which device may still be at address 0 (`AtZero`:
none, or the one on the port at hand), and that no address given is above the
last one (`Given`).  `DriveInv` says that the drives are those among the slots
passed so far of the driver's type, once each; that find_storage_dev always
finds a free entry follows because six slots cannot fill six entries before
the last of them is looked at.  For the slots, `WalkInv` adds what the recursion
through the hubs keeps: a device that is off or has no address yet has nothing
awake behind it (`Shaded`), so that powering ports or resetting one never
silences a device that has slots; the calls waiting on the stack are for
different devices, each at the port it is waiting for (`CallsRight`); the slots
follow one another from offset 0 without a gap (`Chain`); and each is of an
interface of the device that answers at its address (`Honest`).  `SlotsHonest`
alone is not inductive: without `Shaded` a port reset could take away the device
a slot speaks to.  That CountOfDevices and the walks by get_usb_device_config
meet every slot (`AllMet`) follows from `Chain` by well-founded induction over
the offsets.  TLC has checked the four parts of `WalkInv` on the run's wirings.

That nothing is missed when nothing fails (`EverythingFound`) is an invariant of
its own, `FoundInv`, under `Smooth`: the wiring is `Ordinary` and fits, and no
request has failed so far, which never becomes true again once it is false.  It
has three parts.  `CountInv`: the counters of each call are the interfaces
and endpoints from its own place on, so that op_endpoint_next and
op_interface_next end exactly where the descriptors do.  `TreeInv`: as
many addresses were given as devices have one (`Awake`), and behind a call there
is nothing left in the dark (`Lit`): the ports of a hub above the one at hand
are lit, and those of a device without a hub still to come are lit all; at the
end every device is awake, because the devices that are awake are closed under
what hangs on them.  `LaidInv`: there are as many slots as interfaces the walk
has come by (`Passed`, those no call on the stack still comes to), and
each of these has one, with the endpoints that lie before the place the walk is
at (`Placed`).  `Passed` is smaller than `Served` while an interface is
configured, so there is room for its slot; without the count nothing would say
so.  What the recursive `Offset` and `Places` compute is found from the least
place where it would be wrong, not by an induction theorem, and the descent over
the tree is in the definition of `Ordinary`, whose closed sets are all or
nothing.  TLC has checked `FoundInv` on the run's wirings.
Theorems: `AddressesAreUnique`, `DrivesAreExact`, `EnumTypesRight`,
`SlotsAreRight`, `EverythingIsFound`.

*File system of the images.*  `CpmFsSizes`: sectors, records, blocks, extents
and the buffer of cpmcp divide one another as cpmtools require, and the
directory lies in the image.  Names, entries, blocks, lengths, sessions and
failures are any number.  `FsInv` rests on one observation: cpmcp only adds to
the directory, cpmrm and cpmchattr only take away or change attributes (`Kin`),
so a directory half written by cpmSync is a mixture of two of which one contains
the other, and is sound because the larger one is (`Sound`: no block twice, no
part of a file twice).  `AlvExact` ties the allocation vector to the directory
in memory, `Steady` keeps the entries of files a tool was not called for,
`Synced` says how far cpmSync has got.  Of the data, `OwnCells` says that what
can be read through either directory is the file's own or zero, `FileRight` which
entries, pointers and lengths the open file has after so many cells, with
`Recognised` for the extent number that `cpmcp -t` may leave behind
(`NumberRight`), and `CopiedRight` what a copied file reads as until its tool
ends and afterwards.  `Delivered` and `OwnData` alone are not inductive: neither
says anything of the file being written.  TLC has checked `FsInv` on three
geometries.  Theorems: `FsInvariantHolds`, `FsTypesRight`, `SpaceIsSound`,
`DataIsOwn`, `CopiesAreDelivered`, `BystandersStay`.

*Proved, though no run checks it:* the types of the drives run, of the proxy,
the serial driver, the heap and the switches, `ReadsTheLastWrite` and
`StatusExact`.  A property with a run in one interrupt mode is proved for both.

*Only model-checked:* the liveness properties `EveryCallReturns`, `LineReopens`,
`Served`, `CallsReturn` and `BootGoesOn`, because TLAPS does not reason about
fairness and ENABLED.  Every other property of the passing
runs is proved.

## 6. What the checks found

1. **A fill that starts in the middle of a block** (`cbios_random`).  UNA_INI
   counts the records of a whole block from wherever the first write is.  With
   random access that runs into the next block, where the pre-read is then
   skipped although the rest of the sector is in use.  Files written
   sequentially are not affected, which is what the proofs show.
2. **RTS changes lose the character length** (`sio_bits`).  The handler and
   SIO_IN write all of WR5 from constants with 8 bits to a character, over what
   SIO_INITDEV programmed and CIOQUERY still reports.
3. **Calls for several sectors of a USB floppy drive** (`usb_floppy`).  The UFI
   driver does not advance its LBA after a sector as the SCSI driver does, so
   the loop of HB_DSKIO transfers the same sector again and reports them all;
   and CH_UFI_READ replaces the result of a read by 0.  `FloppySectorHonest`
   says what does hold: when the driver itself is content, before the entry
   hides its result, the sector on the disk is the one in the buffer.

Seen while modelling, without a run of their own.  Proxy and deblocking:

- SYSSETCPY's setting is not kept (`hbios.asm` 4751), contrary to the System
  Guide (2683): banked disk transfers use the same cells.
- HBX_BNKCPY masks interrupts only in mode 1; its comment (`hbios.asm` 1039)
  says modes 1 and 2.  The copy is right in mode 2 all the same (`hbx_im2`).
  Its temporary stack (1428) has some twenty bytes, which bounds how deep a
  handler of mode 2 may push before it switches to its own.
- HBX_INVOKE keeps its caller's stack and bank in one cell each (636): a
  handler that called HBIOS through it would overwrite them.
- A removable medium that is exchanged while a sector is pending (`cbios.asm`
  832) gets the sector of the old one; nothing in the BIOS can tell.
- The UNA build of DSK_MBR (`cbios.asm` 1424) ignores the result of its flush.

Other parts of HBIOS:

- A receive buffer of 128 bytes (the SC720 build) that is full is reported by
  CIOIST as $80, which the System Guide calls an error.
- In mode 1 the SIO's handler serves the first channel with a byte and returns
  (`sio.asm` 249): channel A comes before channel B every time.
- Switch 0, the header of the NVRAM, "cant be used" by the comment in
  SWITCH_TAB, but SYS_SETSWITCH accepts it: 0 written there makes HBIOS say
  that there is no NVRAM until it is restarted.
- NVSW_RESET changes up to three bytes.  Cut short, two changes can cancel out
  in the checksum, and NVR_INIT accepts switches nobody has set.
- SYSRESET (`hbios.asm` 5740) releases all that was allocated since HBIOS came
  up, by whoever.

USB driver (`ch376-native/source-doc`):

- After a transfer that failed there is no reset recovery (`class_scsi.c` 40): a
  device that keeps the status of the failed command is a transfer late from
  then on.
- usbtrn_clr_ep_halt names the endpoint without its direction
  (`protocol.c` 156), so a halted input endpoint stays halted.
- A key that another slot held before counts as new (`kyb_driver.c` 44): keys
  still down are typed again when the keyboard closes a gap, or after a flush.
- A device that stalls while it is enumerated is tried again by the call for
  its hub (`enumerate.c` 231), and one that keeps failing hides the ports after
  it (`enumerate_hub.c` 75).
- A configuration of 256 bytes or more is cut by the 8-bit length and may make
  the walk over descriptors loop for ever; `BootGoesOn` excludes it.  More than
  six served interfaces can leave the work area; `SlotsRight` excludes it.  An
  address in a slot has four bits (`dev_transfers.h` 26).
- A keyboard has one endpoint place (`enumerate.c` 38), so the last endpoint of
  its interface is polled.

cpmtools (`Tools/unix/cpmtools`):

- A call of cpmWrite that crosses 16384 bytes inside an entry records the extent
  number of its beginning (`cpmfs.c` 1799), against `cpm.5` 135; only `cpmcp -t`
  makes such calls, and `Recognised` in the model says what is then read back.
- The results of writeBlock (1782) and of cpmSync at unmounting are ignored, so
  `cpmcp` exits with 0 although a write failed, against `cpmcp.1` 68.
- An empty file reads as 128 bytes (1314); whether the sector at the end of a
  write is read first depends on the position only (1758).
- cpmAttrSet changes the entries from the one found upwards only (1904).

## 7. Not modelled

Boot loader, operating systems other than the BDOS's disk calls, device drivers
other than those above (the sending half of the SIO's included), applications,
the UNA build of the CBIOS, other memory managers, the Z280's system mode and
the mutex (off in every configuration).  Change of medium under a dirty buffer,
byte depths of stacks, timing.  Programs that write the NVRAM of the switches
past HBIOS.  USB: the bytes of descriptors and commands, hot-plugging after the
boot (the driver does not support it), CDC devices after enumeration.
cpmtools: date stamps, passwords, the ISX format, cpmls, mkfs.cpm (but for the
empty image it leaves, which is the initial state of `CpmFs`), and the
checker and editor fsck.cpm and fsed.cpm; two tools on one image at a time.

The firmware is almost all Z80 assembler; the C and C++ in the repository is,
apart from the USB driver and cpmtools, third-party tools of the build (an
assembler, a packer, a compiler for the Propeller, a CP/M emulator), which are
not part of the running system and keep no state between runs.  They are left
out for that reason.  `PROJECT.json` lists every part with its status and, for
those left out, the reason.
