---------------------------- MODULE UsbEnumerate ----------------------------
(***************************************************************************)
(* The start of the USB driver of the CH376 chip: it resets the bus, walks *)
(* the tree of hubs giving every device an address, reads the descriptors, *)
(* and lays out one slot for each interface it has a driver for in the     *)
(* work area (enumerate.c, enumerate_hub.c, enumerate_storage.c,           *)
(* usb_state.c).  The drivers for disks and keyboards then take the slots  *)
(* they serve (scsi-init.c, ufi-init.c, kyb-init.c).                       *)
(*                                                                         *)
(* A device that has been reset answers at address 0 until it is given an  *)
(* address of its own.  One step is one request to a device, which the     *)
(* device takes, stalls, or does not answer; stack holds the calls of      *)
(* read_all_configs, which calls itself through the hubs.                  *)
(***************************************************************************)
EXTENDS Naturals, Sequences, FiniteSets, SequencesExt, FiniteSetsExt, Functions, TLC

CONSTANTS
  Wirings,   \* what may be plugged in: see LegalWiring
  NoDevice,  \* an empty port
  Faults,    \* bound: how many requests fail of those somebody could answer
  Rounds     \* loop_counter of _chnative_init: 5, or 40 when forced

MaxConfigSize == 140       \* MAX_CONFIG_SIZE
MaxNumberOfDevices == 6    \* MAX_NUMBER_OF_DEVICES
AreaSize == 96             \* of device_configs
MaxAddress == 127          \* bound: the addresses of USB have seven bits
Off == 128                 \* a device that has no power or was not reset
End == 1000                \* NULL as the place of a slot

\* identify_class_driver, by class, subclass and protocol.
IdentifyClassDriver(d) ==
  LET class == d.class[1]  sub == d.class[2]  protocol == d.class[3]
  IN  CASE class = 2 -> "cdc"
        [] class = 8 /\ sub \in {5, 6} /\ protocol = 80 -> "storage"
        [] class = 8 /\ sub = 4 /\ protocol = 0 -> "floppy"
        [] class = 9 /\ sub = 0 /\ protocol = 0 -> "hub"
        [] class = 3 -> "keyboard"
        [] OTHER -> "unknown"

(* A wiring has a root device, the ports of every device and its           *)
(* configurations, each a sequence of descriptors.                         *)
Interfaces(c) == {i \in DOMAIN c : c[i].type = "interface"}
Configs(w) == UNION {Range(w.configs[d]) : d \in DOMAIN w.configs}
LegalConfig(c) ==
  /\ c # << >> /\ c[1].type = "configuration"
  /\ \A i \in DOMAIN c : c[i].length \in 2..255
  /\ \A i \in DOMAIN c : c[i].type \in {"interface", "endpoint"} => c[i].number \in 0..255

\* What hangs on the ports of device d.
Children(w, d) == Range(w.ports[d]) \ {NoDevice}

\* The interfaces of device d that are those of a hub: configuration and place.
Hubs(w, d) == UNION {{<<n, i>> : i \in {i \in Interfaces(w.configs[d][n]) :
                                          IdentifyClassDriver(w.configs[d][n][i]) = "hub"}} :
                      n \in DOMAIN w.configs[d]}

\* The bus is a tree: a device hangs on one port, the root on none, and a hub has
\* ports and, as the USB standard has it, one interface.
LegalTree(w) ==
  /\ \A d \in DOMAIN w.ports : w.root \notin Children(w, d)
  /\ \A d, e \in DOMAIN w.ports : \A m \in DOMAIN w.ports[d], n \in DOMAIN w.ports[e] :
       w.ports[d][m] = w.ports[e][n] /\ w.ports[d][m] # NoDevice => d = e /\ m = n
  /\ \A d \in DOMAIN w.ports : Hubs(w, d) # {} => w.ports[d] # << >>
  /\ \A d \in DOMAIN w.ports : \A g, h \in Hubs(w, d) : g = h
LegalWiring(w) ==
  /\ w.root \in DOMAIN w.ports
  /\ DOMAIN w.configs = DOMAIN w.ports
  /\ \A d \in DOMAIN w.ports : w.ports[d] \in Seq(DOMAIN w.ports \cup {NoDevice})
  /\ \A d \in DOMAIN w.ports : w.configs[d] \in Seq(Configs(w))
  /\ \A c \in Configs(w) : c \in Seq(Range(c)) /\ LegalConfig(c)
  /\ LegalTree(w)
ASSUME WiringsAssumption == \A w \in Wirings : LegalWiring(w)
ASSUME BoundsAssumption == Faults \in Nat /\ Rounds \in Nat

VARIABLES
  wiring,       \* what is plugged in
  at,           \* the address each device answers at
  stack,        \* the calls of read_all_configs, the innermost first
  result,       \* of the call that returned last
  nextAddress,  \* state->next_device_address
  slots,        \* device_configs: the slots, by the offset they begin at
  phase,        \* what the boot is doing
  round,        \* enumerations that found nothing
  index,        \* of the slot a driver looks at
  drives,       \* hbios_usbstore_devs: the slot of each drive
  keyboard,     \* the slot of the keyboard, 0 for none
  faults        \* requests that may still fail

enumvars == <<wiring, at, stack, result, nextAddress, slots, phase, round, index,
              drives, keyboard, faults>>
-----------------------------------------------------------------------------
(* The work area: slots of different sizes, one after the other.           *)

\* configure_device writes as many bytes as the structure has.
StructSize == [floppy |-> 16, storage |-> 16, cdc |-> 12, keyboard |-> 6]

DeviceConfigSizesOff == [floppy |-> 16, storage |-> 16, cdc |-> 12, keyboard |-> 3]

\* device_config_sizes, by which the area is walked.
DeviceConfigSizes == [floppy |-> 16, storage |-> 16, cdc |-> 12, keyboard |-> 6]

Used(p) == p \in DOMAIN slots

\* The places the loops of usb_state.c come by: the first, and the one after a
\* slot (next_device_config) as long as it is in the area.
After(p) == p + DeviceConfigSizes[slots[p].type]
Places ==
  LET met[p \in 0 .. AreaSize] ==
        p = 0 \/ \E q \in DOMAIN slots : q < p /\ After(q) = p /\ met[q]
  IN  {p \in {0} \cup {After(q) : q \in DOMAIN slots} : p < AreaSize /\ met[p]}

\* Only the last of them can be free.
FindFirstFree ==
  LET free == {p \in Places : ~Used(p)} IN IF free = {} THEN End ELSE Min(free)

Met == {p \in Places : Used(p)}
CountOfDevices == Cardinality(Met)

\* usb_get_device_type of slot i, the first on the way being 1.
UsbGetDeviceType(i) ==
  LET found == {p \in Met : Cardinality({q \in Met : q <= p}) = i}
  IN  IF found = {} THEN "none" ELSE slots[Min(found)].type
-----------------------------------------------------------------------------
(* The descriptors of a configuration, as they lie in the buffer.          *)

\* Where descriptor i begins.
Offset(c, i) ==
  LET sum[k \in 1 .. Len(c) + 1] == IF k = 1 THEN 0 ELSE sum[k - 1] + c[k - 1].length
  IN  sum[i]

\* usbtrn_gfull_cfg_desc keeps the total length in 8 bits and cuts it to the
\* buffer; what was not received is zero.
Received(c) == Max({c[1].length, Min({Offset(c, Len(c) + 1) % 256, MaxConfigSize})})

\* adv_to_next_desc from descriptor i.  The walk stops at a descriptor of the
\* type, or at the end of the buffer, or never: where the buffer is zero it
\* adds a length of zero for ever.
Buffers == UNION {Configs(w) : w \in Wirings}
TooLarge == 0
Spins == 1
AdvToNextDescUnchecked ==
  [c \in Buffers |-> [type \in {"interface", "endpoint"} |-> [i \in DOMAIN c |->
     LET stop == Min({k \in i + 1 .. Len(c) + 1 :
                        \/ k = Len(c) + 1
                        \/ Offset(c, k) >= Received(c)
                        \/ c[k].type = type})
     IN  IF stop > Len(c) \/ Offset(c, stop) >= Received(c) THEN Spins ELSE stop]]]

AdvToNextDesc ==
  [c \in Buffers |-> [type \in {"interface", "endpoint"} |-> [i \in DOMAIN c |->
     LET stop == Min({k \in i + 1 .. Len(c) + 1 :
                        \/ k = Len(c) + 1
                        \/ Offset(c, k) >= Received(c)
                        \/ c[k].type = type})
         here == Offset(c, stop)
         found == ~(stop > Len(c) \/ here >= Received(c))
     IN  IF here >= MaxConfigSize \/ (found /\ here + c[stop].length >= MaxConfigSize) THEN TooLarge
         ELSE IF found THEN stop ELSE Spins]]]

EndpointPlacesSwapped(type, e) ==
  CASE type \in {"floppy", "storage"} /\ e.kind = "bulk" -> {IF e.in THEN "bulkOut" ELSE "bulkIn"}
    [] type \in {"floppy", "storage"} /\ e.kind = "interrupt" /\ e.in -> {"interruptIn"}
    [] type = "keyboard" -> {"bulkOut"}
    [] OTHER -> {}

\* The place of an endpoint in its slot: parse_endpoints for a disk,
\* parse_endpoint_keyboard for a keyboard, which has one place.
EndpointPlaces(type, e) ==
  CASE type \in {"floppy", "storage"} /\ e.kind = "bulk" -> {IF e.in THEN "bulkIn" ELSE "bulkOut"}
    [] type \in {"floppy", "storage"} /\ e.kind = "interrupt" /\ e.in -> {"interruptIn"}
    [] type = "keyboard" -> {"bulkOut"}
    [] OTHER -> {}

NoEndpoints == [bulkOut |-> 0, bulkIn |-> 0, interruptIn |-> 0]
-----------------------------------------------------------------------------
(* The devices on the bus.                                                 *)

Devices == DOMAIN wiring.ports
Answering(a) == {d \in Devices : at[d] = a}

\* The device and what hangs on it, through as many hubs as there are: the least
\* set that has the device and what is on the ports of its members.
Below(d) ==
  LET closed(S) == \A e \in S : Children(wiring, e) \subseteq S
  IN  {e \in Devices : \A S \in SUBSET Devices : d \in S /\ closed(S) => e \in S}

\* How a request to address a ends, and what it costs of the bound.
Outcomes(a) ==
  IF Cardinality(Answering(a)) # 1 THEN {"timeout"}
  ELSE IF faults = 0 THEN {"ok"} ELSE {"ok", "stall", "timeout"}
Spend(a, r) == faults' = IF r # "ok" /\ Answering(a) # {} THEN faults - 1 ELSE faults

\* usb_host_bus_reset: the hubs forget what they powered.
AfterBusReset(w) == [d \in DOMAIN w.ports |-> IF d = w.root THEN 0 ELSE Off]
-----------------------------------------------------------------------------
Call == [pc |-> "descriptor", retried |-> FALSE, desc |-> NoDevice, address |-> 0,
         config |-> 0, descs |-> <<>>, ptr |-> 0, interface |-> 0, interfaces |-> 0,
         endpoints |-> 0, type |-> "none", slot |-> End, port |-> 0]

Top == Head(stack)
Running(pc) == phase = "enumerate" /\ stack # <<>> /\ Top.pc = pc
Go(f) == stack' = <<f>> \o Tail(stack) /\ UNCHANGED result
Returns(f, calls, r) == stack' = <<[f EXCEPT !.pc = "return"]>> \o calls /\ result' = r

\* The label done of read_all_configs: a stall is tried again once, from the
\* start, with address 0.
Fails(f, calls, r) ==
  IF r = "stall" /\ ~f.retried
  THEN /\ stack' = <<[f EXCEPT !.pc = "descriptor", !.retried = TRUE]>> \o calls
       /\ UNCHANGED result
  ELSE Returns(f, calls, r)
Fail(r) == Fails(Top, Tail(stack), r)

\* adv_to_next_desc and what follows it at pc.
Advance(f, type, pc) ==
  LET j == AdvToNextDesc[f.descs][type][f.ptr]
  IN  CASE j = TooLarge -> Fail("too large")
        [] j = Spins -> Go([f EXCEPT !.pc = "spins"])
        [] OTHER -> Go([f EXCEPT !.ptr = j, !.pc = pc])

EnumInit ==
  /\ wiring \in Wirings
  /\ at = AfterBusReset(wiring)
  /\ stack = <<Call>>
  /\ result = "ok"
  /\ nextAddress = 0
  /\ slots = << >>
  /\ phase = "enumerate"
  /\ round = 0
  /\ index = 1
  /\ drives = << >>
  /\ keyboard = 0
  /\ faults = Faults

bootvars == <<phase, round, index, drives, keyboard>>
-----------------------------------------------------------------------------
(* The requests.                                                           *)

\* usbtrn_get_descriptor, always from address 0.
GetDescriptor ==
  /\ Running("descriptor")
  /\ \E r \in Outcomes(0) :
       /\ Spend(0, r)
       /\ IF r = "ok"
          THEN \E d \in Answering(0) : Go([Top EXCEPT !.pc = "address", !.desc = d])
          ELSE Fail(r)
  /\ UNCHANGED <<wiring, at, nextAddress, slots, bootvars>>

\* ++state->next_device_address
NewAddress == nextAddress + 1

\* usbtrn_set_address: a device may take the address and fail to say so.
SetAddress ==
  /\ Running("address")
  /\ nextAddress < MaxAddress
  /\ nextAddress' = NewAddress
  /\ \E r \in Outcomes(0), taken \in SUBSET Answering(0) :
       /\ r = "ok" => taken = Answering(0)
       /\ Spend(0, r)
       /\ at' = [d \in Devices |-> IF d \in taken THEN NewAddress ELSE at[d]]
       /\ IF r = "ok"
          THEN Go([Top EXCEPT !.pc = "config", !.address = NewAddress, !.config = 0])
          ELSE Fail(r)
  /\ UNCHANGED <<wiring, slots, bootvars>>

\* The loop over the configurations, and op_get_cfg_desc.
GetCfgDesc ==
  /\ Running("config")
  /\ Top.config < Len(wiring.configs[Top.desc])
  /\ \E r \in Outcomes(Top.address) :
       /\ Spend(Top.address, r)
       /\ IF r = "ok"
          THEN LET c == wiring.configs[Top.desc][Top.config + 1]
               IN  Advance([Top EXCEPT !.descs = c, !.ptr = 1, !.interfaces = c[1].interfaces],
                           "interface", "interface")
          ELSE Fail(r)
  /\ UNCHANGED <<wiring, at, nextAddress, slots, bootvars>>

AllConfigsRead ==
  /\ Running("config")
  /\ Top.config = Len(wiring.configs[Top.desc])
  /\ Returns(Top, Tail(stack), "ok")
  /\ UNCHANGED <<wiring, at, nextAddress, slots, faults, bootvars>>

\* op_id_class_drv, and op_cap_drv_intf up to its switch.
IdClassDrv ==
  /\ Running("interface")
  /\ LET d == Top.descs[Top.ptr]
         f == [Top EXCEPT !.type = IdentifyClassDriver(d), !.interface = Top.ptr,
                          !.endpoints = d.endpoints, !.slot = End]
     IN  IF d.endpoints > 0 THEN Advance(f, "endpoint", "configure")
         ELSE Go([f EXCEPT !.pc = "configure"])
  /\ UNCHANGED <<wiring, at, nextAddress, slots, faults, bootvars>>

\* configure_device: the slot is written, then the device configured.
SetConfig(pc, slot) ==
  \E r \in Outcomes(Top.address) :
    /\ Spend(Top.address, r)
    /\ IF r = "ok" THEN Go([Top EXCEPT !.pc = pc, !.slot = slot]) ELSE Fail(r)

NewSlotLate(f) ==
  [type |-> f.type, address |-> f.address % 16, number |-> f.descs[f.ptr].number,
   endpoints |-> NoEndpoints]

\* The address has four bits in the slot.
NewSlot(f) ==
  [type |-> f.type, address |-> f.address % 16, number |-> f.descs[f.interface].number,
   endpoints |-> NoEndpoints]

SlotLaid(p, s) == [q \in DOMAIN slots \cup {p} |-> IF q = p THEN s ELSE slots[q]]

\* The switch of op_cap_drv_intf: hubs and unknown interfaces are configured
\* without a slot.
CapDrvIntf ==
  /\ Running("configure")
  /\ CASE Top.type = "hub" -> SetConfig("hub", End) /\ UNCHANGED slots
       [] Top.type = "unknown" -> SetConfig("endpoint", End) /\ UNCHANGED slots
       [] OTHER -> IF FindFirstFree = End
                   THEN Fail("out of memory") /\ UNCHANGED <<slots, faults>>
                   ELSE /\ slots' = SlotLaid(FindFirstFree, NewSlot(Top))
                        /\ SetConfig("endpoint", FindFirstFree)
  /\ UNCHANGED <<wiring, at, nextAddress, bootvars>>

\* op_endpoint_next and op_interface_next.
InterfaceNext(f) ==
  IF f.endpoints > 1
  THEN Advance([f EXCEPT !.endpoints = @ - 1], "endpoint", "endpoint")
  ELSE IF f.interfaces > 1
  THEN Advance([f EXCEPT !.endpoints = 0, !.interfaces = @ - 1], "interface", "interface")
  ELSE Go([f EXCEPT !.pc = "config", !.config = @ + 1])

\* op_parse_endpoint: the number of an endpoint has three bits in the slot.
ParseEndpoint ==
  /\ Running("endpoint")
  /\ LET e == Top.descs[Top.ptr]
     IN  slots' = IF ~Used(Top.slot) \/ e.type # "endpoint" THEN slots
                  ELSE [slots EXCEPT ![Top.slot].endpoints =
                          [p \in DOMAIN NoEndpoints |->
                             IF p \in EndpointPlaces(Top.type, e) THEN e.number % 8 ELSE @[p]]]
  /\ InterfaceNext(Top)
  /\ UNCHANGED <<wiring, at, nextAddress, faults, bootvars>>
-----------------------------------------------------------------------------
(* configure_usb_hub: the ports from the last to the first.                *)

Child == wiring.ports[Top.desc][Top.port]
Beneath == IF Child = NoDevice THEN {} ELSE Below(Child)
PowerOff == [d \in Devices |-> IF d \in Beneath THEN Off ELSE at[d]]

HubGetDescriptor ==
  /\ Running("hub")
  /\ \E r \in Outcomes(Top.address) :
       /\ Spend(Top.address, r)
       /\ IF r = "ok" THEN Go([Top EXCEPT !.pc = "power", !.port = Len(wiring.ports[Top.desc])])
          ELSE Fail(r)
  /\ UNCHANGED <<wiring, at, nextAddress, slots, bootvars>>

\* The power of the port is taken away and given.
PortPower ==
  /\ Running("power")
  /\ \E r \in Outcomes(Top.address), done \in BOOLEAN :
       /\ r = "ok" => done
       /\ Spend(Top.address, r)
       /\ at' = IF done THEN PowerOff ELSE at
       /\ IF r = "ok" THEN Go([Top EXCEPT !.pc = "reset"]) ELSE Fail(r)
  /\ UNCHANGED <<wiring, nextAddress, slots, bootvars>>

\* The port is reset: what hangs on it answers at address 0.
PortReset ==
  /\ Running("reset")
  /\ \E r \in Outcomes(Top.address), done \in BOOLEAN :
       /\ r = "ok" => done
       /\ Spend(Top.address, r)
       /\ at' = IF done /\ Child # NoDevice THEN [PowerOff EXCEPT ![Child] = 0] ELSE at
       /\ IF r = "ok" THEN Go([Top EXCEPT !.pc = "status"]) ELSE Fail(r)
  /\ UNCHANGED <<wiring, nextAddress, slots, bootvars>>

\* The port is asked whether something is connected: the driver does not wait
\* for it, so a device may not be there yet.
PortStatus ==
  /\ Running("status")
  /\ \E r \in Outcomes(Top.address) :
       \/ /\ r = "ok"
          /\ Go([Top EXCEPT !.pc = IF Child = NoDevice THEN "empty" ELSE "changes"])
          /\ UNCHANGED faults
       \/ /\ r = "ok" /\ Child # NoDevice /\ faults > 0
          /\ Go([Top EXCEPT !.pc = "empty"])
          /\ faults' = faults - 1
       \/ /\ r # "ok"
          /\ Spend(Top.address, r)
          /\ Fail(r)
  /\ UNCHANGED <<wiring, at, nextAddress, slots, bootvars>>

\* while (--i != 0), after which the interfaces of the hub go on.
NextPort(f) ==
  IF f.port = 1 THEN [f EXCEPT !.pc = "endpoint"] ELSE [f EXCEPT !.pc = "power", !.port = @ - 1]

AfterPowerOffNever == at

AfterPowerOff == PowerOff
PortEmpty ==
  /\ Running("empty")
  /\ \E r \in Outcomes(Top.address) :
       /\ Spend(Top.address, r)
       /\ at' = IF r = "ok" THEN AfterPowerOff ELSE at
       /\ IF r = "ok" THEN Go(NextPort(Top)) ELSE Fail(r)
  /\ UNCHANGED <<wiring, nextAddress, slots, bootvars>>

\* The changes are acknowledged, and the device enumerated.
PortConnected ==
  /\ Running("changes")
  /\ \E r \in Outcomes(Top.address) :
       /\ Spend(Top.address, r)
       /\ IF r = "ok" THEN stack' = <<Call>> \o stack /\ UNCHANGED result ELSE Fail(r)
  /\ UNCHANGED <<wiring, at, nextAddress, slots, bootvars>>

\* read_all_configs returns to the loop over the ports.
ReturnToHub ==
  /\ Running("return")
  /\ Len(stack) > 1
  /\ LET hub == stack[2]  calls == SubSeq(stack, 3, Len(stack))
     IN  IF result = "ok"
         THEN stack' = <<NextPort([hub EXCEPT !.pc = "changes"])>> \o calls /\ UNCHANGED result
         ELSE Fails(hub, calls, result)
  /\ UNCHANGED <<wiring, at, nextAddress, slots, faults, bootvars>>
-----------------------------------------------------------------------------
\* enumerate_all_devices returns.  With no device found _chnative_init resets
\* the bus, clears the work area and enumerates again.
Enumerated ==
  /\ Running("return")
  /\ Len(stack) = 1
  /\ IF CountOfDevices # 0 \/ round = Rounds
     THEN /\ phase' = "scsi"
          /\ stack' = << >>
          /\ UNCHANGED <<at, nextAddress, slots, round>>
     ELSE /\ round' = round + 1
          /\ stack' = <<Call>>
          /\ at' = AfterBusReset(wiring)
          /\ nextAddress' = 0
          /\ slots' = << >>
          /\ UNCHANGED phase
  /\ UNCHANGED <<wiring, result, index, drives, keyboard, faults>>

\* find_storage_dev
FindStorageDev ==
  LET free == (0 .. MaxNumberOfDevices - 1) \ DOMAIN drives
  IN  IF free = {} THEN 255 ELSE Min(free)

\* The slot looked at becomes the drive found.
DriveAdded ==
  [n \in DOMAIN drives \cup {FindStorageDev} |-> IF n = FindStorageDev THEN index ELSE drives[n]]

NextIndexPast(after) ==
  IF index > MaxNumberOfDevices THEN phase' = after /\ index' = 1
  ELSE index' = index + 1 /\ UNCHANGED phase

\* while (++index != MAX_NUMBER_OF_DEVICES + 1)
NextIndex(after) ==
  IF index = MaxNumberOfDevices THEN phase' = after /\ index' = 1
  ELSE index' = index + 1 /\ UNCHANGED phase

\* chscsi_init, one slot at a time.
ChscsiInit ==
  /\ phase = "scsi"
  /\ drives' = IF UsbGetDeviceType(index) = "storage"
               THEN DriveAdded ELSE drives
  /\ NextIndex("ufi")
  /\ UNCHANGED <<wiring, at, stack, result, nextAddress, slots, round, keyboard, faults>>

ServedByUfiAnyDisk(type) == type \in {"floppy", "storage"}

ServedByUfi(type) == type = "floppy"
\* chufi_init, one slot at a time.
ChufiInit ==
  /\ phase = "ufi"
  /\ drives' = IF ServedByUfi(UsbGetDeviceType(index))
               THEN DriveAdded ELSE drives
  /\ NextIndex("keyboard")
  /\ UNCHANGED <<wiring, at, stack, result, nextAddress, slots, round, keyboard, faults>>

\* keyboard_init takes the first keyboard.
KeyboardInit ==
  /\ phase = "keyboard"
  /\ IF UsbGetDeviceType(index) = "keyboard"
     THEN keyboard' = index /\ phase' = "up" /\ index' = 1
     ELSE NextIndex("up") /\ UNCHANGED keyboard
  /\ UNCHANGED <<wiring, at, stack, result, nextAddress, slots, round, drives, faults>>

EnumNext ==
  \/ GetDescriptor \/ SetAddress \/ GetCfgDesc \/ AllConfigsRead
  \/ IdClassDrv \/ CapDrvIntf \/ ParseEndpoint
  \/ HubGetDescriptor \/ PortPower \/ PortReset \/ PortStatus \/ PortEmpty \/ PortConnected
  \/ ReturnToHub \/ Enumerated
  \/ ChscsiInit \/ ChufiInit \/ KeyboardInit

EnumSpec == EnumInit /\ [][EnumNext]_enumvars /\ WF_enumvars(EnumNext)
-----------------------------------------------------------------------------
\* Type correctness.
SlotTypes == DOMAIN StructSize
EnumTypeOK ==
  /\ wiring \in Wirings
  /\ at \in [Devices -> 0 .. Off]
  /\ nextAddress \in 0 .. MaxAddress
  /\ \A i \in DOMAIN stack : DOMAIN stack[i] = DOMAIN Call
  /\ \A p \in DOMAIN slots :
       /\ p \in 0 .. AreaSize - 1
       /\ slots[p].type \in SlotTypes
       /\ slots[p].address \in 0 .. 15
       /\ slots[p].endpoints \in [DOMAIN NoEndpoints -> 0 .. 7]
  /\ phase \in {"enumerate", "scsi", "ufi", "keyboard", "up"}
  /\ (phase # "enumerate") = (stack = << >>)
  /\ round \in 0 .. Rounds
  /\ index \in 1 .. MaxNumberOfDevices
  /\ keyboard \in 0 .. MaxNumberOfDevices
  /\ faults \in 0 .. Faults

\* No two devices answer at one address, whatever fails: neither at address 0,
\* where every device begins, nor at one that was given twice.
OneAnswers ==
  \A d, e \in Devices : at[d] = at[e] /\ at[d] # Off => d = e

\* While no more than six interfaces are served, the slots lie apart and inside
\* the work area, and the walks over the area, which know the slots only by the
\* sizes of their types, meet every one of them.
SlotsApart ==
  Cardinality(DOMAIN slots) <= MaxNumberOfDevices =>
    /\ \A p, q \in DOMAIN slots : p < q => p + StructSize[slots[p].type] <= q
    /\ \A p \in DOMAIN slots : p + StructSize[slots[p].type] <= AreaSize
    /\ CountOfDevices = Cardinality(DOMAIN slots)

\* A slot is of an interface of the device that has its address, even when the
\* enumeration failed after the slot was written, as long as the addresses given
\* fit in the four bits that a slot has for them.
SlotsHonest ==
  nextAddress < 16 => \A p \in DOMAIN slots :
    \E d \in Answering(slots[p].address) :
      \E n \in DOMAIN wiring.configs[d] :
        LET c == wiring.configs[d][n]
        IN  \E i \in Interfaces(c) : /\ c[i].number = slots[p].number
                                    /\ IdentifyClassDriver(c[i]) = slots[p].type

\* The work area holds the slots it is walked by, and each of them speaks to an
\* interface that is there, also after stalls and enumerations cut short.
SlotsRight == SlotsApart /\ SlotsHonest

\* The wirings that are as USB has it: all that is plugged in hangs on the root, by
\* way of hubs; a configuration says how many interfaces follow, and an interface
\* how many endpoints.  A disk has one endpoint of each kind it has, a keyboard ends
\* with one to be read, and the number of an endpoint has three bits.
EndpointsAt(c, i) ==
  {k \in DOMAIN c : /\ k > i /\ c[k].type = "endpoint"
                   /\ \A l \in i + 1 .. k : c[l].type # "interface"}
WellFormedInterface(c, i) ==
  LET type == IdentifyClassDriver(c[i])
      ends == EndpointsAt(c, i)
  IN  /\ c[i].endpoints = Cardinality(ends)
      /\ \A k \in ends : c[k].number < 8
      /\ type \in {"storage", "floppy"} => \A k \in ends :
           /\ c[k].kind = "bulk" \/ (c[k].kind = "interrupt" /\ c[k].in)
           /\ \A l \in ends : c[k].kind = c[l].kind /\ (c[k].in <=> c[l].in) => k = l
      /\ type = "keyboard" => \E k \in ends : c[k].in /\ \A l \in ends : l <= k
WellFormed(c) ==
  /\ Interfaces(c) # {} /\ c[1].interfaces = Cardinality(Interfaces(c))
  /\ \A i \in Interfaces(c) : WellFormedInterface(c, i)
Ordinary(w) ==
  /\ IsFiniteSet(DOMAIN w.ports) /\ Cardinality(DOMAIN w.ports) < 16
  /\ \A S \in SUBSET DOMAIN w.ports :
       w.root \in S /\ (\A d \in S : Children(w, d) \subseteq S) => S = DOMAIN w.ports
  /\ \A d \in DOMAIN w.ports : Children(w, d) # {} => Hubs(w, d) # {}
  /\ \A c \in Configs(w) : WellFormed(c)

\* The interfaces that a driver serves: device, configuration and place.
ServedBy(d, n) ==
  {<<d, n, i>> : i \in {i \in Interfaces(wiring.configs[d][n]) :
                           IdentifyClassDriver(wiring.configs[d][n][i]) \in SlotTypes}}
Served == UNION {UNION {ServedBy(d, n) : n \in DOMAIN wiring.configs[d]} : d \in Devices}

\* The descriptors fit in the buffer, and the interfaces in the numbers of the drivers.
Fits ==
  /\ \A c \in Configs(wiring) : Offset(c, Len(c) + 1) < MaxConfigSize
  /\ Cardinality(Served) <= MaxNumberOfDevices

\* Slot s is of interface i of configuration c of device d, with its endpoints.
RightSlot(s, d, c, i) ==
  LET ends == {c[k] : k \in EndpointsAt(c, i)}
  IN  /\ s.address = at[d] /\ s.number = c[i].number /\ s.type = IdentifyClassDriver(c[i])
      /\ CASE s.type = "keyboard" -> \E e \in ends : e.in /\ s.endpoints.bulkOut = e.number
           [] s.type = "cdc" -> TRUE
           [] OTHER -> \A e \in ends :
                s.endpoints[IF e.kind = "interrupt" THEN "interruptIn"
                            ELSE IF e.in THEN "bulkIn" ELSE "bulkOut"] = e.number

\* When nothing fails and everything fits, each interface that has a driver gets
\* a slot with the address of its device and the endpoints of its descriptors,
\* and nothing else gets one.
EverythingFound ==
  phase # "enumerate" /\ faults = Faults /\ Fits =>
    /\ Cardinality(DOMAIN slots) = Cardinality(Served)
    /\ \A t \in Served : \E p \in DOMAIN slots :
          RightSlot(slots[p], t[1], wiring.configs[t[1]][t[2]], t[3])

\* Each disk among the first six slots has one drive, and no drive is of anything
\* else; the index that find_storage_dev should never return is never used; the
\* keyboard is the first there is.
DrivesExact ==
  LET disks == {n \in 1 .. MaxNumberOfDevices : UsbGetDeviceType(n) \in {"floppy", "storage"}}
      keyboards == {n \in 1 .. MaxNumberOfDevices : UsbGetDeviceType(n) = "keyboard"}
  IN  /\ DOMAIN drives \subseteq 0 .. MaxNumberOfDevices - 1
      /\ phase = "up" =>
           /\ Range(drives) = disks
           /\ Cardinality(DOMAIN drives) = Cardinality(disks)
           /\ keyboard = (IF keyboards = {} THEN 0 ELSE Min(keyboards))

\* The boot gets past the USB bus, whatever the devices do, as long as the length
\* of their configurations fits in eight bits.
BootGoesOn ==
  (\A c \in Configs(wiring) : Offset(c, Len(c) + 1) < 256) => <>(phase = "up")
=============================================================================
