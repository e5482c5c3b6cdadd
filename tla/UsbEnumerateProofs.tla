------------------------- MODULE UsbEnumerateProofs -------------------------
(***************************************************************************)
(* For anything that may be plugged in and whatever fails: no two devices  *)
(* on the USB bus ever answer at one address, each disk found has one      *)
(* drive, and the slots of the work area lie apart, are met by the walks   *)
(* over it, and are each of an interface of the device at their address.   *)
(***************************************************************************)
EXTENDS UsbEnumerate, FiniteSetTheorems, FunctionTheorems, WellFoundedInduction, TLAPS

---------------------------------------------------------------------------
(* The stack of calls.                                                      *)

\* A sequence of calls that each have a place in the program.
Calls(s) == \E S : s \in Seq(S) /\ \A f \in S : "pc" \in DOMAIN f

LEMMA CallsAre ==
  ASSUME NEW S, NEW s \in Seq(S), \A f \in S : "pc" \in DOMAIN f
  PROVE  Calls(s)
BY DEF Calls

\* A call in front of others.
LEMMA CallsGrow ==
  ASSUME NEW s, Calls(s), NEW f, "pc" \in DOMAIN f
  PROVE  /\ Calls(<<f>> \o s) /\ <<f>> \o s # <<>>
         /\ Head(<<f>> \o s) = f /\ Tail(<<f>> \o s) = s
<1>1. PICK S : s \in Seq(S) /\ \A g \in S : "pc" \in DOMAIN g
  BY DEF Calls
<1>2. s \in Seq(S \cup {f}) /\ <<f>> \in Seq(S \cup {f})
  BY <1>1
<1>3. <<f>> \o s \in Seq(S \cup {f})
  BY <1>2
<1>4. \A g \in S \cup {f} : "pc" \in DOMAIN g
  BY <1>1
<1>5. Calls(<<f>> \o s)
  BY <1>3, <1>4 DEF Calls
<1> QED BY <1>2, <1>5

\* The innermost call and those that wait for it.
LEMMA CallsShrink ==
  ASSUME NEW s, Calls(s), s # <<>>
  PROVE  Calls(Tail(s)) /\ "pc" \in DOMAIN Head(s)
<1>1. PICK S : s \in Seq(S) /\ \A g \in S : "pc" \in DOMAIN g
  BY DEF Calls
<1>2. Tail(s) \in Seq(S) /\ Head(s) \in S
  BY <1>1
<1> QED BY <1>1, <1>2 DEF Calls

---------------------------------------------------------------------------
(* Addresses.                                                               *)

\* Where in the program no device is left at address 0: from the address on, and
\* until the next port is reset.
Quiet == {"config", "interface", "configure", "endpoint", "hub", "power", "reset", "spins"}

\* Where the device on the port may be the one at address 0.
Waits == {"status", "empty", "changes"}

\* The devices at address 0, by what the innermost call is doing.
Silent == \A d \in Devices : at[d] # 0
AtZero ==
  /\ Top.pc \in Quiet => Silent
  /\ Top.pc = "return" /\ result = "ok" => Silent
  /\ Top.pc \in Waits => \A d \in Devices : at[d] = 0 => d = Child /\ Child # NoDevice

\* No address has been given that is above the last one.
Given == \A d \in Devices : at[d] \in Nat /\ (at[d] = Off \/ at[d] <= nextAddress)

\* The inductive invariant.
AddressInv ==
  /\ nextAddress \in Nat
  /\ Calls(stack)
  /\ Given
  /\ OneAnswers
  /\ phase = "enumerate" => stack # <<>> /\ AtZero

---------------------------------------------------------------------------
(* How a call goes on.                                                      *)

LEMMA GoRight ==
  ASSUME Calls(stack), stack # <<>>, NEW f, "pc" \in DOMAIN f, Go(f)
  PROVE  Calls(stack') /\ stack' # <<>> /\ Top' = f
<1>1. stack' = <<f>> \o Tail(stack)
  BY DEF Go
<1> QED BY <1>1, CallsShrink, CallsGrow DEF Top

\* A call that fails begins again or returns the error: at address 0 there may
\* be a device or not.
Failing(s, r) == /\ Calls(s) /\ s # <<>>
                 /\ \/ Head(s).pc = "descriptor"
                    \/ Head(s).pc = "return" /\ r # "ok"

LEMMA FailsRight ==
  ASSUME NEW f, "pc" \in DOMAIN f, NEW calls, Calls(calls), NEW r, r # "ok", Fails(f, calls, r)
  PROVE  Failing(stack', result')
<1>1. CASE r = "stall" /\ ~f.retried
  <2> DEFINE g == [f EXCEPT !.pc = "descriptor", !.retried = TRUE]
  <2>1. "pc" \in DOMAIN g /\ g.pc = "descriptor"
    OBVIOUS
  <2>2. stack' = <<g>> \o calls
    BY <1>1 DEF Fails
  <2> HIDE DEF g
  <2> QED BY <2>1, <2>2, CallsGrow DEF Failing
<1>2. CASE ~(r = "stall" /\ ~f.retried)
  <2> DEFINE g == [f EXCEPT !.pc = "return"]
  <2>1. "pc" \in DOMAIN g /\ g.pc = "return"
    OBVIOUS
  <2>2. stack' = <<g>> \o calls /\ result' = r
    BY <1>2 DEF Fails, Returns
  <2> HIDE DEF g
  <2> QED BY <2>1, <2>2, CallsGrow DEF Failing
<1> QED BY <1>1, <1>2

LEMMA FailRight ==
  ASSUME Calls(stack), stack # <<>>, NEW r, r # "ok", Fail(r)
  PROVE  Failing(stack', result')
BY CallsShrink, FailsRight DEF Fail, Top

\* adv_to_next_desc finds what it looks for, walks for ever, or fails.
LEMMA AdvanceRight ==
  ASSUME Calls(stack), stack # <<>>, NEW f, "pc" \in DOMAIN f, NEW type, NEW pc,
         Advance(f, type, pc)
  PROVE  \/ Failing(stack', result')
         \/ Calls(stack') /\ stack' # <<>> /\ Top'.pc \in {pc, "spins"}
<1> DEFINE j == AdvToNextDesc[f.descs][type][f.ptr]
<1>1. \/ Fail("too large")
      \/ Go([f EXCEPT !.pc = "spins"])
      \/ Go([f EXCEPT !.ptr = j, !.pc = pc])
  BY DEF Advance
<1> HIDE DEF j
<1>2. CASE Fail("too large")
  BY <1>2, FailRight
<1>3. CASE Go([f EXCEPT !.pc = "spins"])
  <2>1. "pc" \in DOMAIN [f EXCEPT !.pc = "spins"] /\ [f EXCEPT !.pc = "spins"].pc = "spins"
    OBVIOUS
  <2> QED BY <1>3, <2>1, GoRight
<1>4. CASE Go([f EXCEPT !.ptr = j, !.pc = pc])
  <2>1. /\ "pc" \in DOMAIN [f EXCEPT !.ptr = j, !.pc = pc]
        /\ [f EXCEPT !.ptr = j, !.pc = pc].pc = pc
    OBVIOUS
  <2> QED BY <1>4, <2>1, GoRight
<1> QED BY <1>1, <1>2, <1>3, <1>4

---------------------------------------------------------------------------
(* Every step.                                                              *)

\* A failure leaves the addresses in order, a step in silence too.
LEMMA InvKept ==
  ASSUME nextAddress' \in Nat, Given', OneAnswers',
         \/ Failing(stack', result')
         \/ Silent' /\ Calls(stack') /\ stack' # <<>>
  PROVE  AddressInv'
BY DEF AddressInv, AtZero, Failing, Top, Quiet, Waits, Silent

\* While the addresses are what they were.
LEMMA SameAddresses ==
  ASSUME AddressInv, UNCHANGED <<wiring, at, nextAddress>>
  PROVE  nextAddress' \in Nat /\ Given' /\ OneAnswers' /\ Silent' = Silent
BY DEF AddressInv, Given, OneAnswers, Silent, Devices

LEMMA StillRunning ==
  ASSUME AddressInv, NEW pc, Running(pc)
  PROVE  /\ Calls(stack) /\ stack # <<>> /\ "pc" \in DOMAIN Top
         /\ Top.pc = pc /\ AtZero
BY CallsShrink DEF AddressInv, Running, Top

LEMMA GetDescriptorRight == AddressInv /\ GetDescriptor => AddressInv'
<1> SUFFICES ASSUME AddressInv, GetDescriptor PROVE AddressInv'
  OBVIOUS
<1>1. Running("descriptor") /\ UNCHANGED <<wiring, at, nextAddress>>
  BY DEF GetDescriptor
<1>2. PICK r \in Outcomes(0) :
        IF r = "ok" THEN \E d \in Answering(0) : Go([Top EXCEPT !.pc = "address", !.desc = d])
                    ELSE Fail(r)
  BY DEF GetDescriptor
<1>3. CASE r # "ok"
  BY <1>1, <1>2, <1>3, StillRunning, FailRight, SameAddresses, InvKept
<1>4. CASE r = "ok"
  <2>1. PICK d \in Answering(0) : Go([Top EXCEPT !.pc = "address", !.desc = d])
    BY <1>2, <1>4
  <2> DEFINE f == [Top EXCEPT !.pc = "address", !.desc = d]
  <2>2. "pc" \in DOMAIN f /\ f.pc = "address"
    BY <1>1, StillRunning
  <2>3. Calls(stack') /\ stack' # <<>> /\ Top' = f
    BY <1>1, <2>1, <2>2, StillRunning, GoRight
  <2>4. Top'.pc = "address"
    BY <2>2, <2>3
  <2> HIDE DEF f
  <2> QED BY <1>1, <2>3, <2>4, SameAddresses DEF AddressInv, AtZero, Quiet, Waits
<1> QED BY <1>3, <1>4

\* Requests to a device that has its address, and what the driver does in between.
LEMMA QuietStepRight ==
  ASSUME AddressInv, NEW pc \in Quiet, Running(pc), UNCHANGED <<wiring, at, nextAddress>>,
         \/ Failing(stack', result')
         \/ Calls(stack') /\ stack' # <<>>
  PROVE  AddressInv'
<1>1. Silent'
  BY StillRunning, SameAddresses DEF AtZero
<1> QED BY <1>1, SameAddresses, InvKept

LEMMA SetAddressRight == AddressInv /\ SetAddress => AddressInv'
<1> SUFFICES ASSUME AddressInv, SetAddress PROVE AddressInv'
  OBVIOUS
<1>1. /\ Running("address") /\ UNCHANGED wiring
      /\ nextAddress' = nextAddress + 1 /\ nextAddress \in Nat
  BY DEF SetAddress, NewAddress, AddressInv
<1>2. PICK r \in Outcomes(0), taken \in SUBSET Answering(0) :
        /\ r = "ok" => taken = Answering(0)
        /\ at' = [d \in Devices |-> IF d \in taken THEN NewAddress ELSE at[d]]
        /\ IF r = "ok"
           THEN Go([Top EXCEPT !.pc = "config", !.address = NewAddress, !.config = 0])
           ELSE Fail(r)
  BY DEF SetAddress
<1>3. Devices' = Devices
  BY <1>1 DEF Devices
<1>4. \A d \in Devices : at'[d] = IF d \in taken THEN nextAddress + 1 ELSE at[d]
  BY <1>2 DEF NewAddress
<1>5. \A d \in taken : d \in Devices /\ at[d] = 0
  BY <1>2 DEF Answering
<1>6. Given'
  BY <1>1, <1>3, <1>4 DEF AddressInv, Given
<1>7. OneAnswers'
  <2> SUFFICES ASSUME NEW d \in Devices, NEW e \in Devices, at'[d] = at'[e], at'[d] # Off
               PROVE  d = e
    BY <1>3 DEF OneAnswers
  <2>1. at[d] = at[e] /\ at[d] # Off
    BY <1>1, <1>4, <1>5 DEF AddressInv, Given, Off
  <2> QED BY <2>1 DEF AddressInv, OneAnswers
<1>8. CASE r # "ok"
  BY <1>1, <1>2, <1>6, <1>7, <1>8, StillRunning, FailRight, InvKept
<1>9. CASE r = "ok"
  <2> DEFINE f == [Top EXCEPT !.pc = "config", !.address = NewAddress, !.config = 0]
  <2>1. "pc" \in DOMAIN f
    BY <1>1, StillRunning
  <2>2. Calls(stack') /\ stack' # <<>>
    BY <1>1, <1>2, <1>9, <2>1, StillRunning, GoRight
  <2>3. Silent'
    BY <1>1, <1>2, <1>3, <1>4, <1>9 DEF Silent, Answering
  <2> QED BY <1>1, <1>6, <1>7, <2>2, <2>3, InvKept
<1> QED BY <1>8, <1>9

LEMMA GetCfgDescRight == AddressInv /\ GetCfgDesc => AddressInv'
<1> SUFFICES ASSUME AddressInv, GetCfgDesc PROVE AddressInv'
  OBVIOUS
<1> DEFINE c == wiring.configs[Top.desc][Top.config + 1]
           f == [Top EXCEPT !.descs = c, !.ptr = 1, !.interfaces = c[1].interfaces]
<1>1. Running("config") /\ UNCHANGED <<wiring, at, nextAddress>>
  BY DEF GetCfgDesc
<1>2. PICK r : IF r = "ok" THEN Advance(f, "interface", "interface") ELSE Fail(r)
  BY DEF GetCfgDesc
<1>3. "pc" \in DOMAIN f
  BY <1>1, StillRunning
<1> HIDE DEF c, f
<1>4. \/ Failing(stack', result')
      \/ Calls(stack') /\ stack' # <<>>
  BY <1>1, <1>2, <1>3, StillRunning, FailRight, AdvanceRight
<1> QED BY <1>1, <1>4, QuietStepRight DEF Quiet

LEMMA AllConfigsReadRight == AddressInv /\ AllConfigsRead => AddressInv'
<1> SUFFICES ASSUME AddressInv, AllConfigsRead PROVE AddressInv'
  OBVIOUS
<1>1. Running("config") /\ UNCHANGED <<wiring, at, nextAddress>>
  BY DEF AllConfigsRead
<1>2. stack' = <<[Top EXCEPT !.pc = "return"]>> \o Tail(stack)
  BY DEF AllConfigsRead, Returns
<1>3. "pc" \in DOMAIN [Top EXCEPT !.pc = "return"]
  BY <1>1, StillRunning
<1>4. Calls(stack') /\ stack' # <<>>
  BY <1>1, <1>2, <1>3, StillRunning, CallsShrink, CallsGrow
<1> QED BY <1>1, <1>4, QuietStepRight DEF Quiet

LEMMA IdClassDrvRight == AddressInv /\ IdClassDrv => AddressInv'
<1> SUFFICES ASSUME AddressInv, IdClassDrv PROVE AddressInv'
  OBVIOUS
<1> DEFINE d == Top.descs[Top.ptr]
           f == [Top EXCEPT !.type = IdentifyClassDriver(d), !.interface = Top.ptr,
                            !.endpoints = d.endpoints, !.slot = End]
<1>1. Running("interface") /\ UNCHANGED <<wiring, at, nextAddress>>
  BY DEF IdClassDrv
<1>2. Advance(f, "endpoint", "configure") \/ Go([f EXCEPT !.pc = "configure"])
  BY DEF IdClassDrv
<1>3. "pc" \in DOMAIN f /\ "pc" \in DOMAIN [f EXCEPT !.pc = "configure"]
  BY <1>1, StillRunning
<1> HIDE DEF d, f
<1>4. \/ Failing(stack', result')
      \/ Calls(stack') /\ stack' # <<>>
  BY <1>1, <1>2, <1>3, StillRunning, GoRight, AdvanceRight
<1> QED BY <1>1, <1>4, QuietStepRight DEF Quiet

LEMMA SetConfigRight ==
  ASSUME Calls(stack), stack # <<>>, NEW pc, NEW slot, SetConfig(pc, slot)
  PROVE  \/ Failing(stack', result')
         \/ Calls(stack') /\ stack' # <<>>
<1>1. PICK r : IF r = "ok" THEN Go([Top EXCEPT !.pc = pc, !.slot = slot]) ELSE Fail(r)
  BY DEF SetConfig
<1>2. "pc" \in DOMAIN [Top EXCEPT !.pc = pc, !.slot = slot]
  BY CallsShrink DEF Top
<1> QED BY <1>1, <1>2, FailRight, GoRight

LEMMA CapDrvIntfRight == AddressInv /\ CapDrvIntf => AddressInv'
<1> SUFFICES ASSUME AddressInv, CapDrvIntf PROVE AddressInv'
  OBVIOUS
<1>1. Running("configure") /\ UNCHANGED <<wiring, at, nextAddress>>
  BY DEF CapDrvIntf
<1>2. Fail("out of memory") \/ \E pc, slot : SetConfig(pc, slot)
  <2>1. CASE Top.type = "hub"
    BY <2>1 DEF CapDrvIntf
  <2>2. CASE Top.type # "hub" /\ Top.type = "unknown"
    BY <2>2 DEF CapDrvIntf
  <2>3. CASE Top.type # "hub" /\ Top.type # "unknown"
    BY <2>3 DEF CapDrvIntf
  <2> QED BY <2>1, <2>2, <2>3
<1>3. \/ Failing(stack', result')
      \/ Calls(stack') /\ stack' # <<>>
  BY <1>1, <1>2, StillRunning, FailRight, SetConfigRight
<1> QED BY <1>1, <1>3, QuietStepRight DEF Quiet

LEMMA ParseEndpointRight == AddressInv /\ ParseEndpoint => AddressInv'
<1> SUFFICES ASSUME AddressInv, ParseEndpoint PROVE AddressInv'
  OBVIOUS
<1>1. Running("endpoint") /\ UNCHANGED <<wiring, at, nextAddress>>
  BY DEF ParseEndpoint
<1>2. \/ Advance([Top EXCEPT !.endpoints = @ - 1], "endpoint", "endpoint")
      \/ Advance([Top EXCEPT !.endpoints = 0, !.interfaces = @ - 1], "interface", "interface")
      \/ Go([Top EXCEPT !.pc = "config", !.config = @ + 1])
  BY DEF ParseEndpoint, InterfaceNext
<1>3. /\ "pc" \in DOMAIN [Top EXCEPT !.endpoints = @ - 1]
      /\ "pc" \in DOMAIN [Top EXCEPT !.endpoints = 0, !.interfaces = @ - 1]
      /\ "pc" \in DOMAIN [Top EXCEPT !.pc = "config", !.config = @ + 1]
  BY <1>1, StillRunning
<1>4. \/ Failing(stack', result')
      \/ Calls(stack') /\ stack' # <<>>
  BY <1>1, <1>2, <1>3, StillRunning, GoRight, AdvanceRight
<1> QED BY <1>1, <1>4, QuietStepRight DEF Quiet

---------------------------------------------------------------------------
(* The ports of a hub.                                                      *)

LEMMA HubGetDescriptorRight == AddressInv /\ HubGetDescriptor => AddressInv'
<1> SUFFICES ASSUME AddressInv, HubGetDescriptor PROVE AddressInv'
  OBVIOUS
<1> DEFINE f == [Top EXCEPT !.pc = "power", !.port = Len(wiring.ports[Top.desc])]
<1>1. Running("hub") /\ UNCHANGED <<wiring, at, nextAddress>>
  BY DEF HubGetDescriptor
<1>2. PICK r : IF r = "ok" THEN Go(f) ELSE Fail(r)
  BY DEF HubGetDescriptor
<1>3. "pc" \in DOMAIN f
  BY <1>1, StillRunning
<1> HIDE DEF f
<1>4. \/ Failing(stack', result')
      \/ Calls(stack') /\ stack' # <<>>
  BY <1>1, <1>2, <1>3, StillRunning, GoRight, FailRight
<1> QED BY <1>1, <1>4, QuietStepRight DEF Quiet

\* Power taken away wakes nobody.
LEMMA PowerOffRight ==
  ASSUME AddressInv, UNCHANGED <<wiring, nextAddress>>, at' \in {at, PowerOff}
  PROVE  /\ nextAddress' \in Nat /\ Given' /\ OneAnswers'
         /\ Silent => Silent'
<1>1. Devices' = Devices
  BY DEF Devices
<1>2. \A d \in Devices : at'[d] = at[d] \/ at'[d] = Off
  BY DEF PowerOff
<1>3. Given'
  BY <1>1, <1>2 DEF AddressInv, Given, Off
<1>4. OneAnswers'
  BY <1>1, <1>2 DEF AddressInv, OneAnswers
<1>5. Silent => Silent'
  BY <1>1, <1>2 DEF Silent, Off
<1> QED BY <1>3, <1>4, <1>5 DEF AddressInv

LEMMA PortPowerRight == AddressInv /\ PortPower => AddressInv'
<1> SUFFICES ASSUME AddressInv, PortPower PROVE AddressInv'
  OBVIOUS
<1>1. Running("power") /\ UNCHANGED <<wiring, nextAddress>> /\ at' \in {at, PowerOff}
  BY DEF PortPower
<1>2. PICK r : IF r = "ok" THEN Go([Top EXCEPT !.pc = "reset"]) ELSE Fail(r)
  BY DEF PortPower
<1>3. "pc" \in DOMAIN [Top EXCEPT !.pc = "reset"]
  BY <1>1, StillRunning
<1>4. \/ Failing(stack', result')
      \/ Calls(stack') /\ stack' # <<>>
  BY <1>1, <1>2, <1>3, StillRunning, GoRight, FailRight
<1>5. Silent
  BY <1>1, StillRunning DEF AtZero, Quiet
<1> QED BY <1>1, <1>4, <1>5, PowerOffRight, InvKept

\* The reset wakes the device on the port, where nobody else is awake.
LEMMA PortResetRight == AddressInv /\ PortReset => AddressInv'
<1> SUFFICES ASSUME AddressInv, PortReset PROVE AddressInv'
  OBVIOUS
<1> DEFINE f == [Top EXCEPT !.pc = "status"]
           woken == IF Child # NoDevice THEN [PowerOff EXCEPT ![Child] = 0] ELSE at
<1>1. Running("reset") /\ UNCHANGED <<wiring, nextAddress>> /\ at' \in {at, woken}
  BY DEF PortReset
<1>2. PICK r : IF r = "ok" THEN Go(f) ELSE Fail(r)
  BY DEF PortReset
<1>3. Silent /\ Devices' = Devices
  BY <1>1, StillRunning DEF AtZero, Quiet, Devices
<1>4. ASSUME NEW d \in Devices
      PROVE  \/ at'[d] \in {at[d], Off}
             \/ /\ at'[d] = 0
                /\ d = Child /\ Child # NoDevice
  <2>1. CASE at' = at
    BY <2>1
  <2>2. CASE at' # at
    <3>1. at' = [PowerOff EXCEPT ![Child] = 0] /\ Child # NoDevice
      BY <1>1, <2>2
    <3>2. at'[d] = IF d = Child THEN 0 ELSE PowerOff[d]
      BY <3>1 DEF PowerOff
    <3>3. PowerOff[d] \in {at[d], Off}
      BY DEF PowerOff
    <3> QED BY <3>1, <3>2, <3>3
  <2> QED BY <2>1, <2>2
<1>5. Given'
  BY <1>1, <1>3, <1>4 DEF AddressInv, Given, Off
<1>6. OneAnswers'
  BY <1>3, <1>4 DEF AddressInv, OneAnswers, Silent
<1>7. "pc" \in DOMAIN f /\ f.pc = "status" /\ f.port = Top.port /\ f.desc = Top.desc
  BY <1>1, StillRunning
<1>8. CASE r = "ok"
  <2> HIDE DEF f, woken
  <2>1. Calls(stack') /\ stack' # <<>> /\ Top' = f
    BY <1>1, <1>2, <1>7, <1>8, StillRunning, GoRight
  <2>2. Child' = Child
    BY <1>1, <1>7, <2>1 DEF Child
  <2>3. Top'.pc = "status"
    BY <1>7, <2>1
  <2>4. \A d \in Devices : at'[d] = 0 => d = Child /\ Child # NoDevice
    BY <1>3, <1>4 DEF Silent, Off
  <2> QED BY <1>1, <1>3, <1>5, <1>6, <2>1, <2>2, <2>3, <2>4 DEF AddressInv, AtZero, Quiet, Waits
<1>9. CASE r # "ok"
  BY <1>1, <1>2, <1>5, <1>6, <1>9, StillRunning, FailRight, InvKept DEF AddressInv
<1> QED BY <1>8, <1>9

LEMMA PortStatusRight == AddressInv /\ PortStatus => AddressInv'
<1> SUFFICES ASSUME AddressInv, PortStatus PROVE AddressInv'
  OBVIOUS
<1>1. Running("status") /\ UNCHANGED <<wiring, at, nextAddress>>
  BY DEF PortStatus
<1>2. \/ \E pc \in Waits : Go([Top EXCEPT !.pc = pc])
      \/ \E r : r # "ok" /\ Fail(r)
  BY DEF PortStatus, Waits
<1>3. CASE \E pc \in Waits : Go([Top EXCEPT !.pc = pc])
  <2>1. PICK pc \in Waits : Go([Top EXCEPT !.pc = pc])
    BY <1>3
  <2> DEFINE f == [Top EXCEPT !.pc = pc]
  <2>2. "pc" \in DOMAIN f /\ f.pc = pc /\ f.port = Top.port /\ f.desc = Top.desc
    BY <1>1, StillRunning DEF Waits
  <2> HIDE DEF f
  <2>3. Calls(stack') /\ stack' # <<>> /\ Top' = f
    BY <1>1, <2>1, <2>2, StillRunning, GoRight DEF f
  <2>4. Child' = Child
    BY <1>1, <2>2, <2>3 DEF Child
  <2>5. Top'.pc \in Waits
    BY <2>2, <2>3
  <2>6. \A d \in Devices : at[d] = 0 => d = Child /\ Child # NoDevice
    BY <1>1, StillRunning DEF AtZero, Waits
  <2>7. Devices' = Devices
    BY <1>1 DEF Devices
  <2> QED BY <1>1, <2>3, <2>4, <2>5, <2>6, <2>7, SameAddresses DEF AddressInv, AtZero, Quiet, Waits
<1>4. CASE \E r : r # "ok" /\ Fail(r)
  BY <1>1, <1>4, StillRunning, FailRight, SameAddresses, InvKept
<1> QED BY <1>2, <1>3, <1>4

LEMMA NextPortRight ==
  ASSUME NEW f, "pc" \in DOMAIN f
  PROVE  "pc" \in DOMAIN NextPort(f)
BY DEF NextPort

\* A device is beneath the port it is on.
LEMMA ChildBeneath == Child # NoDevice /\ Child \in Devices => Child \in Beneath
BY DEF Beneath, Below

\* Without power the device on the port is silent.
LEMMA PortEmptyRight == AddressInv /\ PortEmpty => AddressInv'
<1> SUFFICES ASSUME AddressInv, PortEmpty PROVE AddressInv'
  OBVIOUS
<1>1. Running("empty") /\ UNCHANGED <<wiring, nextAddress>>
  BY DEF PortEmpty
<1>2. PICK r : /\ at' = IF r = "ok" THEN PowerOff ELSE at
               /\ IF r = "ok" THEN Go(NextPort(Top)) ELSE Fail(r)
  BY DEF PortEmpty, AfterPowerOff
<1>3. at' \in {at, PowerOff}
  BY <1>2
<1>4. CASE r = "ok"
  <2>1. Calls(stack') /\ stack' # <<>>
    BY <1>1, <1>2, <1>4, StillRunning, NextPortRight, GoRight
  <2>2. Silent'
    <3>1. \A d \in Devices : at[d] = 0 => d = Child /\ Child # NoDevice
      BY <1>1, StillRunning DEF AtZero, Waits
    <3>2. \A d \in Devices : at'[d] = IF d \in Beneath THEN Off ELSE at[d]
      BY <1>2, <1>4 DEF PowerOff
    <3>3. ASSUME NEW d \in Devices, at'[d] = 0 PROVE FALSE
      <4>1. d \notin Beneath /\ at[d] = 0 /\ d = Child /\ Child # NoDevice
        BY <3>1, <3>2, <3>3 DEF Off
      <4> QED BY <4>1, ChildBeneath DEF Beneath
    <3> QED BY <1>1, <3>3 DEF Silent, Devices
  <2> QED BY <1>1, <1>3, <2>1, <2>2, PowerOffRight, InvKept
<1>5. CASE r # "ok"
  BY <1>1, <1>2, <1>3, <1>5, StillRunning, FailRight, PowerOffRight, InvKept
<1> QED BY <1>4, <1>5

---------------------------------------------------------------------------
(* Calls and returns.                                                       *)

LEMMA PortConnectedRight == AddressInv /\ PortConnected => AddressInv'
<1> SUFFICES ASSUME AddressInv, PortConnected PROVE AddressInv'
  OBVIOUS
<1>1. Running("changes") /\ UNCHANGED <<wiring, at, nextAddress>>
  BY DEF PortConnected
<1>2. PICK r : IF r = "ok" THEN stack' = <<Call>> \o stack ELSE Fail(r)
  BY DEF PortConnected
<1>3. CASE r = "ok"
  <2>1. "pc" \in DOMAIN Call /\ Call.pc = "descriptor"
    BY DEF Call
  <2>2. Failing(stack', result')
    BY <1>1, <1>2, <1>3, <2>1, StillRunning, CallsGrow DEF Failing
  <2> QED BY <1>1, <2>2, SameAddresses, InvKept
<1>4. CASE r # "ok"
  BY <1>1, <1>2, <1>4, StillRunning, FailRight, SameAddresses, InvKept
<1> QED BY <1>3, <1>4

LEMMA ReturnToHubRight == AddressInv /\ ReturnToHub => AddressInv'
<1> SUFFICES ASSUME AddressInv, ReturnToHub PROVE AddressInv'
  OBVIOUS
<1> DEFINE hub == stack[2]
           calls == SubSeq(stack, 3, Len(stack))
           f == NextPort([hub EXCEPT !.pc = "changes"])
<1>1. Running("return") /\ UNCHANGED <<wiring, at, nextAddress>>
  BY DEF ReturnToHub
<1>2. IF result = "ok" THEN stack' = <<f>> \o calls ELSE Fails(hub, calls, result)
  BY DEF ReturnToHub
<1>3. "pc" \in DOMAIN hub /\ Calls(calls)
  <2>1. PICK S : stack \in Seq(S) /\ \A g \in S : "pc" \in DOMAIN g
    BY DEF AddressInv, Calls
  <2>2. Len(stack) \in Nat /\ Len(stack) > 1
    BY <2>1 DEF ReturnToHub
  <2>3. hub \in S
    BY <2>1, <2>2
  <2>4. calls \in Seq(S)
    BY <2>1, <2>2
  <2> QED BY <2>1, <2>3, <2>4 DEF Calls
<1>4. "pc" \in DOMAIN f
  <2>1. "pc" \in DOMAIN [hub EXCEPT !.pc = "changes"]
    BY <1>3
  <2> QED BY <2>1, NextPortRight
<1> HIDE DEF hub, calls, f
<1>5. CASE result = "ok"
  <2>1. Calls(stack') /\ stack' # <<>>
    BY <1>2, <1>3, <1>4, <1>5, CallsGrow
  <2>2. Silent
    BY <1>1, <1>5, StillRunning DEF AtZero
  <2> QED BY <1>1, <2>1, <2>2, SameAddresses, InvKept
<1>6. CASE result # "ok"
  BY <1>1, <1>2, <1>3, <1>6, FailsRight, SameAddresses, InvKept
<1> QED BY <1>5, <1>6

\* After a reset of the bus only the root is awake.
LEMMA ResetRight ==
  /\ at = AfterBusReset(wiring) /\ nextAddress = 0 /\ stack = <<Call>>
  => AddressInv
<1> SUFFICES ASSUME at = AfterBusReset(wiring), nextAddress = 0, stack = <<Call>>
             PROVE  AddressInv
  OBVIOUS
<1>1. \A d \in Devices : at[d] = IF d = wiring.root THEN 0 ELSE Off
  BY DEF AfterBusReset, Devices
<1>2. Given /\ OneAnswers
  BY <1>1 DEF Given, OneAnswers, Off
<1>3. "pc" \in DOMAIN Call /\ Call.pc = "descriptor"
  BY DEF Call
<1>4. stack \in Seq({Call}) /\ stack # <<>> /\ Top = Call
  BY DEF Top
<1>5. Calls(stack)
  <2> DEFINE S == {Call}
  <2>1. stack \in Seq(S) /\ \A f \in S : "pc" \in DOMAIN f
    BY <1>3, <1>4
  <2> HIDE DEF S
  <2> QED BY <2>1, CallsAre
<1> QED BY <1>2, <1>3, <1>4, <1>5 DEF AddressInv, AtZero, Quiet, Waits

LEMMA EnumeratedRight == AddressInv /\ Enumerated => AddressInv'
<1> SUFFICES ASSUME AddressInv, Enumerated PROVE AddressInv'
  OBVIOUS
<1>1. CASE stack' = << >> /\ phase' = "scsi" /\ UNCHANGED <<wiring, at, nextAddress>>
  <2>1. Calls(stack')
    <3>1. stack' \in Seq({})
      BY <1>1
    <3> QED BY <3>1, CallsAre
  <2> QED BY <1>1, <2>1, SameAddresses DEF AddressInv
<1>2. CASE at' = AfterBusReset(wiring) /\ nextAddress' = 0 /\ stack' = <<Call>> /\ UNCHANGED wiring
  <2>1. (at = AfterBusReset(wiring) /\ nextAddress = 0 /\ stack = <<Call>>)'
    BY <1>2 DEF AfterBusReset, Call
  <2> QED BY <2>1, ResetRight, PTL
<1> QED BY <1>1, <1>2 DEF Enumerated

LEMMA InitRight == EnumInit => AddressInv
BY ResetRight DEF EnumInit

LEMMA AddressStepRight == AddressInv /\ [EnumNext]_enumvars => AddressInv'
<1> SUFFICES ASSUME AddressInv, [EnumNext]_enumvars PROVE AddressInv'
  OBVIOUS
<1>1. CASE ChscsiInit \/ ChufiInit \/ KeyboardInit
  <2>1. UNCHANGED <<wiring, at, nextAddress, stack>> /\ phase # "enumerate" /\ phase' # "enumerate"
    BY <1>1 DEF ChscsiInit, ChufiInit, KeyboardInit, NextIndex
  <2> QED BY <2>1, SameAddresses DEF AddressInv, Calls
<1>2. CASE UNCHANGED enumvars
  <2>1. UNCHANGED <<wiring, at, stack, result, nextAddress, phase>>
    BY <1>2 DEF enumvars, bootvars
  <2>2. Devices' = Devices /\ Top' = Top /\ Child' = Child
    BY <2>1 DEF Devices, Top, Child
  <2>3. AtZero' = AtZero
    BY <2>1, <2>2 DEF AtZero, Silent
  <2> QED BY <2>1, <2>3, SameAddresses DEF AddressInv, Calls
<1> QED BY <1>1, <1>2, GetDescriptorRight, SetAddressRight, GetCfgDescRight, AllConfigsReadRight,
           IdClassDrvRight, CapDrvIntfRight, ParseEndpointRight, HubGetDescriptorRight,
           PortPowerRight, PortResetRight, PortStatusRight, PortEmptyRight,
           PortConnectedRight, ReturnToHubRight, EnumeratedRight DEF EnumNext

\* Whatever is plugged in and whichever requests fail, at every moment each
\* address is that of one device: a request is answered by one device or by none.
THEOREM AddressesAreUnique == EnumSpec => []OneAnswers
<1>1. AddressInv => OneAnswers
  BY DEF AddressInv
<1> QED BY <1>1, InitRight, AddressStepRight, PTL DEF EnumSpec

---------------------------------------------------------------------------
(* The drives.                                                              *)

Numbers == 1 .. MaxNumberOfDevices
Table == 0 .. MaxNumberOfDevices - 1

\* The slots of a type among the first n.
Have(types, n) == {i \in 1 .. n : UsbGetDeviceType(i) \in types}

\* The slots that must have a drive, as far as the drivers have got.
Due == CASE phase = "scsi" -> Have({"storage"}, index - 1)
         [] phase = "ufi" -> Have({"storage"}, MaxNumberOfDevices) \cup Have({"floppy"}, index - 1)
         [] OTHER -> Have({"floppy", "storage"}, MaxNumberOfDevices)

\* Every drive is one of these slots, and no two are the same.
DriveInv ==
  /\ phase \in {"enumerate", "scsi", "ufi", "keyboard", "up"}
  /\ index \in Numbers
  /\ DOMAIN drives \subseteq Table
  /\ \A m, n \in DOMAIN drives : drives[m] = drives[n] => m = n
  /\ phase = "enumerate" => drives = << >> /\ keyboard = 0 /\ index = 1
  /\ phase # "enumerate" => Range(drives) = Due
  /\ phase \in {"scsi", "ufi"} => keyboard = 0
  /\ phase = "keyboard" => keyboard = 0 /\ Have({"keyboard"}, index - 1) = {}
  /\ phase = "up" => LET k == Have({"keyboard"}, MaxNumberOfDevices)
                     IN  keyboard = IF k = {} THEN 0 ELSE Min(k)

\* As long as a slot is left over, find_storage_dev finds an entry that is free.
LEMMA DriveFree ==
  ASSUME DriveInv, NEW i \in Numbers, i \notin Range(drives), Range(drives) \subseteq Numbers
  PROVE  FindStorageDev \in Table \ DOMAIN drives
<1> DEFINE free == Table \ DOMAIN drives
           T == Numbers \ {i}
<1>1. free # {}
  <2> SUFFICES ASSUME free = {} PROVE FALSE
    OBVIOUS
  <2>1. DOMAIN drives = Table
    BY DEF DriveInv
  <2>2. IsFiniteSet(Table) /\ Cardinality(Table) = 6
    <3>1. IsFiniteSet(0 .. 5) /\ Cardinality(0 .. 5) = IF 0 > 5 THEN 0 ELSE 5 - 0 + 1
      BY FS_Interval, 0 \in Int, 5 \in Int
    <3> QED BY <3>1 DEF Table, MaxNumberOfDevices
  <2>3. IsFiniteSet(Numbers) /\ Cardinality(Numbers) = 6
    <3>1. IsFiniteSet(1 .. 6) /\ Cardinality(1 .. 6) = IF 1 > 6 THEN 0 ELSE 6 - 1 + 1
      BY FS_Interval, 1 \in Int, 6 \in Int
    <3> QED BY <3>1 DEF Numbers, MaxNumberOfDevices
  <2>4. IsFiniteSet(T) /\ Cardinality(T) = 5
    BY <2>3, FS_RemoveElement
  <2> DEFINE f == [n \in Table |-> drives[n]]
  <2>5. \A n \in Table : drives[n] \in T
    BY <2>1 DEF Range
  <2>6. f \in [Table -> T]
    BY <2>5
  <2>7. PICK m, n \in Table : m # n /\ f[m] = f[n]
    <3> HIDE DEF f, T
    <3> QED BY <2>2, <2>4, <2>6, FS_PigeonHole
  <2> QED BY <2>1, <2>7 DEF DriveInv
<1>2. Min(free) \in free
  <2>1. \E n \in free : \A m \in free : n <= m
    BY <1>1 DEF Table, MaxNumberOfDevices
  <2> QED BY <2>1 DEF Min
<1> QED BY <1>1, <1>2 DEF FindStorageDev, Table

LEMMA DriveAddedRight ==
  ASSUME DriveInv, index \notin Range(drives), Range(drives) \subseteq Numbers
  PROVE  /\ DOMAIN DriveAdded \subseteq Table
         /\ \A m, n \in DOMAIN DriveAdded : DriveAdded[m] = DriveAdded[n] => m = n
         /\ Range(DriveAdded) = Range(drives) \cup {index}
<1> DEFINE p == FindStorageDev
<1>1. p \in Table \ DOMAIN drives
  BY DriveFree DEF DriveInv
<1> HIDE DEF p
<1>2. /\ DOMAIN DriveAdded = DOMAIN drives \cup {p}
      /\ DriveAdded[p] = index
      /\ \A n \in DOMAIN drives : DriveAdded[n] = drives[n]
  BY <1>1 DEF DriveAdded, p
<1>3. \A n \in DOMAIN drives : drives[n] # index
  BY DEF Range
<1>4. DOMAIN DriveAdded \subseteq Table
  BY <1>1, <1>2 DEF DriveInv
<1>5. \A m, n \in DOMAIN DriveAdded : DriveAdded[m] = DriveAdded[n] => m = n
  BY <1>2, <1>3 DEF DriveInv
<1>6. Range(DriveAdded) = Range(drives) \cup {index}
  <2>1. ASSUME NEW v \in Range(DriveAdded) PROVE v \in Range(drives) \cup {index}
    BY <1>2, <2>1 DEF Range
  <2>2. ASSUME NEW v \in Range(drives) \cup {index} PROVE v \in Range(DriveAdded)
    BY <1>2, <2>2 DEF Range
  <2> QED BY <2>1, <2>2
<1> QED BY <1>4, <1>5, <1>6

LEMMA DriveInitRight == EnumInit => DriveInv
BY DEF EnumInit, DriveInv, Numbers, Table, MaxNumberOfDevices

\* While the slots stay, so does what is to be served.
LEMMA TypesKept == UNCHANGED slots => \A types, n : Have(types, n)' = Have(types, n)
<1> SUFFICES ASSUME UNCHANGED slots PROVE \A types, n : Have(types, n)' = Have(types, n)
  OBVIOUS
<1>1. Places' = Places
  BY DEF Places, After
<1>2. \A i : UsbGetDeviceType(i)' = UsbGetDeviceType(i)
  BY <1>1 DEF UsbGetDeviceType, Met, Used
<1> QED BY <1>2 DEF Have

\* One slot more has been looked at.
LEMMA HaveNext ==
  ASSUME NEW types, NEW i \in Numbers
  PROVE  /\ Have(types, i) = Have(types, i - 1) \cup IF UsbGetDeviceType(i) \in types THEN {i} ELSE {}
         /\ i \notin Have(types, i - 1)
         /\ Have(types, i) \subseteq Numbers
<1>1. 1 .. i = (1 .. i - 1) \cup {i} /\ i \notin 1 .. i - 1 /\ 1 .. i \subseteq Numbers
  BY DEF Numbers, MaxNumberOfDevices
<1> QED BY <1>1 DEF Have

LEMMA HaveEnds ==
  /\ \A types : Have(types, 0) = {}
  /\ Have({"storage"}, MaxNumberOfDevices) \cup Have({"floppy"}, MaxNumberOfDevices)
       = Have({"floppy", "storage"}, MaxNumberOfDevices)
  /\ \A types : Have(types, MaxNumberOfDevices) \subseteq Numbers
BY DEF Have, Numbers, MaxNumberOfDevices

LEMMA ChscsiInitRight == DriveInv /\ ChscsiInit => DriveInv'
<1> SUFFICES ASSUME DriveInv, ChscsiInit PROVE DriveInv'
  OBVIOUS
<1> DEFINE S(n) == Have({"storage"}, n)
<1>1. /\ phase = "scsi" /\ index \in Numbers /\ keyboard' = 0
      /\ UNCHANGED slots
      /\ Range(drives) = S(index - 1)
  BY DEF ChscsiInit, DriveInv, Due
<1>2. /\ S(index) = S(index - 1) \cup IF UsbGetDeviceType(index) = "storage" THEN {index} ELSE {}
      /\ index \notin S(index - 1) /\ S(index) \subseteq Numbers
  BY <1>1, HaveNext
<1>3. /\ DOMAIN drives' \subseteq Table
      /\ \A m, n \in DOMAIN drives' : drives'[m] = drives'[n] => m = n
      /\ Range(drives') = S(index)
  <2>1. CASE UsbGetDeviceType(index) = "storage"
    <3>1. drives' = DriveAdded
      BY <2>1 DEF ChscsiInit
    <3>2. index \notin Range(drives) /\ Range(drives) \subseteq Numbers
      BY <1>1, <1>2
    <3> QED BY <1>1, <1>2, <2>1, <3>1, <3>2, DriveAddedRight
  <2>2. CASE UsbGetDeviceType(index) # "storage"
    BY <1>1, <1>2, <2>2 DEF ChscsiInit, DriveInv
  <2> QED BY <2>1, <2>2
<1>4. \/ phase' = "ufi" /\ index' = 1 /\ index = MaxNumberOfDevices
      \/ phase' = "scsi" /\ index' = index + 1 /\ index' \in Numbers
  BY <1>1 DEF ChscsiInit, NextIndex, Numbers, MaxNumberOfDevices
<1>5. Due' = S(index)
  <2>1. CASE phase' = "ufi" /\ index' = 1 /\ index = MaxNumberOfDevices
    <3>1. Due' = Have({"storage"}, MaxNumberOfDevices)' \cup Have({"floppy"}, 0)'
      BY <2>1 DEF Due, Have
    <3> QED BY <1>1, <2>1, <3>1, TypesKept, HaveEnds
  <2>2. CASE phase' = "scsi" /\ index' = index + 1
    <3>1. Due' = Have({"storage"}, index - 1)'
      BY <2>2 DEF Due
    <3>2. index' - 1 = index
      BY <1>1, <2>2 DEF Numbers
    <3>3. Have({"storage"}, index - 1)' = Have({"storage"}, index' - 1)
      BY <1>1, TypesKept
    <3> QED BY <3>1, <3>2, <3>3
  <2> QED BY <1>4, <2>1, <2>2
<1>6. index' \in Numbers
  BY <1>4 DEF Numbers, MaxNumberOfDevices
<1> QED BY <1>1, <1>3, <1>4, <1>5, <1>6 DEF DriveInv

LEMMA ChufiInitRight == DriveInv /\ ChufiInit => DriveInv'
<1> SUFFICES ASSUME DriveInv, ChufiInit PROVE DriveInv'
  OBVIOUS
<1> DEFINE F(n) == Have({"floppy"}, n)
           S == Have({"storage"}, MaxNumberOfDevices)
<1>1. /\ phase = "ufi" /\ index \in Numbers /\ keyboard' = 0
      /\ UNCHANGED slots
      /\ Range(drives) = S \cup F(index - 1)
  BY DEF ChufiInit, DriveInv, Due
<1>2. /\ F(index) = F(index - 1) \cup IF UsbGetDeviceType(index) = "floppy" THEN {index} ELSE {}
      /\ index \notin F(index - 1) /\ F(index) \subseteq Numbers
  BY <1>1, HaveNext
<1>3. /\ DOMAIN drives' \subseteq Table
      /\ \A m, n \in DOMAIN drives' : drives'[m] = drives'[n] => m = n
      /\ Range(drives') = S \cup F(index)
  <2>1. CASE UsbGetDeviceType(index) = "floppy"
    <3>1. drives' = DriveAdded
      BY <2>1 DEF ChufiInit, ServedByUfi
    <3>2. index \notin S
      BY <2>1 DEF Have
    <3>3. index \notin Range(drives) /\ Range(drives) \subseteq Numbers
      BY <1>1, <1>2, <3>2, HaveEnds
    <3> QED BY <1>1, <1>2, <2>1, <3>1, <3>3, DriveAddedRight
  <2>2. CASE UsbGetDeviceType(index) # "floppy"
    BY <1>1, <1>2, <2>2 DEF ChufiInit, ServedByUfi, DriveInv
  <2> QED BY <2>1, <2>2
<1>4. \/ phase' = "keyboard" /\ index' = 1 /\ index = MaxNumberOfDevices
      \/ phase' = "ufi" /\ index' = index + 1 /\ index' \in Numbers
  BY <1>1 DEF ChufiInit, NextIndex, Numbers, MaxNumberOfDevices
<1>5. Due' = S \cup F(index)
  <2>1. CASE phase' = "keyboard" /\ index = MaxNumberOfDevices
    <3>1. Due' = Have({"floppy", "storage"}, MaxNumberOfDevices)'
      BY <2>1 DEF Due, Have
    <3> QED BY <1>1, <2>1, <3>1, TypesKept, HaveEnds
  <2>2. CASE phase' = "ufi" /\ index' = index + 1
    <3>1. Due' = Have({"storage"}, MaxNumberOfDevices)' \cup Have({"floppy"}, index - 1)'
      BY <2>2 DEF Due
    <3>2. index' - 1 = index
      BY <1>1, <2>2 DEF Numbers
    <3>3. Have({"floppy"}, index - 1)' = Have({"floppy"}, index' - 1)
      BY <1>1, TypesKept
    <3>4. Have({"storage"}, MaxNumberOfDevices)' = S
      BY <1>1, TypesKept
    <3> QED BY <3>1, <3>2, <3>3, <3>4
  <2> QED BY <1>4, <2>1, <2>2
<1>6. index' \in Numbers
  BY <1>4 DEF Numbers, MaxNumberOfDevices
<1>7. phase' = "keyboard" => Have({"keyboard"}, index - 1)' = {}
  <2> SUFFICES ASSUME phase' = "keyboard" PROVE Have({"keyboard"}, index - 1)' = {}
    OBVIOUS
  <2>1. Have({"keyboard"}, index - 1)' = Have({"keyboard"}, 0)'
    BY <1>4 DEF Have
  <2> QED BY <1>1, <2>1, TypesKept, HaveEnds
<1> QED BY <1>1, <1>3, <1>4, <1>5, <1>6, <1>7 DEF DriveInv

LEMMA KeyboardInitRight == DriveInv /\ KeyboardInit => DriveInv'
<1> SUFFICES ASSUME DriveInv, KeyboardInit PROVE DriveInv'
  OBVIOUS
<1> DEFINE K(n) == Have({"keyboard"}, n)
<1>1. /\ phase = "keyboard" /\ index \in Numbers /\ keyboard = 0
      /\ UNCHANGED slots /\ UNCHANGED drives
      /\ K(index - 1) = {}
  BY DEF KeyboardInit, DriveInv
<1>2. K(index) = K(index - 1) \cup IF UsbGetDeviceType(index) = "keyboard" THEN {index} ELSE {}
  BY <1>1, HaveNext
<1>3. Range(drives) = Have({"floppy", "storage"}, MaxNumberOfDevices)
  BY <1>1 DEF DriveInv, Due
<1>4. phase' \in {"keyboard", "up"} => Range(drives') = Due'
  <2> SUFFICES ASSUME phase' \in {"keyboard", "up"} PROVE Range(drives') = Due'
    OBVIOUS
  <2>1. Due' = Have({"floppy", "storage"}, MaxNumberOfDevices)'
    BY DEF Due
  <2> QED BY <1>1, <1>3, <2>1, TypesKept
<1>5. CASE UsbGetDeviceType(index) = "keyboard"
  <2>1. keyboard' = index /\ phase' = "up" /\ index' = 1
    BY <1>5 DEF KeyboardInit
  <2> DEFINE k == K(MaxNumberOfDevices)
  <2>2. index \in k /\ \A i \in k : index <= i
    BY <1>1, <1>5 DEF Have, Numbers, MaxNumberOfDevices
  <2>3. k \subseteq Numbers
    BY HaveEnds
  <2>4. Min(k) = index
    <3> HIDE DEF k
    <3>1. Min(k) \in k /\ \A i \in k : Min(k) <= i
      BY <2>2, Zenon DEF Min
    <3>2. index \in Numbers /\ Min(k) \in Numbers
      BY <1>1, <2>3, <3>1
    <3>3. Min(k) <= index /\ index <= Min(k)
      BY <2>2, <3>1
    <3>4. \A i, j \in Numbers : i <= j /\ j <= i => i = j
      BY DEF Numbers, MaxNumberOfDevices
    <3> QED BY <3>2, <3>3, <3>4
  <2>5. Have({"keyboard"}, MaxNumberOfDevices)' = k
    BY <1>1, TypesKept
  <2>6. index' \in Numbers
    BY <2>1 DEF Numbers, MaxNumberOfDevices
  <2> HIDE DEF k
  <2> QED BY <1>1, <1>4, <2>1, <2>2, <2>4, <2>5, <2>6 DEF DriveInv
<1>6. CASE UsbGetDeviceType(index) # "keyboard"
  <2>1. K(index) = {}
    BY <1>1, <1>2, <1>6
  <2>2. NextIndex("up") /\ keyboard' = 0
    BY <1>1, <1>6 DEF KeyboardInit
  <2>3. CASE index = MaxNumberOfDevices
    <3>1. phase' = "up" /\ index' = 1
      BY <2>2, <2>3 DEF NextIndex
    <3>2. Have({"keyboard"}, MaxNumberOfDevices)' = {}
      BY <1>1, <2>1, <2>3, TypesKept
    <3>3. index' \in Numbers
      BY <3>1 DEF Numbers, MaxNumberOfDevices
    <3> QED BY <1>1, <1>4, <2>2, <3>1, <3>2, <3>3 DEF DriveInv
  <2>4. CASE index # MaxNumberOfDevices
    <3>1. phase' = "keyboard" /\ index' = index + 1
      BY <1>1, <2>2, <2>4 DEF NextIndex
    <3>2. Have({"keyboard"}, index - 1)' = Have({"keyboard"}, index' - 1)
      BY <1>1, TypesKept
    <3>3. index' - 1 = index /\ index' \in Numbers
      BY <1>1, <2>4, <3>1 DEF Numbers, MaxNumberOfDevices
    <3> QED BY <1>1, <1>4, <2>1, <2>2, <3>1, <3>2, <3>3 DEF DriveInv
  <2> QED BY <2>3, <2>4
<1> QED BY <1>5, <1>6

LEMMA EnumeratesRight ==
  ASSUME DriveInv, phase = "enumerate", UNCHANGED <<phase, index, drives, keyboard>>
  PROVE  DriveInv'
BY DEF DriveInv

LEMMA DriveStepRight == DriveInv /\ [EnumNext]_enumvars => DriveInv'
<1> SUFFICES ASSUME DriveInv, [EnumNext]_enumvars PROVE DriveInv'
  OBVIOUS
<1>1. CASE GetDescriptor \/ SetAddress \/ GetCfgDesc \/ AllConfigsRead \/ IdClassDrv
           \/ CapDrvIntf \/ ParseEndpoint
  <2>1. phase = "enumerate" /\ UNCHANGED bootvars
    BY <1>1 DEF GetDescriptor, SetAddress, GetCfgDesc, AllConfigsRead, IdClassDrv,
                CapDrvIntf, ParseEndpoint, Running
  <2> QED BY <2>1, EnumeratesRight DEF bootvars
<1>2. CASE HubGetDescriptor \/ PortPower \/ PortReset \/ PortStatus \/ PortEmpty
           \/ PortConnected \/ ReturnToHub
  <2>1. phase = "enumerate" /\ UNCHANGED bootvars
    BY <1>2 DEF HubGetDescriptor, PortPower, PortReset, PortStatus, PortEmpty,
                PortConnected, ReturnToHub, Running
  <2> QED BY <2>1, EnumeratesRight DEF bootvars
<1>3. CASE Enumerated
  <2>1. phase = "enumerate" /\ phase' \in {"enumerate", "scsi"} /\ UNCHANGED <<index, drives, keyboard>>
    BY <1>3 DEF Enumerated, Running
  <2>2. CASE phase' = "scsi"
    <3>1. index = 1 /\ drives = << >> /\ keyboard = 0
      BY <2>1 DEF DriveInv
    <3>2. Due' = {}
      BY <2>1, <2>2, <3>1 DEF Due, Have
    <3>3. Range(drives') = {}
      BY <2>1, <3>1 DEF Range
    <3> QED BY <2>1, <2>2, <3>2, <3>3 DEF DriveInv
  <2> QED BY <2>1, <2>2, EnumeratesRight
<1>4. CASE UNCHANGED enumvars
  <2>1. UNCHANGED <<slots, phase, index, drives, keyboard>>
    BY <1>4 DEF enumvars, bootvars
  <2>2. \A types, n : Have(types, n)' = Have(types, n)
    BY <2>1, TypesKept
  <2>3. UNCHANGED <<Due, Have({"keyboard"}, index - 1), Have({"keyboard"}, MaxNumberOfDevices)>>
    BY <2>1, <2>2 DEF Due
  <2> QED BY <2>1, <2>3 DEF DriveInv
<1> QED BY <1>1, <1>2, <1>3, <1>4, ChscsiInitRight, ChufiInitRight, KeyboardInitRight DEF EnumNext

\* For anything plugged in: when the drivers are up, each disk among the first six
\* slots has one drive and nothing else has, no entry is beyond the table, and the
\* keyboard is the first.
THEOREM DrivesAreExact == EnumSpec => []DrivesExact
<1>1. DriveInv => DrivesExact
  <2> SUFFICES ASSUME DriveInv PROVE DrivesExact
    OBVIOUS
  <2> DEFINE disks == Have({"floppy", "storage"}, MaxNumberOfDevices)
  <2>1. phase = "up" => /\ Range(drives) = disks
                        /\ Cardinality(DOMAIN drives) = Cardinality(disks)
    <3> SUFFICES ASSUME phase = "up" PROVE /\ Range(drives) = disks
                                           /\ Cardinality(DOMAIN drives) = Cardinality(disks)
      OBVIOUS
    <3>1. Range(drives) = disks
      BY DEF DriveInv, Due
    <3> DEFINE f == [n \in DOMAIN drives |-> drives[n]]
    <3>2. f \in Bijection(DOMAIN drives, disks)
      <4>1. f \in [DOMAIN drives -> disks]
        BY <3>1 DEF Range
      <4>2. \A t \in disks : \E n \in DOMAIN drives : f[n] = t
        BY <3>1 DEF Range
      <4>3. \A m, n \in DOMAIN drives : f[m] = f[n] => m = n
        BY DEF DriveInv
      <4> HIDE DEF f, disks
      <4> QED BY <4>1, <4>2, <4>3, Fun_IsBij
    <3>3. IsFiniteSet(DOMAIN drives)
      <4>1. IsFiniteSet(0 .. 5)
        BY FS_Interval, 0 \in Int, 5 \in Int
      <4>2. DOMAIN drives \in SUBSET (0 .. 5)
        BY DEF DriveInv, Table, MaxNumberOfDevices
      <4> QED BY <4>1, <4>2, FS_Subset
    <3>4. Cardinality(disks) = Cardinality(DOMAIN drives)
      <4> HIDE DEF f, disks
      <4>1. ExistsBijection(DOMAIN drives, disks)
        BY <3>2 DEF ExistsBijection
      <4> QED BY <3>3, <4>1, FS_Bijection
    <3> QED BY <3>1, <3>4
  <2> QED BY <2>1 DEF DriveInv, DrivesExact, Have, Table
<1> QED BY <1>1, DriveInitRight, DriveStepRight, PTL DEF EnumSpec

---------------------------------------------------------------------------
(* The least of a set of numbers.                                           *)

\* A set of numbers has a least one.
LEMMA LeastIsIn ==
  ASSUME NEW S \in SUBSET Nat, S # {}
  PROVE  Min(S) \in S /\ \A x \in S : Min(S) <= x
<1> DEFINE R == {ss \in Nat \X Nat : ss[1] < ss[2]}
<1>1. IsWellFoundedOn(R, Nat)
  BY NatLessThanWellFounded DEF OpToRel
<1>2. \E x \in S : \A y \in S : ~(<<y, x>> \in R)
  BY <1>1, WFMin
<1>3. \E x \in S : \A y \in S : x <= y
  <2>1. PICK x \in S : \A y \in S : ~(<<y, x>> \in R)
    BY <1>2
  <2>2. ASSUME NEW y \in S PROVE x <= y
    <3>1. x \in Nat /\ y \in Nat
      OBVIOUS
    <3>2. ASSUME y < x PROVE <<y, x>> \in R
      BY <3>1, <3>2
    <3>3. <<y, x>> \notin R
      BY <2>1
    <3> HIDE DEF R
    <3> QED BY <3>1, <3>2, <3>3
  <2> QED BY <2>2
<1> QED BY <1>3 DEF Min

---------------------------------------------------------------------------
(* The walk over the tree of hubs.                                          *)

\* Where in the program a call speaks to a device by the address it gave it, and
\* where it does so for the ports of a hub.
Addressed == {"config", "interface", "configure", "endpoint",
              "hub", "power", "reset", "status", "empty", "changes"}
AtHub == {"hub", "power", "reset", "status", "empty", "changes"}

\* Nothing is awake on the ports of d; on the ports of d up to n.
Dark(d) == \A c \in Children(wiring, d) : at[c] = Off
PortsDark(d, n) ==
  \A q \in 1 .. n : wiring.ports[d][q] # NoDevice => at[wiring.ports[d][q]] = Off

\* A device that is not awake, or has no address yet, is in front of dark ports.
Shaded == \A d \in Devices : at[d] \in {0, Off} => Dark(d)

\* The configuration a call reads, and the interfaces of a hub that it comes to.
Current(f) == wiring.configs[f.desc][f.config + 1]
Ahead(f) ==
  {h \in Hubs(wiring, f.desc) :
     \/ h[1] > f.config + 1
     \/ /\ h[1] = f.config + 1
        /\ \/ f.pc = "config"
           \/ f.pc = "interface" /\ h[2] >= f.ptr
           \/ f.pc = "configure" /\ h[2] >= f.interface
           \/ f.pc = "endpoint" /\ h[2] > f.interface}

\* The device of a call, and where in its descriptors the call is.
Speaks(f) == f.desc \in Devices /\ at[f.desc] = f.address /\ f.address \in 1 .. nextAddress
Reads(f) ==
  /\ f.config \in 0 .. Len(wiring.configs[f.desc])
  /\ f.pc # "config" =>
       /\ f.config < Len(wiring.configs[f.desc]) /\ f.descs = Current(f)
       /\ f.ptr \in DOMAIN f.descs
  /\ f.pc = "interface" => f.ptr \in Interfaces(f.descs)
  /\ f.pc \notin {"config", "interface"} =>
       /\ f.interface \in Interfaces(f.descs) /\ f.interface <= f.ptr
       /\ f.type = IdentifyClassDriver(f.descs[f.interface])
  /\ f.pc \in AtHub => f.type = "hub"

\* What the call has still to wake is dark.
Wakes(f) ==
  /\ Ahead(f) # {} \/ f.pc = "hub" => Dark(f.desc)
  /\ f.pc \in AtHub \ {"hub"} => f.port \in DOMAIN wiring.ports[f.desc]
  /\ f.pc \in {"power", "reset"} => PortsDark(f.desc, f.port)
  /\ f.pc \in {"status", "empty", "changes"} => PortsDark(f.desc, f.port - 1)
  /\ f.pc \in {"status", "empty"} =>
       LET c == wiring.ports[f.desc][f.port] IN c # NoDevice => at[c] \in {0, Off}
CallRight(f) == f.pc \in Addressed => Speaks(f) /\ Reads(f) /\ Wakes(f)

\* The calls: those that wait do so at a port, each for a device of its own.
CallsRight ==
  /\ \A i \in DOMAIN stack : DOMAIN stack[i] = DOMAIN Call /\ CallRight(stack[i])
  /\ \A i \in DOMAIN stack : i > 1 => stack[i].pc = "changes"
  /\ \A i, j \in DOMAIN stack :
       stack[i].pc \in Addressed /\ stack[j].pc \in Addressed /\ stack[i].desc = stack[j].desc => i = j
  /\ stack # << >> /\ Top.pc = "address" => Top.desc \in Devices /\ at[Top.desc] = 0

\* The slots follow one another from the beginning of the area.
Chain ==
  /\ \A p \in DOMAIN slots :
       /\ p \in 0 .. AreaSize - 1 /\ slots[p].type \in SlotTypes
       /\ p = 0 \/ \E q \in DOMAIN slots : After(q) = p
       /\ After(p) <= 16 * Cardinality(DOMAIN slots)
  /\ \A p, q \in DOMAIN slots : p < q => After(p) \in DOMAIN slots /\ After(p) <= q
  /\ IsFiniteSet(DOMAIN slots)
  /\ DOMAIN slots # {} => 0 \in DOMAIN slots

\* A slot is honest and speaks to a device that is awake.
Honest == nextAddress < 16 => SlotsHonest /\ \A p \in DOMAIN slots : slots[p].address \in 1 .. 15

\* What does not depend on how far the walk has got.
EnumTyped ==
  /\ wiring \in Wirings
  /\ at \in [Devices -> 0 .. Off]
  /\ nextAddress \in 0 .. MaxAddress
  /\ \A p \in DOMAIN slots : /\ slots[p].address \in 0 .. 15
                             /\ slots[p].endpoints \in [DOMAIN NoEndpoints -> 0 .. 7]
  /\ (phase # "enumerate") = (stack = << >>)
  /\ round \in 0 .. Rounds
  /\ faults \in 0 .. Faults

\* The inductive invariant of the walk, next to AddressInv.
WalkInv == EnumTyped /\ Shaded /\ CallsRight /\ Chain /\ Honest

---------------------------------------------------------------------------
(* What is known of the wiring.                                             *)

LEMMA WiringIs ==
  ASSUME wiring \in Wirings
  PROVE  /\ LegalWiring(wiring) /\ wiring.root \in Devices /\ DOMAIN wiring.configs = Devices
         /\ \A d \in Devices : /\ wiring.ports[d] \in Seq(Devices \cup {NoDevice})
                               /\ wiring.configs[d] \in Seq(Configs(wiring))
         /\ \A c \in Configs(wiring) : c \in Seq(Range(c)) /\ LegalConfig(c)
BY WiringsAssumption DEF LegalWiring, Devices

\* What hangs on a port is a device.
LEMMA ChildrenAre ==
  ASSUME wiring \in Wirings, NEW d \in Devices
  PROVE  /\ Len(wiring.ports[d]) \in Nat
         /\ DOMAIN wiring.ports[d] = 1 .. Len(wiring.ports[d])
         /\ \A q \in DOMAIN wiring.ports[d] :
              wiring.ports[d][q] # NoDevice =>
                wiring.ports[d][q] \in Children(wiring, d) /\ wiring.ports[d][q] \in Devices
         /\ \A c \in Children(wiring, d) :
              c \in Devices /\ \E q \in DOMAIN wiring.ports[d] : wiring.ports[d][q] = c /\ c # NoDevice
<1>1. wiring.ports[d] \in Seq(Devices \cup {NoDevice})
  BY WiringIs
<1> DEFINE s == wiring.ports[d]
           S == Devices \cup {NoDevice}
<1>2. s \in Seq(S)
  BY <1>1
<1> HIDE DEF s, S
<1>3. Len(s) \in Nat /\ DOMAIN s = 1 .. Len(s) /\ \A q \in DOMAIN s : s[q] \in S
  BY <1>2
<1>4. \A c \in Range(s) : \E q \in DOMAIN s : s[q] = c
  BY DEF Range
<1>5. \A q \in DOMAIN s : s[q] \in Range(s)
  BY DEF Range
<1> QED BY <1>3, <1>4, <1>5 DEF Children, s, S

\* A device hangs on one port, and the root on none.
LEMMA OnePort ==
  ASSUME wiring \in Wirings
  PROVE  /\ \A d \in Devices : wiring.root \notin Children(wiring, d)
         /\ \A d, e \in Devices : \A m \in DOMAIN wiring.ports[d], n \in DOMAIN wiring.ports[e] :
              wiring.ports[d][m] = wiring.ports[e][n] /\ wiring.ports[d][m] # NoDevice
                => d = e /\ m = n
         /\ \A d \in Devices : Hubs(wiring, d) # {} => wiring.ports[d] # << >>
         /\ \A d \in Devices : \A g, h \in Hubs(wiring, d) : g = h
BY WiringIs DEF LegalWiring, LegalTree, Devices

\* The configurations of a device.
LEMMA ConfigsAre ==
  ASSUME wiring \in Wirings, NEW d \in Devices
  PROVE  /\ Len(wiring.configs[d]) \in Nat
         /\ DOMAIN wiring.configs[d] = 1 .. Len(wiring.configs[d])
         /\ \A n \in DOMAIN wiring.configs[d] :
              LET c == wiring.configs[d][n]
              IN  /\ c \in Configs(wiring) /\ c \in Buffers /\ LegalConfig(c)
                  /\ Len(c) \in Nat \ {0} /\ DOMAIN c = 1 .. Len(c)
<1>1. wiring.configs[d] \in Seq(Configs(wiring))
  BY WiringIs
<1> DEFINE s == wiring.configs[d]
           S == Configs(wiring)
<1>2. s \in Seq(S) /\ \A c \in S : c \in Seq(Range(c)) /\ LegalConfig(c)
  BY <1>1, WiringIs
<1>3. S \subseteq Buffers
  BY DEF Buffers
<1> HIDE DEF s, S
<1>4. Len(s) \in Nat /\ DOMAIN s = 1 .. Len(s) /\ \A n \in DOMAIN s : s[n] \in S
  BY <1>2
<1>5. \A c \in S : Len(c) \in Nat \ {0} /\ DOMAIN c = 1 .. Len(c)
  <2> SUFFICES ASSUME NEW c \in S PROVE Len(c) \in Nat \ {0} /\ DOMAIN c = 1 .. Len(c)
    OBVIOUS
  <2>1. c \in Seq(Range(c)) /\ c # << >>
    BY <1>2 DEF LegalConfig
  <2> QED BY <2>1
<1> QED BY <1>2, <1>3, <1>4, <1>5 DEF s, S

\* The interfaces of a hub among those of a configuration.
LEMMA HubsAre ==
  ASSUME NEW d
  PROVE  /\ \A n \in DOMAIN wiring.configs[d] : \A i \in Interfaces(wiring.configs[d][n]) :
              IdentifyClassDriver(wiring.configs[d][n][i]) = "hub" => <<n, i>> \in Hubs(wiring, d)
         /\ \A h \in Hubs(wiring, d) :
              /\ h[1] \in DOMAIN wiring.configs[d]
              /\ h[2] \in DOMAIN wiring.configs[d][h[1]]
              /\ h = <<h[1], h[2]>>
BY DEF Hubs, Interfaces

\* A device that is not awake has only dark devices beneath it.
LEMMA BelowDark ==
  ASSUME wiring \in Wirings, Shaded, NEW c \in Devices, at[c] \in {0, Off}
  PROVE  \A e \in Below(c) : e \in Devices /\ (e = c \/ at[e] = Off)
<1> DEFINE S == {e \in Devices : e = c \/ at[e] = Off}
<1>1. S \in SUBSET Devices /\ c \in S
  OBVIOUS
<1>2. \A e \in S : Children(wiring, e) \subseteq S
  BY ChildrenAre DEF Shaded, Dark
<1>3. \A e \in Below(c) : e \in S
  <2> HIDE DEF S
  <2> QED BY <1>1, <1>2 DEF Below
<1> QED BY <1>3

---------------------------------------------------------------------------
(* The calls.                                                               *)

Fields == {"pc", "retried", "desc", "address", "config", "descs", "ptr", "interface",
           "interfaces", "endpoints", "type", "slot", "port"}

LEMMA CallFields == DOMAIN Call = Fields
BY DEF Call, Fields

\* The stack has g in place of the innermost call.
Replaced(g) == stack' = <<g>> \o Tail(stack) /\ DOMAIN g = DOMAIN Call

\* The innermost call has ended or begins again.
Gone == \E g : Replaced(g) /\ g.pc \notin Addressed \cup {"address"}

\* A stack with one call replaced, one more, one less.
LEMMA StackIs ==
  ASSUME Calls(stack), stack # << >>
  PROVE  /\ Len(stack) \in Nat \ {0} /\ DOMAIN stack = 1 .. Len(stack) /\ Top = stack[1]
         /\ \A g : LET s == <<g>> \o Tail(stack)
                   IN  /\ DOMAIN s = DOMAIN stack /\ s[1] = g /\ s # << >> /\ Head(s) = g
                       /\ \A i \in DOMAIN stack : i > 1 => s[i] = stack[i]
         /\ \A g : LET s == <<g>> \o stack
                   IN  /\ DOMAIN s = 1 .. Len(stack) + 1 /\ s[1] = g /\ s # << >> /\ Head(s) = g
                       /\ \A i \in DOMAIN stack : s[i + 1] = stack[i]
         /\ Len(stack) > 1 =>
              \A g : LET s == <<g>> \o SubSeq(stack, 3, Len(stack))
                     IN  /\ DOMAIN s = 1 .. Len(stack) - 1 /\ s[1] = g /\ s # << >> /\ Head(s) = g
                         /\ \A i \in DOMAIN s : i > 1 => s[i] = stack[i + 1]
<1>1. PICK S : stack \in Seq(S)
  BY DEF Calls
<1>2. Len(stack) \in Nat \ {0} /\ DOMAIN stack = 1 .. Len(stack) /\ Top = stack[1]
  BY <1>1 DEF Top
<1>3. ASSUME NEW g
      PROVE  LET s == <<g>> \o Tail(stack)
             IN  /\ DOMAIN s = DOMAIN stack /\ s[1] = g /\ s # << >> /\ Head(s) = g
                 /\ \A i \in DOMAIN stack : i > 1 => s[i] = stack[i]
  BY <1>1, <1>2
<1>4. ASSUME NEW g
      PROVE  LET s == <<g>> \o stack
             IN  /\ DOMAIN s = 1 .. Len(stack) + 1 /\ s[1] = g /\ s # << >> /\ Head(s) = g
                 /\ \A i \in DOMAIN stack : s[i + 1] = stack[i]
  BY <1>1, <1>2
<1>5. ASSUME NEW g, Len(stack) > 1
      PROVE  LET s == <<g>> \o SubSeq(stack, 3, Len(stack))
             IN  /\ DOMAIN s = 1 .. Len(stack) - 1 /\ s[1] = g /\ s # << >> /\ Head(s) = g
                 /\ \A i \in DOMAIN s : i > 1 => s[i] = stack[i + 1]
  <2> DEFINE t == SubSeq(stack, 3, Len(stack))
  <2>1. t \in Seq(S) /\ Len(t) = Len(stack) - 2 /\ \A i \in 1 .. Len(t) : t[i] = stack[i + 2]
    BY <1>1, <1>2, <1>5
  <2> HIDE DEF t
  <2>2. LET s == <<g>> \o t
        IN  /\ DOMAIN s = 1 .. Len(t) + 1 /\ s[1] = g /\ s # << >> /\ Head(s) = g
            /\ \A i \in DOMAIN s : i > 1 => s[i] = t[i - 1]
    BY <2>1
  <2> QED BY <1>2, <1>5, <2>1, <2>2 DEF t
<1> QED BY <1>2, <1>3, <1>4, <1>5

\* What a change of the addresses leaves of a call that waits: it is about
\* devices that have an address, and about dark ones.
Kept(f) == f.pc = "changes" /\ CallRight(f) => CallRight(f)'

\* f is a call that waits for another.
Waiting(f) == \E i \in DOMAIN stack : i > 1 /\ f = stack[i]

LEMMA KeptWhenQuiet ==
  ASSUME UNCHANGED <<wiring, at, nextAddress>>, NEW f
  PROVE  CallRight(f) => CallRight(f)'
BY DEF CallRight, Speaks, Reads, Wakes, Ahead, Current, Dark, PortsDark, Devices

\* Devices that answer at address 0 may take an address or go dark.
LEMMA StillRight ==
  ASSUME wiring \in Wirings, UNCHANGED wiring, nextAddress \in Nat, nextAddress' \in Nat,
         nextAddress <= nextAddress',
         \A e \in Devices : at[e] # 0 => at'[e] = at[e],
         NEW f, f.pc \notin {"status", "empty"}, CallRight(f)
  PROVE  CallRight(f)'
<1> SUFFICES ASSUME f.pc \in Addressed PROVE CallRight(f)'
  BY DEF CallRight
<1>1. Speaks(f) /\ Reads(f) /\ Wakes(f) /\ f.desc \in Devices
  BY DEF CallRight, Speaks
<1>2. Devices' = Devices /\ \A d \in Devices : Children(wiring, d) \subseteq Devices
  BY ChildrenAre DEF Devices
<1>3. Speaks(f)'
  BY <1>1, <1>2 DEF Speaks
<1>4. Reads(f)'
  BY <1>1 DEF Reads, Current
<1>5. Dark(f.desc) => Dark(f.desc)'
  BY <1>1, <1>2 DEF Dark, Off
<1>6. Ahead(f)' = Ahead(f)
  BY DEF Ahead
<1>7. \A n \in {f.port, f.port - 1} : f.pc \in AtHub \ {"hub"} /\ PortsDark(f.desc, n) => PortsDark(f.desc, n)'
  <2> SUFFICES ASSUME f.pc \in AtHub \ {"hub"}, NEW n \in {f.port, f.port - 1}, PortsDark(f.desc, n)
               PROVE  PortsDark(f.desc, n)'
    OBVIOUS
  <2>1. f.port \in DOMAIN wiring.ports[f.desc]
    BY <1>1 DEF Wakes, AtHub
  <2>2. \A q \in 1 .. n : q \in DOMAIN wiring.ports[f.desc]
    BY <1>1, <2>1, ChildrenAre
  <2> QED BY <1>1, <2>2, ChildrenAre DEF PortsDark, Off
<1>8. Wakes(f)'
  BY <1>1, <1>5, <1>6, <1>7 DEF Wakes, AtHub
<1> QED BY <1>3, <1>4, <1>8 DEF CallRight

LEMMA KeptWhenSome ==
  ASSUME wiring \in Wirings, UNCHANGED wiring, nextAddress \in Nat, nextAddress' \in Nat,
         nextAddress <= nextAddress',
         \A e \in Devices : at[e] # 0 => at'[e] = at[e],
         NEW f
  PROVE  Kept(f)
BY StillRight DEF Kept

\* A device on the port of another hub may be reset.
LEMMA KeptWhenReset ==
  ASSUME wiring \in Wirings, UNCHANGED <<wiring, nextAddress>>, nextAddress \in 0 .. MaxAddress,
         NEW c \in Devices, at[c] = Off, \A e \in Devices : e # c => at'[e] = at[e],
         NEW f, f.pc \notin {"power", "reset", "status", "empty"}, CallRight(f),
         f.pc \in Addressed => c \notin Children(wiring, f.desc)
  PROVE  CallRight(f)'
<1> SUFFICES ASSUME f.pc \in Addressed PROVE CallRight(f)'
  BY DEF CallRight
<1>1. Speaks(f) /\ Reads(f) /\ Wakes(f) /\ f.desc \in Devices
  BY DEF CallRight, Speaks
<1>2. Devices' = Devices /\ \A d \in Devices : Children(wiring, d) \subseteq Devices
  BY ChildrenAre DEF Devices
<1>3. Speaks(f)'
  BY <1>1, <1>2 DEF Speaks, Off, MaxAddress
<1>4. Reads(f)'
  BY <1>1 DEF Reads, Current
<1>5. Dark(f.desc) => Dark(f.desc)'
  BY <1>1, <1>2 DEF Dark
<1>6. Ahead(f)' = Ahead(f)
  BY DEF Ahead
<1>7. f.pc = "changes" /\ PortsDark(f.desc, f.port - 1) => PortsDark(f.desc, f.port - 1)'
  <2> SUFFICES ASSUME f.pc = "changes", PortsDark(f.desc, f.port - 1)
               PROVE  PortsDark(f.desc, f.port - 1)'
    OBVIOUS
  <2>1. f.port \in DOMAIN wiring.ports[f.desc]
    BY <1>1 DEF Wakes, AtHub
  <2>2. \A q \in 1 .. f.port - 1 : q \in DOMAIN wiring.ports[f.desc]
    BY <1>1, <2>1, ChildrenAre
  <2>3. \A q \in 1 .. f.port - 1 : wiring.ports[f.desc][q] # NoDevice =>
          wiring.ports[f.desc][q] \in Devices \ {c}
    BY <1>1, <2>2, ChildrenAre
  <2> QED BY <2>3 DEF PortsDark
<1>8. Wakes(f)'
  BY <1>1, <1>5, <1>6, <1>7 DEF Wakes, AtHub
<1> QED BY <1>3, <1>4, <1>8 DEF CallRight

---------------------------------------------------------------------------
(* What becomes of the stack.                                               *)

\* The innermost call is replaced.
LEMMA ReplacedRight ==
  ASSUME Calls(stack), stack # << >>, CallsRight, NEW g, Replaced(g),
         \A f : Waiting(f) => Kept(f),
         CallRight(g)',
         g.pc \in Addressed =>
           \A i \in DOMAIN stack : i > 1 /\ stack[i].pc \in Addressed => stack[i].desc # g.desc,
         g.pc = "address" => g.desc \in Devices' /\ at'[g.desc] = 0
  PROVE  CallsRight'
<1>1. /\ DOMAIN stack' = DOMAIN stack /\ stack'[1] = g /\ Top' = g
      /\ \A i \in DOMAIN stack : i > 1 => stack'[i] = stack[i]
      /\ DOMAIN stack = 1 .. Len(stack) /\ Len(stack) \in Nat
  BY StackIs DEF Replaced, Top
<1>2. \A i \in DOMAIN stack : i = 1 \/ i > 1
  BY <1>1
<1>3. \A i \in DOMAIN stack : DOMAIN stack'[i] = DOMAIN Call
  BY <1>1, <1>2 DEF CallsRight, Replaced
<1>4. ASSUME NEW f, Waiting(f) PROVE CallRight(f)'
  <2>1. f.pc = "changes" /\ CallRight(f)
    BY <1>4 DEF Waiting, CallsRight
  <2> QED BY <1>4, <2>1 DEF Kept
<1>5. \A f : f = g \/ Waiting(f) => CallRight(f)'
  BY <1>4
<1>6. \A i \in DOMAIN stack' : stack'[i] = g \/ Waiting(stack'[i])
  BY <1>1, <1>2 DEF Waiting
<1>7. \A i \in DOMAIN stack' : CallRight(stack[i])'
  BY <1>5, <1>6
<1>8. \A i \in DOMAIN stack' : i > 1 => stack'[i].pc = "changes"
  BY <1>1 DEF CallsRight
<1>9. \A i, j \in DOMAIN stack' :
        stack'[i].pc \in Addressed /\ stack'[j].pc \in Addressed /\ stack'[i].desc = stack'[j].desc => i = j
  BY <1>1, <1>2 DEF CallsRight
<1>10. DOMAIN Call' = DOMAIN Call
  BY DEF Call
<1> QED BY <1>1, <1>3, <1>7, <1>8, <1>9, <1>10 DEF CallsRight

\* The innermost call has ended or begins again: those that wait are what they were.
LEMMA GoneRight ==
  ASSUME Calls(stack), stack # << >>, CallsRight, Gone, \A f : Waiting(f) => Kept(f)
  PROVE  CallsRight'
<1>1. PICK g : Replaced(g) /\ g.pc \notin Addressed \cup {"address"}
  BY DEF Gone
<1>2. CallRight(g)'
  BY <1>1 DEF CallRight
<1> QED BY <1>1, <1>2, ReplacedRight

\* The innermost call goes on, at the addresses there are, and at its device.
LEMMA SteppedRight ==
  ASSUME Calls(stack), stack # << >>, CallsRight, Top.pc \in Addressed,
         UNCHANGED <<wiring, at, nextAddress>>,
         \/ Gone
         \/ \E g : Replaced(g) /\ g.pc \in Addressed /\ g.desc = Top.desc /\ CallRight(g)
  PROVE  CallsRight'
<1>1. \A f : Waiting(f) => Kept(f)
  BY KeptWhenQuiet DEF Kept
<1>2. ASSUME NEW g, Replaced(g), g.pc \in Addressed, g.desc = Top.desc, CallRight(g)
      PROVE  CallsRight'
  <2>1. CallRight(g)'
    BY <1>2, KeptWhenQuiet
  <2>2. \A i \in DOMAIN stack : i > 1 /\ stack[i].pc \in Addressed => stack[i].desc # g.desc
    BY <1>2, StackIs DEF CallsRight
  <2>3. g.pc # "address"
    BY <1>2 DEF Addressed
  <2> QED BY <1>1, <1>2, <2>1, <2>2, <2>3, ReplacedRight
<1> QED BY <1>1, <1>2, GoneRight

LEMMA TopFields ==
  ASSUME Calls(stack), stack # << >>, CallsRight
  PROVE  DOMAIN Top = Fields /\ CallRight(Top) /\ DOMAIN Top = DOMAIN Call
BY StackIs, CallFields DEF CallsRight

\* A request that fails, and a call that returns.
LEMMA FailGone ==
  ASSUME Calls(stack), stack # << >>, CallsRight, NEW r, Fail(r)
  PROVE  Gone
<1> DEFINE g == [Top EXCEPT !.pc = "descriptor", !.retried = TRUE]
           h == [Top EXCEPT !.pc = "return"]
<1>1. /\ DOMAIN g = DOMAIN Call /\ g.pc = "descriptor"
      /\ DOMAIN h = DOMAIN Call /\ h.pc = "return"
  BY TopFields DEF Fields
<1>2. stack' = <<g>> \o Tail(stack) \/ stack' = <<h>> \o Tail(stack)
  BY DEF Fail, Fails, Returns
<1> HIDE DEF g, h
<1>3. "descriptor" \notin Addressed \cup {"address"} /\ "return" \notin Addressed \cup {"address"}
  BY DEF Addressed
<1> QED BY <1>1, <1>2, <1>3 DEF Gone, Replaced

\* adv_to_next_desc stops at a descriptor further on that is of the type.
LEMMA AdvToNextDescIs ==
  ASSUME NEW c \in Buffers, Len(c) \in Nat, DOMAIN c = 1 .. Len(c), NEW i \in DOMAIN c,
         NEW type \in {"interface", "endpoint"}
  PROVE  LET j == AdvToNextDesc[c][type][i]
         IN  \/ j = TooLarge
             \/ j = Spins
             \/ j \in DOMAIN c /\ j > i /\ c[j].type = type
<1> DEFINE S == {k \in i + 1 .. Len(c) + 1 :
                   \/ k = Len(c) + 1
                   \/ Offset(c, k) >= Received(c)
                   \/ c[k].type = type}
           stop == Min(S)
           here == Offset(c, stop)
           j == AdvToNextDesc[c][type][i]
<1>1. i \in Nat /\ i >= 1 /\ i <= Len(c)
  BY DEF Interfaces
<1>2. stop \in S
  <2>1. Len(c) + 1 \in S /\ S \subseteq Nat
    BY <1>1
  <2> HIDE DEF S
  <2> QED BY <2>1, LeastIsIn
<1> DEFINE found == ~(stop > Len(c) \/ here >= Received(c))
<1>3. j = IF here >= MaxConfigSize \/ (found /\ here + c[stop].length >= MaxConfigSize) THEN TooLarge
          ELSE IF found THEN stop ELSE Spins
  BY Zenon DEF AdvToNextDesc
<1>4. found => stop \in DOMAIN c /\ stop > i /\ c[stop].type = type
  <2> HIDE DEF stop
  <2> QED BY <1>1, <1>2
<1> HIDE DEF j, here, stop, found
<1>5. j = TooLarge \/ j = Spins \/ (found /\ j = stop)
  BY <1>3
<1> QED BY <1>4, <1>5 DEF j

\* The innermost call f is at a later descriptor of a type.
Further(f, type, pc) ==
  \E j \in DOMAIN f.descs : /\ j > f.ptr /\ f.descs[j].type = type
                            /\ Replaced([f EXCEPT !.ptr = j, !.pc = pc])

\* adv_to_next_desc and what follows: the call has ended, or is further on.
LEMMA AdvanceGoes ==
  ASSUME Calls(stack), stack # << >>, CallsRight,
         NEW f, DOMAIN f = Fields, f.descs \in Buffers, Len(f.descs) \in Nat,
         DOMAIN f.descs = 1 .. Len(f.descs), f.ptr \in DOMAIN f.descs,
         NEW type \in {"interface", "endpoint"}, NEW pc, Advance(f, type, pc)
  PROVE  Gone \/ Further(f, type, pc)
<1> DEFINE j == AdvToNextDesc[f.descs][type][f.ptr]
           g == [f EXCEPT !.pc = "spins"]
<1>1. \/ j = TooLarge
      \/ j = Spins
      \/ j \in DOMAIN f.descs /\ j > f.ptr /\ f.descs[j].type = type
  BY AdvToNextDescIs
<1>2. \/ j = TooLarge /\ Fail("too large")
      \/ j = Spins /\ Go(g)
      \/ j \notin {TooLarge, Spins} /\ Go([f EXCEPT !.ptr = j, !.pc = pc])
  BY DEF Advance
<1> HIDE DEF j, g
<1>3. CASE Fail("too large")
  BY <1>3, FailGone
<1>4. CASE Go(g)
  <2>1. stack' = <<g>> \o Tail(stack)
    BY <1>4 DEF Go
  <2>2. DOMAIN g = DOMAIN Call /\ g.pc = "spins"
    BY CallFields DEF g, Fields
  <2>3. "spins" \notin Addressed \cup {"address"}
    BY DEF Addressed
  <2> QED BY <2>1, <2>2, <2>3 DEF Gone, Replaced
<1>5. CASE j \notin {TooLarge, Spins} /\ Go([f EXCEPT !.ptr = j, !.pc = pc])
  <2>1. stack' = <<[f EXCEPT !.ptr = j, !.pc = pc]>> \o Tail(stack)
    BY <1>5 DEF Go
  <2>2. DOMAIN [f EXCEPT !.ptr = j, !.pc = pc] = DOMAIN Call
    BY CallFields
  <2> QED BY <1>1, <1>5, <2>1, <2>2 DEF Replaced, Further
<1> QED BY <1>2, <1>3, <1>4, <1>5

---------------------------------------------------------------------------
(* The calls after every step.                                              *)

\* What is known before a step of the walk.
LEMMA WalkIs ==
  ASSUME AddressInv, WalkInv, NEW pc, Running(pc)
  PROVE  /\ Calls(stack) /\ stack # << >> /\ Top.pc = pc /\ CallsRight /\ Shaded
         /\ wiring \in Wirings /\ DOMAIN Top = Fields /\ CallRight(Top)
         /\ nextAddress \in 0 .. MaxAddress
BY StillRunning, TopFields DEF WalkInv, EnumTyped

LEMMA GetDescriptorCalls == AddressInv /\ WalkInv /\ GetDescriptor => CallsRight'
<1> SUFFICES ASSUME AddressInv, WalkInv, GetDescriptor PROVE CallsRight'
  OBVIOUS
<1>1. Running("descriptor") /\ UNCHANGED <<wiring, at, nextAddress>>
  BY DEF GetDescriptor
<1>2. PICK r \in Outcomes(0) :
        IF r = "ok" THEN \E d \in Answering(0) : Go([Top EXCEPT !.pc = "address", !.desc = d])
                    ELSE Fail(r)
  BY DEF GetDescriptor
<1>3. \A f : Waiting(f) => Kept(f)
  BY <1>1, KeptWhenQuiet DEF Kept
<1>4. CASE r # "ok"
  BY <1>1, <1>2, <1>3, <1>4, WalkIs, FailGone, GoneRight
<1>5. CASE r = "ok"
  <2>1. PICK d \in Answering(0) : Go([Top EXCEPT !.pc = "address", !.desc = d])
    BY <1>2, <1>5
  <2>9. PICK g : g = [Top EXCEPT !.pc = "address", !.desc = d]
    OBVIOUS
  <2>2. DOMAIN g = DOMAIN Call /\ g.pc = "address" /\ g.desc = d
    BY <1>1, <2>9, WalkIs, CallFields DEF Fields
  <2>3. Replaced(g)
    BY <2>1, <2>2, <2>9 DEF Go, Replaced
  <2>4. d \in Devices' /\ at'[d] = 0
    BY <1>1 DEF Answering, Devices
  <2>5. CallRight(g)' /\ g.pc \notin Addressed
    BY <2>2 DEF CallRight, Addressed
  <2> QED BY <1>1, <1>3, <2>2, <2>3, <2>4, <2>5, WalkIs, ReplacedRight
<1> QED BY <1>4, <1>5

\* The device takes an address that nobody has; behind it everything is dark.
LEMMA SetAddressCalls == AddressInv /\ WalkInv /\ SetAddress => CallsRight' /\ Shaded'
<1> SUFFICES ASSUME AddressInv, WalkInv, SetAddress PROVE CallsRight' /\ Shaded'
  OBVIOUS
<1>1. /\ Running("address") /\ UNCHANGED wiring /\ nextAddress < MaxAddress
      /\ nextAddress' = nextAddress + 1
  BY DEF SetAddress, NewAddress
<1>2. PICK r \in Outcomes(0), taken \in SUBSET Answering(0) :
        /\ r = "ok" => taken = Answering(0)
        /\ at' = [d \in Devices |-> IF d \in taken THEN NewAddress ELSE at[d]]
        /\ IF r = "ok"
           THEN Go([Top EXCEPT !.pc = "config", !.address = NewAddress, !.config = 0])
           ELSE Fail(r)
  BY DEF SetAddress
<1>10. nextAddress \in 0 .. MaxAddress
  BY <1>1, WalkIs
<1>3. /\ Devices' = Devices /\ NewAddress = nextAddress + 1 /\ nextAddress \in Nat
      /\ NewAddress \in 1 .. MaxAddress /\ NewAddress # 0 /\ NewAddress # Off
  BY <1>1, <1>10 DEF Devices, NewAddress, MaxAddress, Off
<1>4. \A d \in Devices : at'[d] = IF d \in taken THEN NewAddress ELSE at[d]
  BY <1>2
<1>5. \A d \in taken : d \in Devices /\ at[d] = 0
  BY <1>2 DEF Answering
<1>6. \A f : Waiting(f) => Kept(f)
  <2>1. \A e \in Devices : at[e] # 0 => at'[e] = at[e]
    BY <1>4, <1>5
  <2> QED BY <1>1, <1>3, <2>1, WalkIs, KeptWhenSome
<1>7. Shaded'
  <2> SUFFICES ASSUME NEW d \in Devices, at'[d] \in {0, Off}, NEW c \in Children(wiring, d)
               PROVE  at'[c] = Off
    BY <1>1, <1>3 DEF Shaded, Dark
  <2>1. at[d] \in {0, Off}
    BY <1>3, <1>4
  <2>2. c \in Devices /\ at[c] = Off
    BY <1>1, <2>1, WalkIs, ChildrenAre DEF Shaded, Dark
  <2> QED BY <1>4, <1>5, <2>2 DEF Off
<1>8. CASE r # "ok"
  BY <1>1, <1>2, <1>6, <1>7, <1>8, WalkIs, FailGone, GoneRight
<1>9. CASE r = "ok"
  <2>11. PICK g : g = [Top EXCEPT !.pc = "config", !.address = NewAddress, !.config = 0]
    OBVIOUS
  <2>12. PICK d : d = Top.desc
    OBVIOUS
  <2>1. /\ DOMAIN g = DOMAIN Call /\ g.pc = "config" /\ g.desc = d /\ g.address = NewAddress
        /\ g.config = 0
    BY <1>1, <2>11, <2>12, WalkIs, CallFields DEF Fields
  <2>2. Replaced(g)
    BY <1>2, <1>9, <2>1, <2>11 DEF Go, Replaced
  <2>3. d \in Devices /\ at[d] = 0
    BY <1>1, <2>12, WalkIs DEF CallsRight
  <2>4. at'[d] = NewAddress
    BY <1>2, <1>4, <1>9, <2>3 DEF Answering
  <2>5. Speaks(g)'
    BY <1>1, <1>3, <2>1, <2>3, <2>4 DEF Speaks
  <2>6. Reads(g)'
    <3>1. 0 \in 0 .. Len(wiring.configs[d])
      BY <1>1, <2>3, WalkIs, ConfigsAre
    <3> QED BY <1>1, <2>1, <3>1 DEF Reads, AtHub
  <2>7. Wakes(g)'
    <3>1. Dark(d)
      BY <1>1, <2>3, WalkIs DEF Shaded
    <3>2. Dark(d)'
      <4>1. \A c \in Children(wiring, d) : c \in Devices /\ at[c] = Off
        BY <1>1, <2>3, <3>1, WalkIs, ChildrenAre DEF Dark
      <4>2. \A c \in Children(wiring, d) : at'[c] = Off
        BY <1>4, <1>5, <4>1 DEF Off
      <4> QED BY <1>1, <4>2 DEF Dark
    <3> QED BY <2>1, <3>2 DEF Wakes, AtHub
  <2>8. CallRight(g)'
    BY <2>5, <2>6, <2>7 DEF CallRight
  <2>9. \A i \in DOMAIN stack : i > 1 /\ stack[i].pc \in Addressed => stack[i].desc # d
    <3> SUFFICES ASSUME NEW i \in DOMAIN stack, stack[i].pc \in Addressed PROVE stack[i].desc # d
      OBVIOUS
    <3>1. Speaks(stack[i])
      BY <1>1, WalkIs DEF CallsRight, CallRight
    <3> QED BY <2>3, <3>1 DEF Speaks
  <2>10. g.pc # "address"
    BY <2>1
  <2> QED BY <1>1, <1>6, <1>7, <2>1, <2>2, <2>8, <2>9, <2>10, WalkIs, ReplacedRight
<1> QED BY <1>8, <1>9

\* What a call that speaks to its device knows of it.
LEMMA TopSpeaks ==
  ASSUME AddressInv, WalkInv, NEW pc \in Addressed, Running(pc)
  PROVE  /\ Speaks(Top) /\ Reads(Top) /\ Wakes(Top) /\ Top.desc \in Devices
         /\ Len(wiring.configs[Top.desc]) \in Nat
         /\ DOMAIN wiring.configs[Top.desc] = 1 .. Len(wiring.configs[Top.desc])
         /\ Len(wiring.ports[Top.desc]) \in Nat
         /\ DOMAIN wiring.ports[Top.desc] = 1 .. Len(wiring.ports[Top.desc])
         /\ Top.config \in Nat
<1>1. Speaks(Top) /\ Reads(Top) /\ Wakes(Top) /\ Top.desc \in Devices
  BY WalkIs DEF CallRight, Speaks
<1> QED BY <1>1, WalkIs, ConfigsAre, ChildrenAre DEF Reads

\* The descriptors in the buffer once a configuration has been read.
LEMMA TopReads ==
  ASSUME AddressInv, WalkInv, NEW pc \in Addressed, pc # "config", Running(pc)
  PROVE  /\ Top.config + 1 \in DOMAIN wiring.configs[Top.desc]
         /\ Top.config < Len(wiring.configs[Top.desc])
         /\ Top.descs = Current(Top) /\ Top.descs = wiring.configs[Top.desc][Top.config + 1]
         /\ Top.descs \in Buffers /\ LegalConfig(Top.descs) /\ Len(Top.descs) \in Nat
         /\ DOMAIN Top.descs = 1 .. Len(Top.descs) /\ Top.ptr \in DOMAIN Top.descs
<1>1. /\ Top.config < Len(wiring.configs[Top.desc]) /\ Top.descs = Current(Top)
      /\ Top.ptr \in DOMAIN Top.descs
  BY TopSpeaks, WalkIs DEF Reads
<1>2. Top.config + 1 \in DOMAIN wiring.configs[Top.desc]
  BY <1>1, TopSpeaks
<1>3. wiring \in Wirings /\ Top.desc \in Devices
  BY TopSpeaks, WalkIs
<1> QED BY <1>1, <1>2, <1>3, ConfigsAre DEF Current

\* Quiet steps leave the dark as it is.
LEMMA ShadedKept == UNCHANGED <<wiring, at>> /\ Shaded => Shaded'
BY DEF Shaded, Dark, Devices

LEMMA GetCfgDescCalls == AddressInv /\ WalkInv /\ GetCfgDesc => CallsRight'
<1> SUFFICES ASSUME AddressInv, WalkInv, GetCfgDesc PROVE CallsRight'
  OBVIOUS
<1>1. /\ Running("config") /\ UNCHANGED <<wiring, at, nextAddress>> /\ "config" \in Addressed
      /\ Top.config < Len(wiring.configs[Top.desc])
  BY DEF GetCfgDesc, Addressed
<1>2. PICK c : c = wiring.configs[Top.desc][Top.config + 1]
  OBVIOUS
<1>3. PICK f : f = [Top EXCEPT !.descs = c, !.ptr = 1, !.interfaces = c[1].interfaces]
  OBVIOUS
<1>4. PICK r : IF r = "ok" THEN Advance(f, "interface", "interface") ELSE Fail(r)
  BY <1>2, <1>3 DEF GetCfgDesc
<1>5. /\ Top.config + 1 \in DOMAIN wiring.configs[Top.desc]
      /\ c \in Buffers /\ Len(c) \in Nat \ {0} /\ DOMAIN c = 1 .. Len(c)
  BY <1>1, <1>2, TopSpeaks, WalkIs, ConfigsAre
<1>6. /\ DOMAIN f = Fields /\ f.descs = c /\ f.ptr = 1 /\ f.desc = Top.desc
      /\ f.address = Top.address /\ f.config = Top.config
  BY <1>1, <1>3, WalkIs DEF Fields
<1>7. CASE r # "ok"
  BY <1>1, <1>4, <1>7, WalkIs, FailGone, SteppedRight
<1>8. CASE r = "ok"
  <2>1. Gone \/ Further(f, "interface", "interface")
    <3>1. Calls(stack) /\ stack # << >> /\ CallsRight /\ Advance(f, "interface", "interface")
      BY <1>1, <1>4, <1>8, WalkIs
    <3>2. /\ f.descs \in Buffers /\ Len(f.descs) \in Nat
          /\ DOMAIN f.descs = 1 .. Len(f.descs) /\ f.ptr \in DOMAIN f.descs
      BY <1>5, <1>6
    <3> QED BY <1>6, <3>1, <3>2, AdvanceGoes
  <2>2. ASSUME NEW j \in DOMAIN f.descs, f.descs[j].type = "interface",
               NEW g, g = [f EXCEPT !.ptr = j, !.pc = "interface"]
        PROVE  g.pc \in Addressed /\ g.desc = Top.desc /\ CallRight(g)
    <3>1. /\ g.pc = "interface" /\ g.desc = Top.desc /\ g.address = Top.address
          /\ g.config = Top.config /\ g.descs = c /\ g.ptr = j
      BY <1>6, <2>2 DEF Fields
    <3>2. Speaks(g)
      BY <1>1, <3>1, TopSpeaks DEF Speaks
    <3>3. Reads(g)
      <4>1. g.config \in 0 .. Len(wiring.configs[g.desc]) /\ g.config < Len(wiring.configs[g.desc])
        BY <1>1, <3>1, TopSpeaks DEF Reads
      <4>2. g.descs = Current(g)
        BY <1>2, <3>1 DEF Current
      <4>3. g.ptr \in Interfaces(g.descs) /\ g.ptr \in DOMAIN g.descs
        BY <1>6, <2>2, <3>1 DEF Interfaces
      <4> QED BY <3>1, <4>1, <4>2, <4>3 DEF Reads, AtHub
    <3>4. Wakes(g)
      <4>1. Ahead(g) \subseteq Ahead(Top)
        BY <1>1, <3>1, WalkIs DEF Ahead
      <4>2. Ahead(Top) # {} => Dark(Top.desc)
        BY <1>1, TopSpeaks DEF Wakes
      <4> QED BY <3>1, <4>1, <4>2 DEF Wakes, AtHub
    <3> QED BY <3>1, <3>2, <3>3, <3>4 DEF CallRight, Addressed
  <2>3. \/ Gone
        \/ \E g : Replaced(g) /\ g.pc \in Addressed /\ g.desc = Top.desc /\ CallRight(g)
    BY <2>1, <2>2 DEF Further
  <2> QED BY <1>1, <2>3, WalkIs, SteppedRight
<1> QED BY <1>7, <1>8

LEMMA AllConfigsReadCalls == AddressInv /\ WalkInv /\ AllConfigsRead => CallsRight'
<1> SUFFICES ASSUME AddressInv, WalkInv, AllConfigsRead PROVE CallsRight'
  OBVIOUS
<1>1. Running("config") /\ UNCHANGED <<wiring, at, nextAddress>>
  BY DEF AllConfigsRead
<1>2. PICK g : g = [Top EXCEPT !.pc = "return"]
  OBVIOUS
<1>3. stack' = <<g>> \o Tail(stack)
  BY <1>2 DEF AllConfigsRead, Returns
<1>4. DOMAIN g = DOMAIN Call /\ g.pc = "return"
  BY <1>1, <1>2, WalkIs, CallFields DEF Fields
<1>5. Gone
  BY <1>3, <1>4 DEF Gone, Replaced, Addressed
<1>6. Top.pc \in Addressed
  BY <1>1, WalkIs DEF Addressed
<1> QED BY <1>1, <1>5, <1>6, WalkIs, SteppedRight

LEMMA IdClassDrvCalls == AddressInv /\ WalkInv /\ IdClassDrv => CallsRight'
<1> SUFFICES ASSUME AddressInv, WalkInv, IdClassDrv PROVE CallsRight'
  OBVIOUS
<1>1. /\ Running("interface") /\ UNCHANGED <<wiring, at, nextAddress>>
      /\ "interface" \in Addressed /\ Top.pc = "interface"
  BY WalkIs DEF IdClassDrv, Addressed
<1>2. PICK d : d = Top.descs[Top.ptr]
  OBVIOUS
<1>3. PICK f : f = [Top EXCEPT !.type = IdentifyClassDriver(d), !.interface = Top.ptr,
                               !.endpoints = d.endpoints, !.slot = End]
  OBVIOUS
<1>4. Advance(f, "endpoint", "configure") \/ Go([f EXCEPT !.pc = "configure"])
  BY <1>2, <1>3 DEF IdClassDrv
<1>5. /\ DOMAIN f = Fields /\ f.descs = Top.descs /\ f.ptr = Top.ptr /\ f.desc = Top.desc
      /\ f.address = Top.address /\ f.config = Top.config /\ f.interface = Top.ptr
      /\ f.type = IdentifyClassDriver(d)
  BY <1>1, <1>3, WalkIs DEF Fields
<1>6. Top.ptr \in Interfaces(Top.descs)
  BY <1>1, TopSpeaks DEF Reads
<1>7. ASSUME NEW g, g.pc = "configure", g.desc = f.desc, g.address = f.address,
             g.config = f.config, g.descs = f.descs, g.interface = f.interface, g.type = f.type,
             g.ptr \in DOMAIN f.descs, g.ptr >= f.ptr
      PROVE  g.pc \in Addressed /\ g.desc = Top.desc /\ CallRight(g)
  <2>1. Speaks(g)
    BY <1>1, <1>5, <1>7, TopSpeaks DEF Speaks
  <2>2. Reads(g)
    <3>1. g.config \in 0 .. Len(wiring.configs[g.desc]) /\ g.config < Len(wiring.configs[g.desc])
      BY <1>1, <1>5, <1>7, TopSpeaks, TopReads DEF Reads
    <3>2. g.descs = Current(g)
      BY <1>1, <1>5, <1>7, TopReads DEF Current
    <3>3. g.ptr \in DOMAIN g.descs /\ g.interface \in Interfaces(g.descs) /\ g.interface <= g.ptr
      BY <1>1, <1>5, <1>6, <1>7, TopReads
    <3>4. g.type = IdentifyClassDriver(g.descs[g.interface])
      BY <1>2, <1>5, <1>7
    <3> QED BY <1>7, <3>1, <3>2, <3>3, <3>4 DEF Reads, AtHub
  <2>3. Wakes(g)
    <3>1. Ahead(g) \subseteq Ahead(Top)
      BY <1>1, <1>5, <1>7 DEF Ahead
    <3>2. Ahead(Top) # {} => Dark(Top.desc)
      BY <1>1, TopSpeaks DEF Wakes
    <3> QED BY <1>5, <1>7, <3>1, <3>2 DEF Wakes, AtHub
  <2> QED BY <1>5, <1>7, <2>1, <2>2, <2>3 DEF CallRight, Addressed
<1>8. CASE Go([f EXCEPT !.pc = "configure"])
  <2>1. PICK g : g = [f EXCEPT !.pc = "configure"]
    OBVIOUS
  <2>2. /\ g.pc = "configure" /\ g.desc = f.desc /\ g.address = f.address /\ DOMAIN g = Fields
        /\ g.config = f.config /\ g.descs = f.descs /\ g.interface = f.interface /\ g.type = f.type
        /\ g.ptr = f.ptr
    BY <1>5, <2>1 DEF Fields
  <2>3. g.ptr \in DOMAIN f.descs /\ g.ptr >= f.ptr
    BY <1>1, <1>5, <2>2, TopReads
  <2>4. Replaced(g)
    BY <1>8, <2>1, <2>2, CallFields DEF Go, Replaced
  <2>5. g.pc \in Addressed /\ g.desc = Top.desc /\ CallRight(g)
    BY <1>7, <2>2, <2>3
  <2> QED BY <1>1, <2>4, <2>5, WalkIs, SteppedRight
<1>9. CASE Advance(f, "endpoint", "configure")
  <2>1. Gone \/ Further(f, "endpoint", "configure")
    <3>1. Calls(stack) /\ stack # << >> /\ CallsRight
      BY <1>1, WalkIs
    <3>2. /\ f.descs \in Buffers /\ Len(f.descs) \in Nat
          /\ DOMAIN f.descs = 1 .. Len(f.descs) /\ f.ptr \in DOMAIN f.descs
      BY <1>1, <1>5, TopReads
    <3>3. DOMAIN f = Fields /\ Advance(f, "endpoint", "configure")
      BY <1>5, <1>9
    <3> QED BY ONLY <3>1, <3>2, <3>3, AdvanceGoes
  <2>2. ASSUME NEW j \in DOMAIN f.descs, j > f.ptr, NEW g, g = [f EXCEPT !.ptr = j, !.pc = "configure"]
        PROVE  g.pc \in Addressed /\ g.desc = Top.desc /\ CallRight(g)
    <3>1. /\ g.pc = "configure" /\ g.desc = f.desc /\ g.address = f.address
          /\ g.config = f.config /\ g.descs = f.descs /\ g.interface = f.interface /\ g.type = f.type
          /\ g.ptr = j
      BY <1>5, <2>2 DEF Fields
    <3>2. j >= f.ptr
      BY <1>1, <1>5, <2>2, TopReads
    <3> QED BY <1>7, <2>2, <3>1, <3>2
  <2>3. \/ Gone
        \/ \E g : Replaced(g) /\ g.pc \in Addressed /\ g.desc = Top.desc /\ CallRight(g)
    BY <2>1, <2>2 DEF Further
  <2> QED BY <1>1, <2>3, WalkIs, SteppedRight
<1> QED BY <1>4, <1>8, <1>9

\* Slots aside, configure_device and the switch before it.
LEMMA CapDrvIntfCalls == AddressInv /\ WalkInv /\ CapDrvIntf => CallsRight'
<1> SUFFICES ASSUME AddressInv, WalkInv, CapDrvIntf PROVE CallsRight'
  OBVIOUS
<1>1. /\ Running("configure") /\ UNCHANGED <<wiring, at, nextAddress>>
      /\ "configure" \in Addressed /\ Top.pc = "configure"
  BY WalkIs DEF CapDrvIntf, Addressed
<1>2. \/ Fail("out of memory")
      \/ \E slot : SetConfig("hub", slot) /\ Top.type = "hub"
      \/ \E slot : SetConfig("endpoint", slot) /\ Top.type # "hub"
  <2>1. CASE Top.type = "hub"
    BY <2>1 DEF CapDrvIntf
  <2>2. CASE Top.type # "hub" /\ Top.type = "unknown"
    BY <2>2 DEF CapDrvIntf
  <2>3. CASE Top.type # "hub" /\ Top.type # "unknown"
    BY <2>3 DEF CapDrvIntf
  <2> QED BY <2>1, <2>2, <2>3
<1>3. ASSUME NEW pc, NEW slot, SetConfig(pc, slot),
             (pc = "hub" /\ Top.type = "hub") \/ (pc = "endpoint" /\ Top.type # "hub")
      PROVE  \/ Gone
             \/ \E g : Replaced(g) /\ g.pc \in Addressed /\ g.desc = Top.desc /\ CallRight(g)
  <2>1. PICK r : IF r = "ok" THEN Go([Top EXCEPT !.pc = pc, !.slot = slot]) ELSE Fail(r)
    BY <1>3 DEF SetConfig
  <2>2. CASE r # "ok"
    BY <1>1, <2>1, <2>2, WalkIs, FailGone
  <2>3. CASE r = "ok"
    <3>1. PICK g : g = [Top EXCEPT !.pc = pc, !.slot = slot]
      OBVIOUS
    <3>2. /\ DOMAIN g = DOMAIN Call /\ g.pc = pc /\ g.desc = Top.desc /\ g.address = Top.address
          /\ g.config = Top.config /\ g.descs = Top.descs /\ g.interface = Top.interface
          /\ g.type = Top.type /\ g.ptr = Top.ptr
      BY <1>1, <3>1, WalkIs, CallFields DEF Fields
    <3>3. Replaced(g)
      BY <2>1, <2>3, <3>1, <3>2 DEF Go, Replaced
    <3>4. Speaks(g)
      BY <1>1, <3>2, TopSpeaks DEF Speaks
    <3>5. /\ Top.interface \in Interfaces(Top.descs) /\ Top.interface <= Top.ptr
          /\ Top.type = IdentifyClassDriver(Top.descs[Top.interface])
      BY <1>1, TopSpeaks DEF Reads
    <3>6. Reads(g)
      <4>1. g.config \in 0 .. Len(wiring.configs[g.desc]) /\ g.config < Len(wiring.configs[g.desc])
        BY <1>1, <3>2, TopSpeaks, TopReads DEF Reads
      <4>2. g.descs = Current(g) /\ g.ptr \in DOMAIN g.descs
        BY <1>1, <3>2, TopReads DEF Current
      <4> QED BY <1>3, <3>2, <3>5, <4>1, <4>2 DEF Reads, AtHub
    <3>7. Wakes(g)
      <4>1. Ahead(Top) # {} => Dark(Top.desc)
        BY <1>1, TopSpeaks DEF Wakes
      <4>2. Ahead(g) \subseteq Ahead(Top)
        <5>1. Top.interface \in 1 .. Len(Top.descs)
          BY <1>1, <3>5, TopReads DEF Interfaces
        <5>2. ASSUME NEW h \in Hubs(wiring, Top.desc), h[1] = Top.config + 1, h[2] > Top.interface
              PROVE  h[2] >= Top.interface
          <6>1. h[2] \in DOMAIN Top.descs
            BY <1>1, <5>2, HubsAre, TopReads
          <6> QED BY <1>1, <5>1, <5>2, <6>1, TopReads
        <5> QED BY <1>1, <1>3, <3>2, <5>2 DEF Ahead
      <4>3. Top.type = "hub" => Ahead(Top) # {}
        <5> SUFFICES ASSUME Top.type = "hub" PROVE Ahead(Top) # {}
          OBVIOUS
        <5>1. <<Top.config + 1, Top.interface>> \in Hubs(wiring, Top.desc)
          BY <1>1, <3>5, TopReads, HubsAre
        <5>2. Top.interface >= Top.interface
          BY <1>1, <3>5, TopReads DEF Interfaces
        <5> QED BY <1>1, <5>1, <5>2 DEF Ahead
      <4> QED BY <1>3, <3>2, <4>1, <4>2, <4>3 DEF Wakes, AtHub
    <3>8. g.pc \in Addressed
      BY <1>3, <3>2 DEF Addressed
    <3> QED BY <3>2, <3>3, <3>4, <3>6, <3>7, <3>8 DEF CallRight
  <2> QED BY <2>2, <2>3
<1>4. Fail("out of memory") => Gone
  BY <1>1, WalkIs, FailGone
<1>5. \/ Gone
      \/ \E g : Replaced(g) /\ g.pc \in Addressed /\ g.desc = Top.desc /\ CallRight(g)
  <2>1. CASE \E slot : SetConfig("hub", slot) /\ Top.type = "hub"
    <3>1. PICK slot : SetConfig("hub", slot) /\ Top.type = "hub"
      BY <2>1
    <3>2. PICK pc : pc = "hub"
      OBVIOUS
    <3>3. SetConfig(pc, slot)
      BY <3>1, <3>2
    <3>4. (pc = "hub" /\ Top.type = "hub") \/ (pc = "endpoint" /\ Top.type # "hub")
      BY <3>1, <3>2
    <3> QED BY <1>3, <3>3, <3>4
  <2>2. CASE \E slot : SetConfig("endpoint", slot) /\ Top.type # "hub"
    <3>1. PICK slot : SetConfig("endpoint", slot) /\ Top.type # "hub"
      BY <2>2
    <3>2. PICK pc : pc = "endpoint"
      OBVIOUS
    <3>3. SetConfig(pc, slot)
      BY <3>1, <3>2
    <3>4. (pc = "hub" /\ Top.type = "hub") \/ (pc = "endpoint" /\ Top.type # "hub")
      BY <3>1, <3>2
    <3> QED BY <1>3, <3>3, <3>4
  <2> QED BY <1>2, <1>4, <2>1, <2>2
<1> QED BY <1>1, <1>5, WalkIs, SteppedRight

\* op_endpoint_next, op_interface_next and the next configuration.
LEMMA ParseEndpointCalls == AddressInv /\ WalkInv /\ ParseEndpoint => CallsRight'
<1> SUFFICES ASSUME AddressInv, WalkInv, ParseEndpoint PROVE CallsRight'
  OBVIOUS
<1>1. /\ Running("endpoint") /\ UNCHANGED <<wiring, at, nextAddress>>
      /\ "endpoint" \in Addressed /\ Top.pc = "endpoint"
  BY WalkIs DEF ParseEndpoint, Addressed
<1>2. \/ Advance([Top EXCEPT !.endpoints = @ - 1], "endpoint", "endpoint")
      \/ Advance([Top EXCEPT !.endpoints = 0, !.interfaces = @ - 1], "interface", "interface")
      \/ Go([Top EXCEPT !.pc = "config", !.config = @ + 1])
  BY DEF ParseEndpoint, InterfaceNext
<1>3. /\ Top.interface \in Interfaces(Top.descs) /\ Top.interface <= Top.ptr
      /\ Top.type = IdentifyClassDriver(Top.descs[Top.interface])
      /\ Ahead(Top) # {} => Dark(Top.desc)
      /\ Top.interface \in Nat /\ Top.ptr \in Nat
      /\ Speaks(Top)
  BY <1>1, TopSpeaks, TopReads DEF Reads, Wakes, Interfaces, AtHub
<1>4. \A h \in Hubs(wiring, Top.desc) : h[1] \in Nat /\ (h[1] = Top.config + 1 => h[2] \in Nat)
  BY <1>1, HubsAre, TopSpeaks, TopReads
<1>5. Calls(stack) /\ stack # << >> /\ CallsRight
  BY <1>1, WalkIs
<1>6. ASSUME NEW f, DOMAIN f = Fields, f.descs = Top.descs, f.ptr = Top.ptr, f.desc = Top.desc,
             f.address = Top.address, f.config = Top.config, f.interface = Top.interface,
             f.type = Top.type, NEW type \in {"interface", "endpoint"}, Advance(f, type, type)
      PROVE  \/ Gone
             \/ \E g : Replaced(g) /\ g.pc \in Addressed /\ g.desc = Top.desc /\ CallRight(g)
  <2>1. Gone \/ Further(f, type, type)
    <3>1. /\ f.descs \in Buffers /\ Len(f.descs) \in Nat
          /\ DOMAIN f.descs = 1 .. Len(f.descs) /\ f.ptr \in DOMAIN f.descs
      BY <1>1, <1>6, TopReads
    <3>2. DOMAIN f = Fields /\ Advance(f, type, type)
      BY <1>6
    <3>3. type \in {"interface", "endpoint"}
      BY <1>6
    <3> QED BY ONLY <1>5, <3>1, <3>2, <3>3, AdvanceGoes
  <2>2. ASSUME NEW j \in DOMAIN f.descs, j > f.ptr, f.descs[j].type = type,
               NEW g, g = [f EXCEPT !.ptr = j, !.pc = type]
        PROVE  g.pc \in Addressed /\ g.desc = Top.desc /\ CallRight(g)
    <3>1. /\ g.pc = type /\ g.desc = Top.desc /\ g.address = Top.address
          /\ g.config = Top.config /\ g.descs = Top.descs /\ g.interface = Top.interface
          /\ g.type = Top.type /\ g.ptr = j
      BY <1>6, <2>2 DEF Fields
    <3>2. Speaks(g)
      BY <1>3, <3>1 DEF Speaks
    <3>3. j \in DOMAIN Top.descs /\ j \in Nat /\ j > Top.interface
      BY <1>1, <1>3, <1>6, <2>2, TopReads
    <3>4. Reads(g)
      <4>1. g.config \in 0 .. Len(wiring.configs[g.desc]) /\ g.config < Len(wiring.configs[g.desc])
        BY <1>1, <3>1, TopSpeaks, TopReads DEF Reads
      <4>2. g.descs = Current(g) /\ g.ptr \in DOMAIN g.descs
        BY <1>1, <3>1, <3>3, TopReads DEF Current
      <4>3. type = "interface" => g.ptr \in Interfaces(g.descs)
        BY <1>6, <2>2, <3>1, <3>3 DEF Interfaces
      <4>4. g.interface <= g.ptr
        BY <1>3, <3>1, <3>3
      <4> QED BY <1>3, <3>1, <4>1, <4>2, <4>3, <4>4 DEF Reads, AtHub
    <3>5. Wakes(g)
      <4>1. Ahead(g) \subseteq Ahead(Top)
        BY <1>1, <1>3, <1>4, <3>1, <3>3 DEF Ahead
      <4> QED BY <1>3, <3>1, <4>1 DEF Wakes, AtHub
    <3> QED BY <3>1, <3>2, <3>4, <3>5 DEF CallRight, Addressed
  <2> QED BY <2>1, <2>2 DEF Further
<1>7. CASE Advance([Top EXCEPT !.endpoints = @ - 1], "endpoint", "endpoint")
  <2>1. PICK f : f = [Top EXCEPT !.endpoints = @ - 1]
    OBVIOUS
  <2>2. /\ DOMAIN f = Fields /\ f.descs = Top.descs /\ f.ptr = Top.ptr /\ f.desc = Top.desc
        /\ f.address = Top.address /\ f.config = Top.config /\ f.interface = Top.interface
        /\ f.type = Top.type
    BY <1>1, <2>1, WalkIs DEF Fields
  <2>3. Advance(f, "endpoint", "endpoint")
    BY <1>7, <2>1
  <2>4. \/ Gone
        \/ \E g : Replaced(g) /\ g.pc \in Addressed /\ g.desc = Top.desc /\ CallRight(g)
    BY <1>6, <2>2, <2>3
  <2> QED BY <1>1, <1>5, <2>4, SteppedRight
<1>8. CASE Advance([Top EXCEPT !.endpoints = 0, !.interfaces = @ - 1], "interface", "interface")
  <2>1. PICK f : f = [Top EXCEPT !.endpoints = 0, !.interfaces = @ - 1]
    OBVIOUS
  <2>2. /\ DOMAIN f = Fields /\ f.descs = Top.descs /\ f.ptr = Top.ptr /\ f.desc = Top.desc
        /\ f.address = Top.address /\ f.config = Top.config /\ f.interface = Top.interface
        /\ f.type = Top.type
    BY <1>1, <2>1, WalkIs DEF Fields
  <2>3. Advance(f, "interface", "interface")
    BY <1>8, <2>1
  <2>4. \/ Gone
        \/ \E g : Replaced(g) /\ g.pc \in Addressed /\ g.desc = Top.desc /\ CallRight(g)
    BY <1>6, <2>2, <2>3
  <2> QED BY <1>1, <1>5, <2>4, SteppedRight
<1>9. CASE Go([Top EXCEPT !.pc = "config", !.config = @ + 1])
  <2>1. PICK g : g = [Top EXCEPT !.pc = "config", !.config = @ + 1]
    OBVIOUS
  <2>2. /\ DOMAIN g = DOMAIN Call /\ g.pc = "config" /\ g.desc = Top.desc /\ g.address = Top.address
        /\ g.config = Top.config + 1
    BY <1>1, <2>1, WalkIs, CallFields DEF Fields
  <2>3. Replaced(g)
    BY <1>9, <2>1, <2>2 DEF Go, Replaced
  <2>4. Speaks(g)
    BY <1>3, <2>2 DEF Speaks
  <2>5. Reads(g)
    <3>1. Top.config + 1 \in 0 .. Len(wiring.configs[Top.desc])
      BY <1>1, TopReads, TopSpeaks
    <3> QED BY <2>2, <3>1 DEF Reads, AtHub
  <2>6. Wakes(g)
    <3>1. Ahead(g) \subseteq Ahead(Top)
      <4>1. Top.config \in Nat
        BY <1>1, TopSpeaks
      <4> QED BY <1>4, <2>2, <4>1 DEF Ahead
    <3> QED BY <1>3, <2>2, <3>1 DEF Wakes, AtHub
  <2>7. g.pc \in Addressed /\ CallRight(g)
    BY <2>2, <2>4, <2>5, <2>6 DEF CallRight, Addressed
  <2> QED BY <1>1, <1>5, <2>2, <2>3, <2>7, SteppedRight
<1> QED BY <1>2, <1>7, <1>8, <1>9

---------------------------------------------------------------------------
(* The calls at the ports of a hub.                                         *)

\* A call at the ports of a hub comes to no other interface of a hub.
LEMMA HubOnce ==
  ASSUME AddressInv, WalkInv, NEW pc \in AtHub, Running(pc),
         NEW g, g.desc = Top.desc, g.config = Top.config, g.interface = Top.interface,
         g.pc \in AtHub \cup {"endpoint"}
  PROVE  Ahead(g) = {} /\ Hubs(wiring, Top.desc) # {}
<1>1. pc \in Addressed /\ pc # "config" /\ pc \notin {"config", "interface"} /\ Top.pc \in AtHub /\ Top.pc = pc
  BY WalkIs DEF Addressed, AtHub
<1>2. /\ Top.interface \in Interfaces(Top.descs)
      /\ IdentifyClassDriver(Top.descs[Top.interface]) = "hub"
  BY <1>1, TopSpeaks DEF Reads
<1>3. <<Top.config + 1, Top.interface>> \in Hubs(wiring, Top.desc)
  BY <1>1, <1>2, TopReads, HubsAre
<1>4. \A h \in Hubs(wiring, Top.desc) : h = <<Top.config + 1, Top.interface>>
  BY <1>1, <1>3, TopSpeaks, WalkIs, OnePort
<1>5. ~(Top.interface > Top.interface) /\ ~(Top.config + 1 > Top.config + 1)
  BY <1>1, <1>2, TopSpeaks, TopReads DEF Interfaces
<1>6. \A h \in Hubs(wiring, Top.desc) : h[1] = Top.config + 1 /\ h[2] = Top.interface
  BY <1>4
<1> QED BY <1>3, <1>5, <1>6 DEF Ahead, AtHub

\* The call goes on at the same hub.
LEMMA HubReads ==
  ASSUME AddressInv, WalkInv, NEW pc \in AtHub, Running(pc),
         NEW g, g.desc = Top.desc, g.config = Top.config, g.interface = Top.interface,
         g.descs = Top.descs, g.ptr = Top.ptr, g.type = Top.type, g.address = Top.address,
         g.pc \in AtHub \cup {"endpoint"}
  PROVE  Speaks(g) /\ Reads(g)
<1>1. pc \in Addressed /\ pc # "config" /\ pc \notin {"config", "interface"} /\ Top.pc \in AtHub /\ Top.pc = pc
  BY WalkIs DEF Addressed, AtHub
<1>2. Speaks(g)
  BY <1>1, TopSpeaks DEF Speaks
<1>3. g.config \in 0 .. Len(wiring.configs[g.desc]) /\ g.config < Len(wiring.configs[g.desc])
  BY <1>1, TopSpeaks, TopReads DEF Reads
<1>4. g.descs = Current(g) /\ g.ptr \in DOMAIN g.descs
  BY <1>1, TopReads DEF Current
<1>5. /\ g.interface \in Interfaces(g.descs) /\ g.interface <= g.ptr /\ g.type = "hub"
      /\ g.type = IdentifyClassDriver(g.descs[g.interface])
  BY <1>1, TopSpeaks DEF Reads
<1> QED BY <1>2, <1>3, <1>4, <1>5 DEF Reads, AtHub

LEMMA HubGetDescriptorCalls == AddressInv /\ WalkInv /\ HubGetDescriptor => CallsRight'
<1> SUFFICES ASSUME AddressInv, WalkInv, HubGetDescriptor PROVE CallsRight'
  OBVIOUS
<1>1. /\ Running("hub") /\ UNCHANGED <<wiring, at, nextAddress>>
      /\ "hub" \in Addressed /\ "hub" \in AtHub /\ Top.pc = "hub"
  BY WalkIs DEF HubGetDescriptor, Addressed, AtHub
<1>2. PICK g : g = [Top EXCEPT !.pc = "power", !.port = Len(wiring.ports[Top.desc])]
  OBVIOUS
<1>3. PICK r : IF r = "ok" THEN Go(g) ELSE Fail(r)
  BY <1>2 DEF HubGetDescriptor
<1>4. /\ DOMAIN g = DOMAIN Call /\ g.pc = "power" /\ g.desc = Top.desc /\ g.address = Top.address
      /\ g.config = Top.config /\ g.descs = Top.descs /\ g.interface = Top.interface
      /\ g.type = Top.type /\ g.ptr = Top.ptr /\ g.port = Len(wiring.ports[Top.desc])
  BY <1>1, <1>2, WalkIs, CallFields DEF Fields
<1>5. g.pc \in AtHub /\ g.pc \in Addressed
  BY <1>4 DEF AtHub, Addressed
<1>6. Speaks(g) /\ Reads(g) /\ Ahead(g) = {} /\ Hubs(wiring, Top.desc) # {}
  BY <1>1, <1>4, <1>5, HubReads, HubOnce
<1>7. g.port \in DOMAIN wiring.ports[g.desc]
  <2>1. wiring.ports[Top.desc] # << >> /\ wiring.ports[Top.desc] \in Seq(Devices \cup {NoDevice})
    BY <1>1, <1>6, TopSpeaks, WalkIs, OnePort, WiringIs
  <2>2. Len(wiring.ports[Top.desc]) \in 1 .. Len(wiring.ports[Top.desc])
    BY <2>1
  <2> QED BY <1>1, <1>4, <2>2, TopSpeaks
<1>8. PortsDark(g.desc, g.port)
  <2>1. Dark(Top.desc)
    BY <1>1, TopSpeaks DEF Wakes
  <2> QED BY <1>1, <1>4, <2>1, TopSpeaks, WalkIs, ChildrenAre DEF Dark, PortsDark
<1>9. CallRight(g)
  BY <1>4, <1>6, <1>7, <1>8 DEF CallRight, Wakes
<1>10. CASE r # "ok"
  BY <1>1, <1>3, <1>10, WalkIs, FailGone, SteppedRight
<1>11. CASE r = "ok"
  <2>1. Replaced(g)
    BY <1>3, <1>4, <1>11 DEF Go, Replaced
  <2> QED BY <1>1, <1>4, <1>5, <1>9, <2>1, WalkIs, SteppedRight
<1> QED BY <1>10, <1>11

\* The port of the innermost call.
LEMMA ChildIs ==
  ASSUME AddressInv, WalkInv, NEW pc \in AtHub \ {"hub"}, Running(pc)
  PROVE  /\ Top.port \in DOMAIN wiring.ports[Top.desc] /\ Top.port \in Nat \ {0}
         /\ Child = wiring.ports[Top.desc][Top.port]
         /\ Child # NoDevice => Child \in Devices /\ Child \in Children(wiring, Top.desc)
         /\ pc \in {"power", "reset"} => /\ PortsDark(Top.desc, Top.port)
                                         /\ PortsDark(Top.desc, Top.port - 1)
                                         /\ Child # NoDevice => at[Child] = Off
         /\ pc \in {"status", "empty", "changes"} => PortsDark(Top.desc, Top.port - 1)
         /\ pc \in {"status", "empty"} => (Child # NoDevice => at[Child] \in {0, Off})
<1>1. pc \in Addressed /\ Top.pc = pc
  BY WalkIs DEF Addressed, AtHub
<1>2. Top.port \in DOMAIN wiring.ports[Top.desc] /\ Top.port \in Nat \ {0}
  BY <1>1, TopSpeaks DEF Wakes
<1>3. Child = wiring.ports[Top.desc][Top.port]
  BY DEF Child
<1>4. Child # NoDevice => Child \in Devices /\ Child \in Children(wiring, Top.desc)
  BY <1>1, <1>2, <1>3, TopSpeaks, WalkIs, ChildrenAre
<1>5. ASSUME pc \in {"power", "reset"}
      PROVE  PortsDark(Top.desc, Top.port) /\ PortsDark(Top.desc, Top.port - 1)
             /\ (Child # NoDevice => at[Child] = Off)
  <2>1. PortsDark(Top.desc, Top.port)
    BY <1>1, <1>5, TopSpeaks DEF Wakes
  <2>2. 1 .. Top.port - 1 \subseteq 1 .. Top.port /\ Top.port \in 1 .. Top.port
    BY <1>2
  <2> QED BY <1>3, <2>1, <2>2 DEF PortsDark
<1>6. pc \in {"status", "empty", "changes"} => PortsDark(Top.desc, Top.port - 1)
  BY <1>1, TopSpeaks DEF Wakes
<1>7. pc \in {"status", "empty"} => (Child # NoDevice => at[Child] \in {0, Off})
  BY <1>1, <1>3, TopSpeaks DEF Wakes
<1> QED BY <1>2, <1>3, <1>4, <1>5, <1>6, <1>7

\* What lies beneath the port is asleep, all but the device on it.
LEMMA BeneathDark ==
  ASSUME AddressInv, WalkInv, NEW pc \in {"power", "reset", "status", "empty"}, Running(pc)
  PROVE  \A e \in Beneath : /\ e \in Devices /\ at[e] \in {0, Off}
                            /\ at[e] = 0 => e = Child /\ pc \in {"status", "empty"}
<1>1. pc \in AtHub \ {"hub"}
  BY DEF AtHub
<1>2. Child # NoDevice => Child \in Devices /\ at[Child] \in {0, Off}
  BY <1>1, ChildIs
<1>3. ASSUME NEW e \in Beneath PROVE e \in Devices /\ (e = Child \/ at[e] = Off) /\ Child # NoDevice
  <2>1. Child # NoDevice /\ e \in Below(Child)
    BY <1>3 DEF Beneath
  <2> QED BY <1>2, <2>1, WalkIs, BelowDark
<1>4. pc \in {"power", "reset"} => (Child # NoDevice => at[Child] = Off)
  BY <1>1, ChildIs
<1> QED BY <1>2, <1>3, <1>4 DEF Off

\* So taking the power of a port changes nothing before the port is reset.
LEMMA PowerOffIs ==
  ASSUME AddressInv, WalkInv, NEW pc \in {"power", "reset"}, Running(pc)
  PROVE  PowerOff = at
<1>1. at \in [Devices -> 0 .. Off]
  BY DEF WalkInv, EnumTyped
<1>2. \A d \in Devices : (IF d \in Beneath THEN Off ELSE at[d]) = at[d]
  BY BeneathDark DEF Off
<1>3. at = [d \in Devices |-> at[d]]
  BY <1>1
<1> QED BY <1>2, <1>3 DEF PowerOff

LEMMA PortPowerCalls == AddressInv /\ WalkInv /\ PortPower => CallsRight' /\ UNCHANGED at
<1> SUFFICES ASSUME AddressInv, WalkInv, PortPower PROVE CallsRight' /\ UNCHANGED at
  OBVIOUS
<1>1. /\ Running("power") /\ UNCHANGED <<wiring, nextAddress>> /\ "power" \in AtHub \ {"hub"}
      /\ "power" \in Addressed /\ Top.pc = "power"
  BY WalkIs DEF PortPower, Addressed, AtHub
<1>2. PICK g : g = [Top EXCEPT !.pc = "reset"]
  OBVIOUS
<1>3. PICK r, done : at' = (IF done THEN PowerOff ELSE at) /\ IF r = "ok" THEN Go(g) ELSE Fail(r)
  BY <1>2 DEF PortPower
<1>4. at' = at
  BY <1>1, <1>3, PowerOffIs
<1>5. /\ DOMAIN g = DOMAIN Call /\ g.pc = "reset" /\ g.desc = Top.desc /\ g.address = Top.address
      /\ g.config = Top.config /\ g.descs = Top.descs /\ g.interface = Top.interface
      /\ g.type = Top.type /\ g.ptr = Top.ptr /\ g.port = Top.port
  BY <1>1, <1>2, WalkIs, CallFields DEF Fields
<1>6. g.pc \in AtHub /\ g.pc \in Addressed
  BY <1>5 DEF AtHub, Addressed
<1>7. Speaks(g) /\ Reads(g) /\ Ahead(g) = {}
  BY <1>1, <1>5, <1>6, HubReads, HubOnce
<1>8. CallRight(g)
  BY <1>1, <1>5, <1>7, ChildIs DEF CallRight, Wakes
<1>9. CASE r # "ok"
  BY <1>1, <1>3, <1>4, <1>9, WalkIs, FailGone, SteppedRight
<1>10. CASE r = "ok"
  <2>1. Replaced(g)
    BY <1>3, <1>5, <1>10 DEF Go, Replaced
  <2> QED BY <1>1, <1>4, <1>5, <1>6, <1>8, <2>1, WalkIs, SteppedRight
<1> QED BY <1>4, <1>9, <1>10

\* What of its port a call still sees when it takes the next one.
LEMMA NextPortCall ==
  ASSUME wiring \in Wirings, NEW f, f.pc \in {"empty", "changes"}, CallRight(f),
         DOMAIN f = Fields, NEW g, g = NextPort(f)
  PROVE  /\ DOMAIN g = DOMAIN Call /\ g.pc \in {"power", "endpoint"} /\ g.pc \in Addressed
         /\ g.desc = f.desc /\ CallRight(g)
<1>1. /\ Speaks(f) /\ Reads(f) /\ Wakes(f) /\ f.desc \in Devices
      /\ f.pc \in AtHub \ {"hub"} /\ f.pc \notin {"config", "interface"}
  BY DEF CallRight, Addressed, AtHub, Speaks
<1>2. /\ f.config + 1 \in DOMAIN wiring.configs[f.desc] /\ f.config \in Nat
      /\ f.descs = wiring.configs[f.desc][f.config + 1]
  BY <1>1, ConfigsAre DEF Reads, Current
<1>3. /\ f.interface \in Interfaces(f.descs) /\ f.interface <= f.ptr /\ f.type = "hub"
      /\ IdentifyClassDriver(f.descs[f.interface]) = "hub"
  BY <1>1 DEF Reads
<1>4. \A h \in Hubs(wiring, f.desc) : h = <<f.config + 1, f.interface>>
  <2>1. <<f.config + 1, f.interface>> \in Hubs(wiring, f.desc)
    BY <1>1, <1>2, <1>3, HubsAre
  <2> QED BY <1>1, <2>1, OnePort
<1>5. f.interface \in Nat
  <2>1. wiring.configs[f.desc][f.config + 1] \in Buffers
        /\ DOMAIN f.descs = 1 .. Len(f.descs) /\ Len(f.descs) \in Nat
    BY <1>1, <1>2, ConfigsAre
  <2>2. f.interface \in 1 .. Len(f.descs)
    BY <1>3, <2>1 DEF Interfaces
  <2> QED BY <2>1, <2>2
<1>6. /\ DOMAIN g = DOMAIN Call /\ g.desc = f.desc /\ g.address = f.address
      /\ g.config = f.config /\ g.descs = f.descs /\ g.interface = f.interface
      /\ g.type = f.type /\ g.ptr = f.ptr
      /\ IF f.port = 1 THEN g.pc = "endpoint" ELSE g.pc = "power" /\ g.port = f.port - 1
  <2>1. CASE f.port = 1
    <3>1. g = [f EXCEPT !.pc = "endpoint"]
      BY <2>1 DEF NextPort
    <3> QED BY <2>1, <3>1, CallFields DEF Fields
  <2>2. CASE f.port # 1
    <3>1. g = [f EXCEPT !.pc = "power", !.port = @ - 1]
      BY <2>2 DEF NextPort
    <3> QED BY <2>2, <3>1, CallFields DEF Fields
  <2> QED BY <2>1, <2>2
<1>7. Ahead(g) = {}
  <2>1. ASSUME NEW h \in Ahead(g) PROVE FALSE
    <3>1. h \in Hubs(wiring, f.desc) /\ (h[1] > f.config + 1 \/ (g.pc = "endpoint" /\ h[2] > f.interface))
      BY <1>6, <2>1 DEF Ahead
    <3>2. h[1] = f.config + 1 /\ h[2] = f.interface
      BY <1>4, <3>1
    <3> QED BY <1>2, <1>5, <3>1, <3>2
  <2> QED BY <2>1
<1>8. Speaks(g)
  BY <1>1, <1>6 DEF Speaks
<1>9. Reads(g)
  BY <1>1, <1>3, <1>6 DEF Reads, Current, AtHub
<1>10. Wakes(g)
  <2>1. f.port \in DOMAIN wiring.ports[f.desc] /\ PortsDark(f.desc, f.port - 1)
    BY <1>1 DEF Wakes
  <2>2. f.port # 1 => f.port - 1 \in DOMAIN wiring.ports[f.desc]
    BY <1>1, <2>1, ChildrenAre
  <2> QED BY <1>6, <1>7, <2>1, <2>2 DEF Wakes, AtHub
<1> QED BY <1>6, <1>8, <1>9, <1>10 DEF CallRight, Addressed

\* The device on the port wakes: nobody else is on that port.
LEMMA PortResetCalls == AddressInv /\ WalkInv /\ PortReset => CallsRight' /\ Shaded'
<1> SUFFICES ASSUME AddressInv, WalkInv, PortReset PROVE CallsRight' /\ Shaded'
  OBVIOUS
<1>1. /\ Running("reset") /\ UNCHANGED <<wiring, nextAddress>> /\ "reset" \in AtHub \ {"hub"}
      /\ "reset" \in Addressed /\ Top.pc = "reset"
  BY WalkIs DEF PortReset, Addressed, AtHub
<1>2. PICK g : g = [Top EXCEPT !.pc = "status"]
  OBVIOUS
<1>3. PICK r, done : /\ r = "ok" => done
                     /\ at' = IF done /\ Child # NoDevice THEN [PowerOff EXCEPT ![Child] = 0] ELSE at
                     /\ IF r = "ok" THEN Go(g) ELSE Fail(r)
  BY <1>2 DEF PortReset
<1>4. /\ DOMAIN g = DOMAIN Call /\ g.pc = "status" /\ g.desc = Top.desc /\ g.address = Top.address
      /\ g.config = Top.config /\ g.descs = Top.descs /\ g.interface = Top.interface
      /\ g.type = Top.type /\ g.ptr = Top.ptr /\ g.port = Top.port
  BY <1>1, <1>2, WalkIs, CallFields DEF Fields
<1>5. g.pc \in AtHub /\ g.pc \in Addressed /\ g.pc # "address"
  BY <1>4 DEF AtHub, Addressed
<1>6. Speaks(g) /\ Reads(g) /\ Ahead(g) = {}
  BY <1>1, <1>4, <1>5, HubReads, HubOnce
<1>7. /\ Top.port \in DOMAIN wiring.ports[Top.desc] /\ PortsDark(Top.desc, Top.port - 1)
      /\ Child # NoDevice => at[Child] = Off
      /\ Child = wiring.ports[Top.desc][Top.port]
  BY <1>1, ChildIs
<1>8. CASE ~(done /\ Child # NoDevice)
  <2>1. at' = at
    BY <1>3, <1>8
  <2>2. Shaded'
    BY <1>1, <2>1, WalkIs, ShadedKept
  <2>3. CASE r # "ok"
    BY <1>1, <1>3, <2>1, <2>2, <2>3, WalkIs, FailGone, SteppedRight
  <2>4. CASE r = "ok"
    <3>1. Replaced(g) /\ Child = NoDevice
      BY <1>3, <1>4, <1>8, <2>4 DEF Go, Replaced
    <3>2. CallRight(g)
      BY <1>4, <1>6, <1>7, <3>1 DEF CallRight, Wakes
    <3> QED BY <1>1, <1>4, <1>5, <2>1, <2>2, <3>1, <3>2, WalkIs, SteppedRight
  <2> QED BY <2>3, <2>4
<1>9. CASE done /\ Child # NoDevice
  <2>1. PICK c : c = Child
    OBVIOUS
  <2>2. c \in Devices /\ c \in Children(wiring, Top.desc) /\ at[c] = Off /\ c # NoDevice
    BY <1>1, <1>9, <2>1, ChildIs
  <2>3. at'[c] = 0 /\ \A e \in Devices : e # c => at'[e] = at[e]
    <3>1. at' = [at EXCEPT ![c] = 0]
      BY <1>1, <1>3, <1>9, <2>1, PowerOffIs
    <3>2. DOMAIN at = Devices
      BY DEF WalkInv, EnumTyped
    <3> QED BY <2>2, <3>1, <3>2
  <2>4. \A d \in Devices : c \in Children(wiring, d) => d = Top.desc
    <3> SUFFICES ASSUME NEW d \in Devices, c \in Children(wiring, d) PROVE d = Top.desc
      OBVIOUS
    <3>1. PICK q \in DOMAIN wiring.ports[d] : wiring.ports[d][q] = c /\ c # NoDevice
      BY <1>1, WalkIs, ChildrenAre
    <3> QED BY <1>1, <1>7, <2>1, <3>1, TopSpeaks, WalkIs, OnePort
  <2>5. at[Top.desc] \notin {0, Off} /\ Top.desc \in Devices /\ Top.desc # c
    <3>1. at[Top.desc] \in 1 .. nextAddress /\ nextAddress \in 0 .. MaxAddress /\ Top.desc \in Devices
      BY <1>1, TopSpeaks, WalkIs DEF Speaks
    <3>2. at[Top.desc] \notin {0, Off}
      BY <3>1 DEF Off, MaxAddress
    <3> QED BY <2>2, <3>1, <3>2
  <2>6. Shaded'
    <3> SUFFICES ASSUME NEW d \in Devices, at'[d] \in {0, Off}, NEW e \in Children(wiring, d)
                 PROVE  at'[e] = Off
      BY <1>1 DEF Shaded, Dark, Devices
    <3>1. at[d] \in {0, Off} /\ d # Top.desc
      BY <2>2, <2>3, <2>5
    <3>2. e \in Devices /\ at[e] = Off /\ e # c
      BY <1>1, <2>4, <3>1, WalkIs, ChildrenAre DEF Shaded, Dark
    <3> QED BY <2>3, <3>2
  <2>7. ASSUME NEW f, Waiting(f) PROVE Kept(f)
    <3>1. PICK i \in DOMAIN stack : i > 1 /\ f = stack[i]
      BY <2>7 DEF Waiting
    <3>2. f.pc = "changes" /\ CallRight(f) /\ f.desc # Top.desc
      <4>1. f.pc = "changes" /\ CallRight(f)
        BY <1>1, <3>1, WalkIs DEF CallsRight
      <4>2. 1 \in DOMAIN stack /\ Top = stack[1] /\ i # 1
        BY <1>1, <3>1, WalkIs, StackIs
      <4>3. stack[1].pc \in Addressed /\ stack[i].pc \in Addressed
        BY <1>1, <3>1, <4>1, <4>2 DEF Addressed
      <4> QED BY <1>1, <3>1, <4>1, <4>2, <4>3, WalkIs DEF CallsRight
    <3>3. f.desc \in Devices
      BY <3>2 DEF CallRight, Speaks, Addressed
    <3> QED BY <1>1, <2>2, <2>3, <2>4, <3>2, <3>3, WalkIs, KeptWhenReset DEF Kept
  <2>8. CASE r # "ok"
    BY <1>1, <1>3, <2>6, <2>7, <2>8, WalkIs, FailGone, GoneRight
  <2>9. CASE r = "ok"
    <3>1. Replaced(g)
      BY <1>3, <1>4, <2>9 DEF Go, Replaced
    <3>2. Speaks(g)'
      BY <1>1, <1>4, <1>6, <2>3, <2>5 DEF Speaks, Devices
    <3>3. Reads(g)'
      BY <1>1, <1>6 DEF Reads, Current
    <3>4. Wakes(g)'
      <4>1. Ahead(g)' = {}
        BY <1>1, <1>6 DEF Ahead
      <4>2. \A q \in 1 .. g.port - 1 : wiring.ports[g.desc][q] # NoDevice => at'[wiring.ports[g.desc][q]] = Off
        <5> SUFFICES ASSUME NEW q \in 1 .. g.port - 1, wiring.ports[g.desc][q] # NoDevice
                     PROVE  at'[wiring.ports[g.desc][q]] = Off
          OBVIOUS
        <5>1. q \in DOMAIN wiring.ports[Top.desc] /\ q # Top.port
          BY <1>1, <1>4, <1>7, TopSpeaks
        <5>2. wiring.ports[Top.desc][q] \in Devices /\ wiring.ports[Top.desc][q] # c
          BY <1>1, <1>4, <1>7, <2>1, <2>5, <5>1, WalkIs, ChildrenAre, OnePort
        <5>3. at[wiring.ports[Top.desc][q]] = Off
          BY <1>4, <1>7 DEF PortsDark
        <5> QED BY <1>4, <2>3, <5>2, <5>3
      <4>3. PortsDark(g.desc, g.port - 1)'
        BY <1>1, <4>2 DEF PortsDark
      <4>4. g.port \in DOMAIN wiring'.ports[g.desc] /\ at'[wiring'.ports[g.desc][g.port]] = 0
        BY <1>1, <1>4, <1>7, <2>1, <2>3
      <4> QED BY <1>4, <4>1, <4>3, <4>4 DEF Wakes, AtHub
    <3>5. CallRight(g)'
      BY <3>2, <3>3, <3>4 DEF CallRight
    <3>6. \A i \in DOMAIN stack : i > 1 /\ stack[i].pc \in Addressed => stack[i].desc # g.desc
      BY <1>1, <1>4, WalkIs, StackIs DEF CallsRight
    <3> QED BY <1>1, <1>4, <1>5, <2>6, <2>7, <3>1, <3>5, <3>6, WalkIs, ReplacedRight
  <2> QED BY <2>8, <2>9
<1> QED BY <1>8, <1>9

LEMMA PortStatusCalls == AddressInv /\ WalkInv /\ PortStatus => CallsRight'
<1> SUFFICES ASSUME AddressInv, WalkInv, PortStatus PROVE CallsRight'
  OBVIOUS
<1>1. /\ Running("status") /\ UNCHANGED <<wiring, at, nextAddress>> /\ "status" \in AtHub \ {"hub"}
      /\ "status" \in Addressed /\ Top.pc = "status"
  BY WalkIs DEF PortStatus, Addressed, AtHub
<1>2. \/ \E pc \in {"empty", "changes"} : Go([Top EXCEPT !.pc = pc])
      \/ \E r : Fail(r)
  BY DEF PortStatus
<1>3. CASE \E r : Fail(r)
  BY <1>1, <1>3, WalkIs, FailGone, SteppedRight
<1>4. CASE \E pc \in {"empty", "changes"} : Go([Top EXCEPT !.pc = pc])
  <2>1. PICK pc \in {"empty", "changes"} : Go([Top EXCEPT !.pc = pc])
    BY <1>4
  <2>2. PICK g : g = [Top EXCEPT !.pc = pc]
    OBVIOUS
  <2>3. /\ DOMAIN g = DOMAIN Call /\ g.pc = pc /\ g.desc = Top.desc /\ g.address = Top.address
        /\ g.config = Top.config /\ g.descs = Top.descs /\ g.interface = Top.interface
        /\ g.type = Top.type /\ g.ptr = Top.ptr /\ g.port = Top.port
    BY <1>1, <2>2, WalkIs, CallFields DEF Fields
  <2>4. g.pc \in AtHub /\ g.pc \in Addressed
    BY <2>1, <2>3 DEF AtHub, Addressed
  <2>5. Speaks(g) /\ Reads(g) /\ Ahead(g) = {}
    BY <1>1, <2>3, <2>4, HubReads, HubOnce
  <2>6. CallRight(g)
    BY <1>1, <2>1, <2>3, <2>5, ChildIs DEF CallRight, Wakes
  <2>7. Replaced(g)
    BY <2>1, <2>2, <2>3 DEF Go, Replaced
  <2> QED BY <1>1, <2>3, <2>4, <2>6, <2>7, WalkIs, SteppedRight
<1> QED BY <1>2, <1>3, <1>4

\* The device that went goes dark, if it was not dark before.
LEMMA PortEmptyCalls == AddressInv /\ WalkInv /\ PortEmpty => CallsRight' /\ Shaded'
<1> SUFFICES ASSUME AddressInv, WalkInv, PortEmpty PROVE CallsRight' /\ Shaded'
  OBVIOUS
<1>1. /\ Running("empty") /\ UNCHANGED <<wiring, nextAddress>> /\ Top.pc = "empty"
  BY WalkIs DEF PortEmpty
<1>2. PICK g : g = NextPort(Top)
  OBVIOUS
<1>3. PICK r : at' = (IF r = "ok" THEN PowerOff ELSE at) /\ IF r = "ok" THEN Go(g) ELSE Fail(r)
  BY <1>2 DEF PortEmpty, AfterPowerOff
<1>4. /\ DOMAIN g = DOMAIN Call /\ g.pc \in {"power", "endpoint"} /\ g.pc \in Addressed
      /\ g.desc = Top.desc /\ CallRight(g)
  BY <1>1, <1>2, WalkIs, NextPortCall
<1>5. \A d \in Devices : at'[d] = at[d] \/ (at[d] \in {0, Off} /\ at'[d] = Off)
  <2>1. \A d \in Devices : PowerOff[d] = at[d] \/ (at[d] \in {0, Off} /\ PowerOff[d] = Off)
    BY <1>1, BeneathDark DEF PowerOff
  <2> QED BY <1>3, <2>1
<1>6. \A d \in Devices : at[d] # 0 => at'[d] = at[d]
  BY <1>5
<1>7. nextAddress \in Nat /\ nextAddress' = nextAddress
  BY <1>1, WalkIs
<1>8. \A f : Waiting(f) => Kept(f)
  BY <1>1, <1>6, <1>7, WalkIs, KeptWhenSome
<1>9. Shaded'
  <2> SUFFICES ASSUME NEW d \in Devices, at'[d] \in {0, Off}, NEW e \in Children(wiring, d)
               PROVE  at'[e] = Off
    BY <1>1 DEF Shaded, Dark, Devices
  <2>1. at[d] \in {0, Off}
    BY <1>5
  <2>2. e \in Devices /\ at[e] = Off
    BY <1>1, <2>1, WalkIs, ChildrenAre DEF Shaded, Dark
  <2> QED BY <1>6, <2>2 DEF Off
<1>10. CASE r # "ok"
  BY <1>1, <1>3, <1>8, <1>9, <1>10, WalkIs, FailGone, GoneRight
<1>11. CASE r = "ok"
  <2>1. Replaced(g)
    BY <1>3, <1>4, <1>11 DEF Go, Replaced
  <2>2. CallRight(g)'
    BY <1>1, <1>4, <1>6, <1>7, WalkIs, StillRight
  <2>3. \A i \in DOMAIN stack : i > 1 /\ stack[i].pc \in Addressed => stack[i].desc # g.desc
    BY <1>1, <1>4, WalkIs, StackIs DEF CallsRight, Addressed
  <2> QED BY <1>1, <1>4, <1>8, <1>9, <2>1, <2>2, <2>3, WalkIs, ReplacedRight
<1> QED BY <1>10, <1>11

LEMMA PortConnectedCalls == AddressInv /\ WalkInv /\ PortConnected => CallsRight'
<1> SUFFICES ASSUME AddressInv, WalkInv, PortConnected PROVE CallsRight'
  OBVIOUS
<1>1. /\ Running("changes") /\ UNCHANGED <<wiring, at, nextAddress>> /\ Top.pc = "changes"
      /\ "changes" \in Addressed
  BY WalkIs DEF PortConnected, Addressed
<1>2. (\E r : Fail(r)) \/ stack' = <<Call>> \o stack
  BY DEF PortConnected
<1>3. CASE \E r : Fail(r)
  BY <1>1, <1>3, WalkIs, FailGone, SteppedRight
<1>4. CASE stack' = <<Call>> \o stack
  <2>1. /\ DOMAIN stack' = 1 .. Len(stack) + 1 /\ stack'[1] = Call /\ Head(stack') = Call
        /\ \A i \in DOMAIN stack : stack'[i + 1] = stack[i]
        /\ DOMAIN stack = 1 .. Len(stack) /\ Len(stack) \in Nat /\ stack[1] = Top
    BY <1>1, <1>4, WalkIs, StackIs
  <2>2. Call.pc = "descriptor" /\ Call.pc \notin Addressed /\ Call.pc # "address"
    BY DEF Call, Addressed
  <2>3. \A i \in DOMAIN stack' : i = 1 \/ (i > 1 /\ i - 1 \in DOMAIN stack /\ stack'[i] = stack[i - 1])
    <3> SUFFICES ASSUME NEW i \in DOMAIN stack', i # 1
                 PROVE  i > 1 /\ i - 1 \in DOMAIN stack /\ stack'[i] = stack[i - 1]
      OBVIOUS
    <3>1. i \in Nat /\ i > 1 /\ i - 1 \in DOMAIN stack /\ (i - 1) + 1 = i
      BY <2>1
    <3>2. stack'[(i - 1) + 1] = stack[i - 1]
      BY <2>1, <3>1
    <3> QED BY <3>1, <3>2
  <2>4. ASSUME NEW f, CallRight(f) PROVE CallRight(f)'
    BY <1>1, <2>4, KeptWhenQuiet
  <2>5. PICK c : c = Call
    OBVIOUS
  <2>6. CallRight(c)'
    BY <2>2, <2>5 DEF CallRight
  <2>7. \A i \in DOMAIN stack' : DOMAIN stack'[i] = DOMAIN Call /\ CallRight(stack[i])'
    <3> SUFFICES ASSUME NEW i \in DOMAIN stack'
                 PROVE  DOMAIN stack'[i] = DOMAIN Call /\ CallRight(stack[i])'
      OBVIOUS
    <3>1. PICK f : f = stack'[i]
      OBVIOUS
    <3>2. f = c \/ (CallRight(f) /\ DOMAIN f = DOMAIN Call)
      BY <1>1, <2>1, <2>3, <2>5, <3>1, WalkIs DEF CallsRight
    <3>3. CallRight(f)' /\ DOMAIN f = DOMAIN Call
      BY <2>4, <2>5, <2>6, <3>2
    <3> QED BY <3>1, <3>3
  <2>8. \A i \in DOMAIN stack' : i > 1 => stack'[i].pc = "changes"
    <3> SUFFICES ASSUME NEW i \in DOMAIN stack', i > 1 PROVE stack'[i].pc = "changes"
      OBVIOUS
    <3>1. i - 1 \in DOMAIN stack /\ stack'[i] = stack[i - 1]
      BY <2>1, <2>3
    <3>2. CASE i - 1 = 1
      BY <1>1, <2>1, <3>1, <3>2
    <3>3. CASE i - 1 # 1
      <4>1. i - 1 > 1
        BY <2>1, <3>1, <3>3
      <4> QED BY <1>1, <3>1, <4>1, WalkIs DEF CallsRight
    <3> QED BY <3>2, <3>3
  <2>9. \A i, j \in DOMAIN stack' :
          stack'[i].pc \in Addressed /\ stack'[j].pc \in Addressed /\ stack'[i].desc = stack'[j].desc => i = j
    <3> SUFFICES ASSUME NEW i \in DOMAIN stack', NEW j \in DOMAIN stack', stack'[i].pc \in Addressed,
                        stack'[j].pc \in Addressed, stack'[i].desc = stack'[j].desc
                 PROVE  i = j
      OBVIOUS
    <3>1. /\ i - 1 \in DOMAIN stack /\ stack'[i] = stack[i - 1]
          /\ j - 1 \in DOMAIN stack /\ stack'[j] = stack[j - 1]
      BY <2>1, <2>2, <2>3
    <3>2. i - 1 = j - 1
      BY <1>1, <3>1, WalkIs DEF CallsRight
    <3> QED BY <2>1, <3>2
  <2>10. DOMAIN Call' = DOMAIN Call /\ Top' = Call
    BY <2>1 DEF Call, Top
  <2> QED BY <2>2, <2>7, <2>8, <2>9, <2>10 DEF CallsRight
<1> QED BY <1>2, <1>3, <1>4

\* The call that waited goes on, at its own device.
LEMMA PoppedRight ==
  ASSUME Calls(stack), stack # << >>, CallsRight, UNCHANGED <<wiring, at, nextAddress>>,
         Len(stack) > 1, NEW g, stack' = <<g>> \o SubSeq(stack, 3, Len(stack)),
         DOMAIN g = DOMAIN Call, g.pc # "address", CallRight(g),
         g.pc \in Addressed => g.desc = stack[2].desc
  PROVE  CallsRight'
<1>1. /\ DOMAIN stack' = 1 .. Len(stack) - 1 /\ stack'[1] = g /\ Head(stack') = g
      /\ \A i \in DOMAIN stack' : i > 1 => stack'[i] = stack[i + 1]
      /\ DOMAIN stack = 1 .. Len(stack) /\ Len(stack) \in Nat
  BY StackIs
<1>2. ASSUME NEW i \in DOMAIN stack', i # 1
      PROVE  i > 1 /\ i + 1 \in DOMAIN stack /\ i + 1 > 2 /\ stack'[i] = stack[i + 1]
  BY <1>1, <1>2
<1>3. ASSUME NEW f, CallRight(f) PROVE CallRight(f)'
  BY <1>3, KeptWhenQuiet
<1>4. \A i \in DOMAIN stack' : DOMAIN stack'[i] = DOMAIN Call /\ CallRight(stack[i])'
  <2> SUFFICES ASSUME NEW i \in DOMAIN stack'
               PROVE  DOMAIN stack'[i] = DOMAIN Call /\ CallRight(stack[i])'
    OBVIOUS
  <2>1. PICK f : f = stack'[i]
    OBVIOUS
  <2>2. CallRight(f) /\ DOMAIN f = DOMAIN Call
    BY <1>1, <1>2, <2>1 DEF CallsRight
  <2>3. CallRight(f)'
    BY <1>3, <2>2
  <2> QED BY <2>1, <2>2, <2>3
<1>5. \A i \in DOMAIN stack' : i > 1 => stack'[i].pc = "changes"
  <2> SUFFICES ASSUME NEW i \in DOMAIN stack', i > 1 PROVE stack'[i].pc = "changes"
    OBVIOUS
  <2>1. i + 1 \in DOMAIN stack /\ i + 1 > 1 /\ stack'[i] = stack[i + 1]
    BY <1>1, <1>2
  <2> QED BY <2>1 DEF CallsRight
<1>6. \A i, j \in DOMAIN stack' :
        stack'[i].pc \in Addressed /\ stack'[j].pc \in Addressed /\ stack'[i].desc = stack'[j].desc => i = j
  <2>1. 2 \in DOMAIN stack /\ stack[2].pc = "changes" /\ stack[2].pc \in Addressed
    <3>1. 2 \in DOMAIN stack /\ 2 > 1
      BY <1>1
    <3>2. stack[2].pc = "changes"
      BY <3>1 DEF CallsRight
    <3> QED BY <3>1, <3>2 DEF Addressed
  <2>2. \A i \in DOMAIN stack' : stack'[i].pc \in Addressed =>
          i + 1 \in DOMAIN stack /\ stack[i + 1].pc \in Addressed /\ stack'[i].desc = stack[i + 1].desc
    <3> SUFFICES ASSUME NEW i \in DOMAIN stack', stack'[i].pc \in Addressed
                 PROVE  i + 1 \in DOMAIN stack /\ stack[i + 1].pc \in Addressed /\ stack'[i].desc = stack[i + 1].desc
      OBVIOUS
    <3>1. CASE i = 1
      BY <1>1, <2>1, <3>1
    <3>2. CASE i # 1
      BY <1>2, <3>2
    <3> QED BY <3>1, <3>2
  <2> SUFFICES ASSUME NEW i \in DOMAIN stack', NEW j \in DOMAIN stack', stack'[i].pc \in Addressed,
                      stack'[j].pc \in Addressed, stack'[i].desc = stack'[j].desc
               PROVE  i = j
    OBVIOUS
  <2>3. i + 1 = j + 1
    <3>1. PICK m, n : m = i + 1 /\ n = j + 1
      OBVIOUS
    <3>2. /\ m \in DOMAIN stack /\ n \in DOMAIN stack /\ stack[m].pc \in Addressed
          /\ stack[n].pc \in Addressed /\ stack[m].desc = stack[n].desc
      BY <2>2, <3>1
    <3>3. m = n
      BY <3>2 DEF CallsRight
    <3> QED BY <3>1, <3>3
  <2> QED BY <1>1, <2>3
<1>7. DOMAIN Call' = DOMAIN Call /\ Top' = g
  BY <1>1 DEF Call, Top
<1> QED BY <1>4, <1>5, <1>6, <1>7 DEF CallsRight

LEMMA ReturnToHubCalls == AddressInv /\ WalkInv /\ ReturnToHub => CallsRight'
<1> SUFFICES ASSUME AddressInv, WalkInv, ReturnToHub PROVE CallsRight'
  OBVIOUS
<1>1. Running("return") /\ UNCHANGED <<wiring, at, nextAddress>> /\ Len(stack) > 1
  BY DEF ReturnToHub
<1>2. PICK hub : hub = stack[2]
  OBVIOUS
<1>3. PICK f : f = [hub EXCEPT !.pc = "changes"]
  OBVIOUS
<1>4. \/ stack' = <<NextPort(f)>> \o SubSeq(stack, 3, Len(stack))
      \/ Fails(hub, SubSeq(stack, 3, Len(stack)), result)
  BY <1>2, <1>3 DEF ReturnToHub
<1>5. hub.pc = "changes" /\ CallRight(hub) /\ DOMAIN hub = Fields /\ wiring \in Wirings
  <2>1. 2 \in DOMAIN stack /\ 2 > 1
    BY <1>1, WalkIs, StackIs
  <2> QED BY <1>1, <1>2, <2>1, WalkIs, CallFields DEF CallsRight
<1>6. CASE stack' = <<NextPort(f)>> \o SubSeq(stack, 3, Len(stack))
  <2>1. f.pc = "changes" /\ f.desc = hub.desc /\ DOMAIN f = Fields
    BY <1>3, <1>5 DEF Fields
  <2>2. CallRight(f)
    BY <1>3, <1>5 DEF CallRight, Speaks, Reads, Wakes, Ahead, Current, Fields, AtHub, Addressed
  <2>3. PICK g : g = NextPort(f)
    OBVIOUS
  <2>4. /\ DOMAIN g = DOMAIN Call /\ g.pc \in {"power", "endpoint"} /\ g.pc \in Addressed
        /\ g.desc = f.desc /\ CallRight(g)
    BY <1>5, <2>1, <2>2, <2>3, NextPortCall
  <2> QED BY <1>1, <1>2, <1>6, <2>1, <2>3, <2>4, WalkIs, PoppedRight
<1>7. CASE Fails(hub, SubSeq(stack, 3, Len(stack)), result)
  <2>1. PICK g, h : g = [hub EXCEPT !.pc = "descriptor", !.retried = TRUE] /\ h = [hub EXCEPT !.pc = "return"]
    OBVIOUS
  <2>2. /\ DOMAIN g = DOMAIN Call /\ g.pc = "descriptor"
        /\ DOMAIN h = DOMAIN Call /\ h.pc = "return"
    BY <1>5, <2>1, CallFields DEF Fields
  <2>3. \/ stack' = <<g>> \o SubSeq(stack, 3, Len(stack))
        \/ stack' = <<h>> \o SubSeq(stack, 3, Len(stack))
    BY <1>7, <2>1 DEF Fails, Returns
  <2>4. \A f_1 \in {g, h} : f_1.pc \notin Addressed \cup {"address"} /\ CallRight(f_1)
    BY <2>2 DEF Addressed, CallRight
  <2> QED BY <1>1, <2>2, <2>3, <2>4, WalkIs, PoppedRight
<1> QED BY <1>4, <1>6, <1>7

\* The bus as it is after a reset.
LEMMA FreshCalls ==
  ASSUME wiring \in Wirings, UNCHANGED wiring, stack' = << >> \/ stack' = <<Call>>,
         UNCHANGED at \/ at' = AfterBusReset(wiring), Shaded
  PROVE  CallsRight' /\ Shaded'
<1>1. Shaded'
  <2>1. CASE UNCHANGED at
    BY <2>1, ShadedKept
  <2>2. CASE at' = AfterBusReset(wiring)
    <3>1. \A d \in Devices : d # wiring.root => at'[d] = Off
      BY <2>2 DEF AfterBusReset, Devices
    <3>2. \A d \in Devices : \A c \in Children(wiring, d) : c \in Devices /\ c # wiring.root
      BY ChildrenAre, OnePort
    <3> QED BY <3>1, <3>2 DEF Shaded, Dark, Devices
  <2> QED BY <2>1, <2>2
<1>2. CASE stack' = << >>
  BY <1>1, <1>2 DEF CallsRight, Top
<1>3. CASE stack' = <<Call>>
  <2>1. DOMAIN stack' = {1} /\ stack'[1] = Call /\ Top' = Call
    BY <1>3 DEF Top
  <2>2. PICK c : c = Call
    OBVIOUS
  <2>3. c.pc = "descriptor" /\ c.pc \notin Addressed
    BY <2>2 DEF Call, Addressed
  <2>4. CallRight(c)'
    BY <2>3 DEF CallRight
  <2>5. \A i \in DOMAIN stack' : CallRight(stack[i])'
    BY <2>1, <2>2, <2>4
  <2>6. DOMAIN Call' = DOMAIN Call
    BY DEF Call
  <2> QED BY <1>1, <2>1, <2>2, <2>3, <2>5, <2>6 DEF CallsRight
<1> QED BY <1>2, <1>3

---------------------------------------------------------------------------
(* Types, and the slots that no step but two touches.                       *)

\* A request that fails although somebody could answer is paid for.
LEMMA SpendRight ==
  ASSUME AddressInv, faults \in 0 .. Faults, NEW a, a # Off, NEW r \in Outcomes(a), Spend(a, r)
  PROVE  faults' \in 0 .. Faults
<1>1. Faults \in Nat /\ faults \in Nat
  BY BoundsAssumption
<1>2. CASE r = "ok" \/ Answering(a) = {}
  BY <1>2 DEF Spend
<1>3. CASE r # "ok" /\ Answering(a) # {}
  <2>1. PICK d \in Answering(a) : Answering(a) = {d}
    <3>1. PICK d : d \in Answering(a)
      BY <1>3
    <3>2. \A e \in Answering(a) : e = d
      BY <3>1 DEF Answering, AddressInv, OneAnswers
    <3> QED BY <3>1, <3>2
  <2>2. Cardinality(Answering(a)) = 1
    BY <2>1, FS_Singleton
  <2>3. faults # 0
    BY <1>3, <2>2 DEF Outcomes
  <2>4. faults' = faults - 1
    BY <1>3 DEF Spend
  <2> QED BY <1>1, <2>3, <2>4
<1> QED BY <1>2, <1>3

\* The slots stay what they are while the devices that are awake do.
LEMMA SlotsKept ==
  ASSUME Chain, Honest, UNCHANGED <<wiring, slots>>, nextAddress \in Nat, nextAddress' \in Nat,
         nextAddress <= nextAddress',
         \A d \in Devices : at[d] \notin {0, Off} => at'[d] = at[d]
  PROVE  Chain' /\ Honest'
<1>1. Chain'
  BY DEF Chain, After
<1>2. Honest'
  <2> SUFFICES ASSUME nextAddress' < 16
               PROVE  SlotsHonest' /\ \A p \in DOMAIN slots' : slots'[p].address \in 1 .. 15
    BY DEF Honest
  <2>1. nextAddress < 16 /\ SlotsHonest /\ \A p \in DOMAIN slots : slots[p].address \in 1 .. 15
    BY DEF Honest
  <2>2. \A p \in DOMAIN slots : \A d \in Answering(slots[p].address) :
          d \in Devices' /\ at'[d] = slots'[p].address
    BY <2>1 DEF Answering, Devices, Off
  <2>3. \A p \in DOMAIN slots : \A d \in Answering(slots[p].address) : d \in Answering(slots[p].address)'
    BY <2>2 DEF Answering
  <2>4. ASSUME NEW p \in DOMAIN slots'
        PROVE  \E d \in Answering(slots[p].address)' :
                 \E n \in DOMAIN wiring'.configs[d] :
                   LET c == wiring'.configs[d][n]
                   IN  \E i \in Interfaces(c) : /\ c[i].number = slots'[p].number
                                               /\ IdentifyClassDriver(c[i]) = slots'[p].type
    <3>1. PICK d \in Answering(slots[p].address) :
                 \E n \in DOMAIN wiring.configs[d] :
                   LET c == wiring.configs[d][n]
                   IN  \E i \in Interfaces(c) : /\ c[i].number = slots[p].number
                                               /\ IdentifyClassDriver(c[i]) = slots[p].type
      BY <2>1 DEF SlotsHonest
    <3>2. d \in Answering(slots[p].address)'
      BY <2>3
    <3> QED BY <3>1, <3>2
  <2> QED BY <2>1, <2>4 DEF SlotsHonest
<1> QED BY <1>1, <1>2

\* What the types need of a step that leaves the slots.
LEMMA TypedStep ==
  ASSUME AddressInv, EnumTyped, AddressInv', phase = "enumerate", phase' = "enumerate",
         UNCHANGED <<wiring, slots, round>>, nextAddress' \in 0 .. MaxAddress,
         at' \in [Devices -> 0 .. Off], faults' \in 0 .. Faults
  PROVE  EnumTyped'
BY DEF EnumTyped, AddressInv, Devices

\* The same for a step that leaves the devices as well.
LEMMA QuietStep ==
  ASSUME AddressInv, WalkInv, AddressInv', phase = "enumerate", phase' = "enumerate",
         UNCHANGED <<wiring, at, nextAddress, slots, round>>, faults' \in 0 .. Faults, CallsRight'
  PROVE  WalkInv'
<1>1. nextAddress \in 0 .. MaxAddress /\ nextAddress \in Nat
  BY DEF WalkInv, EnumTyped, AddressInv
<1>2. EnumTyped'
  BY <1>1, TypedStep DEF WalkInv, EnumTyped
<1>3. Chain' /\ Honest'
  BY <1>1, SlotsKept DEF WalkInv
<1> QED BY <1>2, <1>3, ShadedKept DEF WalkInv

\* A device a call speaks to has an address.
LEMMA TopAddress ==
  ASSUME AddressInv, WalkInv, NEW pc \in Addressed, Running(pc)
  PROVE  Top.address \in 1 .. MaxAddress /\ Top.address # Off /\ Top.address \in Nat
<1>1. Top.address \in 1 .. nextAddress /\ nextAddress \in 0 .. MaxAddress
  BY TopSpeaks, WalkIs DEF Speaks
<1> QED BY <1>1 DEF MaxAddress, Off

LEMMA PhaseIs == ASSUME NEW pc, Running(pc) PROVE phase = "enumerate"
BY DEF Running

LEMMA QuietStepsRight ==
  ASSUME AddressInv, WalkInv, AddressInv',
         \/ GetDescriptor \/ GetCfgDesc \/ AllConfigsRead \/ IdClassDrv
         \/ HubGetDescriptor \/ PortPower \/ PortStatus \/ PortConnected \/ ReturnToHub
  PROVE  WalkInv'
<1>1. faults \in 0 .. Faults
  BY DEF WalkInv, EnumTyped
<1>2. CASE GetDescriptor
  <2>1. PICK r \in Outcomes(0) : Spend(0, r)
    BY <1>2 DEF GetDescriptor
  <2>2. faults' \in 0 .. Faults
    BY <1>1, <2>1, SpendRight DEF Off
  <2>3. CallsRight'
    BY <1>2, GetDescriptorCalls
  <2> QED BY <1>2, <2>2, <2>3, QuietStep DEF GetDescriptor, Running, bootvars
<1>3. CASE GetCfgDesc
  <2>1. PICK r \in Outcomes(Top.address) : Spend(Top.address, r)
    BY <1>3 DEF GetCfgDesc
  <2>2. Top.address # Off
    BY <1>3, TopAddress DEF GetCfgDesc, Addressed
  <2>3. faults' \in 0 .. Faults
    BY <1>1, <2>1, <2>2, SpendRight
  <2>4. CallsRight'
    BY <1>3, GetCfgDescCalls
  <2> QED BY <1>3, <2>3, <2>4, QuietStep DEF GetCfgDesc, Running, bootvars
<1>4. CASE AllConfigsRead
  BY <1>1, <1>4, AllConfigsReadCalls, QuietStep DEF AllConfigsRead, Running, bootvars
<1>5. CASE IdClassDrv
  BY <1>1, <1>5, IdClassDrvCalls, QuietStep DEF IdClassDrv, Running, bootvars
<1>6. CASE HubGetDescriptor
  <2>1. PICK r \in Outcomes(Top.address) : Spend(Top.address, r)
    BY <1>6 DEF HubGetDescriptor
  <2>2. Top.address # Off
    BY <1>6, TopAddress DEF HubGetDescriptor, Addressed
  <2>3. faults' \in 0 .. Faults
    BY <1>1, <2>1, <2>2, SpendRight
  <2>4. CallsRight'
    BY <1>6, HubGetDescriptorCalls
  <2> QED BY <1>6, <2>3, <2>4, QuietStep DEF HubGetDescriptor, Running, bootvars
<1>7. CASE PortPower
  <2>1. PICK r \in Outcomes(Top.address) : Spend(Top.address, r)
    BY <1>7 DEF PortPower
  <2>2. Top.address # Off
    BY <1>7, TopAddress DEF PortPower, Addressed
  <2>3. faults' \in 0 .. Faults
    BY <1>1, <2>1, <2>2, SpendRight
  <2>4. CallsRight' /\ UNCHANGED at
    BY <1>7, PortPowerCalls
  <2> QED BY <1>7, <2>3, <2>4, QuietStep DEF PortPower, Running, bootvars
<1>8. CASE PortStatus
  <2>1. PICK r \in Outcomes(Top.address) :
          \/ UNCHANGED faults
          \/ faults > 0 /\ faults' = faults - 1
          \/ Spend(Top.address, r)
    BY <1>8 DEF PortStatus
  <2>2. Top.address # Off
    BY <1>8, TopAddress DEF PortStatus, Addressed
  <2>3. faults' \in 0 .. Faults
    <3>1. CASE UNCHANGED faults \/ (faults > 0 /\ faults' = faults - 1)
      BY <1>1, <3>1, BoundsAssumption
    <3>2. CASE Spend(Top.address, r)
      BY <1>1, <2>2, <3>2, SpendRight
    <3> QED BY <2>1, <3>1, <3>2
  <2>4. CallsRight'
    BY <1>8, PortStatusCalls
  <2> QED BY <1>8, <2>3, <2>4, QuietStep DEF PortStatus, Running, bootvars
<1>9. CASE PortConnected
  <2>1. PICK r \in Outcomes(Top.address) : Spend(Top.address, r)
    BY <1>9 DEF PortConnected
  <2>2. Top.address # Off
    BY <1>9, TopAddress DEF PortConnected, Addressed
  <2>3. faults' \in 0 .. Faults
    BY <1>1, <2>1, <2>2, SpendRight
  <2>4. CallsRight'
    BY <1>9, PortConnectedCalls
  <2> QED BY <1>9, <2>3, <2>4, QuietStep DEF PortConnected, Running, bootvars
<1>10. CASE ReturnToHub
  BY <1>1, <1>10, ReturnToHubCalls, QuietStep DEF ReturnToHub, Running, bootvars
<1> QED BY <1>2, <1>3, <1>4, <1>5, <1>6, <1>7, <1>8, <1>9, <1>10

\* The steps that change what devices answer at.
LEMMA BusStepsRight ==
  ASSUME AddressInv, WalkInv, AddressInv', SetAddress \/ PortReset \/ PortEmpty
  PROVE  WalkInv'
<1>1. /\ faults \in 0 .. Faults /\ nextAddress \in 0 .. MaxAddress /\ nextAddress \in Nat
      /\ at \in [Devices -> 0 .. Off] /\ Chain /\ Honest /\ EnumTyped
  BY DEF WalkInv, EnumTyped, AddressInv
<1>2. ASSUME CallsRight', Shaded', phase = "enumerate", phase' = "enumerate",
             UNCHANGED <<wiring, slots, round>>, nextAddress' \in 0 .. MaxAddress,
             nextAddress <= nextAddress', at' \in [Devices -> 0 .. Off], faults' \in 0 .. Faults,
             \A d \in Devices : at[d] \notin {0, Off} => at'[d] = at[d]
      PROVE  WalkInv'
  <2>1. nextAddress' \in Nat
    BY DEF AddressInv
  <2>2. EnumTyped'
    BY <1>1, <1>2, TypedStep
  <2>3. Chain' /\ Honest'
    BY <1>1, <1>2, <2>1, SlotsKept
  <2> QED BY <1>2, <2>2, <2>3 DEF WalkInv
<1>3. CASE SetAddress
  <2>1. PICK r \in Outcomes(0), taken \in SUBSET Answering(0) :
          /\ Spend(0, r)
          /\ at' = [d \in Devices |-> IF d \in taken THEN NewAddress ELSE at[d]]
    BY <1>3 DEF SetAddress
  <2>2. faults' \in 0 .. Faults
    BY <1>1, <2>1, SpendRight DEF Off
  <2>3. CallsRight' /\ Shaded'
    BY <1>3, SetAddressCalls
  <2>4. NewAddress = nextAddress + 1 /\ nextAddress' = NewAddress /\ nextAddress < MaxAddress
    BY <1>3 DEF SetAddress, NewAddress
  <2>5. NewAddress \in 0 .. MaxAddress /\ NewAddress \in 0 .. Off /\ nextAddress <= NewAddress
    BY <1>1, <2>4 DEF MaxAddress, Off
  <2>6. at' \in [Devices -> 0 .. Off]
    BY <1>1, <2>1, <2>5
  <2>7. \A d \in Devices : at[d] \notin {0, Off} => at'[d] = at[d]
    BY <2>1 DEF Answering
  <2> QED BY <1>2, <1>3, <2>2, <2>3, <2>4, <2>5, <2>6, <2>7 DEF SetAddress, Running, bootvars
<1>4. PowerOff \in [Devices -> 0 .. Off]
  BY <1>1 DEF PowerOff, Off
<1>5. CASE PortReset
  <2>1. PICK r \in Outcomes(Top.address), done \in BOOLEAN :
          /\ Spend(Top.address, r)
          /\ at' = IF done /\ Child # NoDevice THEN [PowerOff EXCEPT ![Child] = 0] ELSE at
    BY <1>5 DEF PortReset
  <2>2. Top.address # Off /\ Running("reset") /\ "reset" \in AtHub \ {"hub"}
    BY <1>5, TopAddress DEF PortReset, Addressed, AtHub
  <2>3. faults' \in 0 .. Faults
    BY <1>1, <2>1, <2>2, SpendRight
  <2>4. CallsRight' /\ Shaded'
    BY <1>5, PortResetCalls
  <2>5. at' \in [Devices -> 0 .. Off]
    <3>1. 0 \in 0 .. Off
      BY DEF Off
    <3>2. ASSUME NEW S, NEW f \in [Devices -> S], NEW c, 0 \in S
          PROVE  [f EXCEPT ![c] = 0] \in [Devices -> S]
      BY <3>2
    <3>3. [PowerOff EXCEPT ![Child] = 0] \in [Devices -> 0 .. Off]
      BY <1>4, <3>1, <3>2
    <3> QED BY <1>1, <2>1, <3>3
  <2>6. \A d \in Devices : at[d] \notin {0, Off} => at'[d] = at[d]
    <3>1. PowerOff = at
      BY <2>2, PowerOffIs
    <3>2. Child # NoDevice => Child \in Devices /\ at[Child] = Off
      BY <2>2, ChildIs
    <3> QED BY <1>1, <2>1, <3>1, <3>2
  <2>7. /\ phase = "enumerate" /\ phase' = "enumerate" /\ nextAddress' = nextAddress
        /\ UNCHANGED <<wiring, slots, round>>
    BY <1>5 DEF PortReset, Running, bootvars
  <2> QED BY <1>1, <1>2, <2>3, <2>4, <2>5, <2>6, <2>7
<1>6. CASE PortEmpty
  <2>1. PICK r \in Outcomes(Top.address) :
          /\ Spend(Top.address, r)
          /\ at' = IF r = "ok" THEN PowerOff ELSE at
    BY <1>6 DEF PortEmpty, AfterPowerOff
  <2>2. Top.address # Off /\ Running("empty")
    BY <1>6, TopAddress DEF PortEmpty, Addressed
  <2>3. faults' \in 0 .. Faults
    BY <1>1, <2>1, <2>2, SpendRight
  <2>4. CallsRight' /\ Shaded'
    BY <1>6, PortEmptyCalls
  <2>5. at' \in [Devices -> 0 .. Off]
    BY <1>1, <1>4, <2>1
  <2>6. \A d \in Devices : at[d] \notin {0, Off} => at'[d] = at[d]
    BY <2>1, <2>2, BeneathDark DEF PowerOff
  <2>7. /\ phase = "enumerate" /\ phase' = "enumerate" /\ nextAddress' = nextAddress
        /\ UNCHANGED <<wiring, slots, round>>
    BY <1>6 DEF PortEmpty, Running, bootvars
  <2> QED BY <1>1, <1>2, <2>3, <2>4, <2>5, <2>6, <2>7
<1> QED BY <1>3, <1>5, <1>6

---------------------------------------------------------------------------
(* The work area.                                                           *)

LEMMA SizesAre ==
  /\ SlotTypes = {"floppy", "storage", "cdc", "keyboard"}
  /\ DeviceConfigSizes = StructSize
  /\ \A type \in SlotTypes : DeviceConfigSizes[type] \in {6, 12, 16}
BY DEF SlotTypes, DeviceConfigSizes, StructSize

LEMMA ClassesAre == \A d : IdentifyClassDriver(d) \in SlotTypes \cup {"hub", "unknown"}
BY SizesAre DEF IdentifyClassDriver

\* find_first_free gives the place behind the last slot.
LEMMA FreeIs ==
  ASSUME Chain, FindFirstFree # End
  PROVE  /\ FindFirstFree \in 0 .. AreaSize - 1 /\ FindFirstFree \notin DOMAIN slots
         /\ \/ FindFirstFree = 0 /\ DOMAIN slots = {}
            \/ \E q \in DOMAIN slots : After(q) = FindFirstFree /\ \A p \in DOMAIN slots : p <= q
<1> DEFINE F == FindFirstFree
           free == {p \in Places : p \notin DOMAIN slots}
<1>1. F = Min(free) /\ free # {}
  BY DEF FindFirstFree, Used
<1>2. \A p \in DOMAIN slots : p \in 0 .. AreaSize - 1 /\ p \in Nat /\ After(p) \in Nat
  BY SizesAre DEF Chain, After, AreaSize
<1>3. \A p \in Places : p < AreaSize /\ (p = 0 \/ \E q \in DOMAIN slots : After(q) = p)
  BY DEF Places
<1>4. F \in free
  <2>1. free \subseteq Nat
    BY <1>2, <1>3
  <2> HIDE DEF free
  <2> QED BY <1>1, <2>1, LeastIsIn
<1> HIDE DEF F
<1>5. F \in 0 .. AreaSize - 1 /\ F \notin DOMAIN slots
  BY <1>2, <1>3, <1>4 DEF AreaSize
<1>6. CASE F = 0
  BY <1>5, <1>6 DEF Chain, F
<1>7. CASE F # 0
  <2>1. PICK q \in DOMAIN slots : After(q) = F
    BY <1>3, <1>4, <1>7
  <2>2. \A p \in DOMAIN slots : p <= q
    <3> SUFFICES ASSUME NEW p \in DOMAIN slots, ~(p <= q) PROVE FALSE
      OBVIOUS
    <3>1. q < p
      BY <1>2
    <3> QED BY <1>5, <2>1, <3>1 DEF Chain
  <2> QED BY <1>5, <2>1, <2>2 DEF F
<1> QED BY <1>6, <1>7

\* One slot more, at the free place.
LEMMA SlotAdded ==
  ASSUME Chain, FindFirstFree # End, NEW s, s.type \in SlotTypes,
         slots' = SlotLaid(FindFirstFree, s)
  PROVE  /\ Chain'
         /\ DOMAIN slots' = DOMAIN slots \cup {FindFirstFree} /\ slots'[FindFirstFree] = s
         /\ \A p \in DOMAIN slots : slots'[p] = slots[p]
<1>1. PICK F : F = FindFirstFree
  OBVIOUS
<1>2. /\ F \in 0 .. AreaSize - 1 /\ F \notin DOMAIN slots /\ F \in Nat
      /\ \/ F = 0 /\ DOMAIN slots = {}
         \/ \E q \in DOMAIN slots : After(q) = F /\ \A p \in DOMAIN slots : p <= q
  <2>1. F \in 0 .. AreaSize - 1
    BY <1>1, FreeIs
  <2>2. F \in Nat
    BY <2>1 DEF AreaSize
  <2> QED BY <1>1, <2>1, <2>2, FreeIs
<1>3. /\ DOMAIN slots' = DOMAIN slots \cup {F} /\ slots'[F] = s
      /\ \A p \in DOMAIN slots : slots'[p] = slots[p] /\ p # F
  BY <1>1, <1>2 DEF SlotLaid
<1>4. \A p \in DOMAIN slots : p \in Nat /\ p \in 0 .. AreaSize - 1 /\ slots[p].type \in SlotTypes
                              /\ After(p) \in Nat /\ After(p) > p
                              /\ p + DeviceConfigSizes[slots'[p].type] = After(p)
  BY <1>3, SizesAre DEF Chain, After, AreaSize
<1>5. F + DeviceConfigSizes[slots'[F].type] \in Nat /\ F + DeviceConfigSizes[slots'[F].type] <= F + 16
  BY <1>2, <1>3, SizesAre
<1>6. IsFiniteSet(DOMAIN slots) /\ Cardinality(DOMAIN slots) \in Nat
  BY FS_CardinalityType DEF Chain
<1>7. IsFiniteSet(DOMAIN slots') /\ Cardinality(DOMAIN slots') = Cardinality(DOMAIN slots) + 1
  BY <1>2, <1>3, <1>6, FS_AddElement
<1>8. F <= 16 * Cardinality(DOMAIN slots)
  <2>1. CASE F = 0
    BY <1>6, <2>1
  <2>2. CASE F # 0
    BY <1>2, <2>2 DEF Chain
  <2> QED BY <2>1, <2>2
<1> DEFINE A(p) == p + DeviceConfigSizes[slots'[p].type]
<1>9. \A p \in DOMAIN slots : A(p) = After(p) /\ After(p) <= F
  <2> SUFFICES ASSUME NEW p \in DOMAIN slots PROVE A(p) = After(p) /\ After(p) <= F
    OBVIOUS
  <2>1. PICK q \in DOMAIN slots : After(q) = F /\ p <= q
    BY <1>2
  <2>2. CASE p = q
    BY <1>2, <1>4, <2>1, <2>2
  <2>3. CASE p # q
    <3>1. p < q
      BY <1>4, <2>1, <2>3
    <3>2. After(p) <= q /\ q < F
      BY <1>4, <2>1, <3>1 DEF Chain
    <3> QED BY <1>2, <1>4, <3>2
  <2> QED BY <2>2, <2>3
<1>10. A(F) \in Nat /\ A(F) <= F + 16 /\ A(F) <= 16 * Cardinality(DOMAIN slots')
  BY <1>2, <1>5, <1>6, <1>7, <1>8
<1> HIDE DEF A
<1>11. ASSUME NEW p \in DOMAIN slots'
       PROVE  /\ p \in 0 .. AreaSize - 1 /\ slots'[p].type \in SlotTypes
              /\ p = 0 \/ \E q \in DOMAIN slots' : A(q) = p
              /\ A(p) <= 16 * Cardinality(DOMAIN slots')
  <2>1. CASE p = F
    BY <1>2, <1>3, <1>9, <1>10, <2>1
  <2>2. CASE p \in DOMAIN slots
    <3>1. After(p) <= 16 * Cardinality(DOMAIN slots)
      BY <2>2 DEF Chain
    <3>2. A(p) <= 16 * Cardinality(DOMAIN slots')
      BY <1>4, <1>6, <1>7, <1>9, <2>2, <3>1
    <3>3. p = 0 \/ \E q \in DOMAIN slots' : A(q) = p
      BY <1>3, <1>9, <2>2 DEF Chain
    <3> QED BY <1>3, <1>4, <2>2, <3>2, <3>3
  <2> QED BY <1>3, <2>1, <2>2
<1>12. ASSUME NEW p \in DOMAIN slots', NEW q \in DOMAIN slots', p < q
       PROVE  A(p) \in DOMAIN slots' /\ A(p) <= q
  <2>1. CASE p = F
    <3>1. q \in DOMAIN slots /\ After(q) <= F /\ After(q) > q
      BY <1>2, <1>3, <1>4, <1>9, <1>12, <2>1
    <3> QED BY <1>2, <1>4, <1>12, <2>1, <3>1
  <2>2. CASE p \in DOMAIN slots /\ q \in DOMAIN slots
    BY <1>3, <1>9, <1>12, <2>2 DEF Chain
  <2>3. CASE p \in DOMAIN slots /\ q = F
    <3>1. After(p) \in DOMAIN slots \cup {F}
      <4>1. PICK r \in DOMAIN slots : After(r) = F /\ p <= r
        BY <1>2, <2>3
      <4>2. CASE p = r
        BY <4>1, <4>2
      <4>3. CASE p # r
        <5>1. p < r
          BY <1>4, <2>3, <4>1, <4>3
        <5> QED BY <2>3, <4>1, <5>1 DEF Chain
      <4> QED BY <4>2, <4>3
    <3> QED BY <1>3, <1>9, <2>3, <3>1
  <2> QED BY <1>3, <2>1, <2>2, <2>3
<1>13. 0 \in DOMAIN slots'
  BY <1>2, <1>3 DEF Chain
<1>14. \A p : After(p)' = A(p)
  BY DEF After, A
<1>15. Chain'
  <2>1. SlotTypes' = SlotTypes /\ AreaSize' = AreaSize
    BY DEF SlotTypes, StructSize, AreaSize
  <2>2. ASSUME NEW p \in DOMAIN slots'
        PROVE  /\ p \in 0 .. AreaSize - 1 /\ slots'[p].type \in SlotTypes
               /\ p = 0 \/ \E q \in DOMAIN slots' : After(q)' = p
               /\ After(p)' <= 16 * Cardinality(DOMAIN slots')
    BY <1>11, <1>14
  <2>3. \A p, q \in DOMAIN slots' : p < q => After(p)' \in DOMAIN slots' /\ After(p)' <= q
    BY <1>12, <1>14
  <2> QED BY <1>7, <1>13, <2>2, <2>3 DEF Chain
<1> QED BY <1>1, <1>3, <1>15

\* An interface of the device that has the address, while addresses have four bits.
IsOf(s) ==
  \E d \in Answering(s.address) : \E n \in DOMAIN wiring.configs[d] :
    LET c == wiring.configs[d][n]
    IN  \E i \in Interfaces(c) : c[i].number = s.number /\ IdentifyClassDriver(c[i]) = s.type

LEMMA HonestIs ==
  Honest <=> (nextAddress < 16 => \A p \in DOMAIN slots : IsOf(slots[p]) /\ slots[p].address \in 1 .. 15)
BY DEF Honest, SlotsHonest, IsOf

LEMMA NewSlotIs ==
  ASSUME AddressInv, WalkInv, Running("configure"), Top.type \notin {"hub", "unknown"}
  PROVE  LET s == NewSlot(Top)
         IN  /\ s.type \in SlotTypes /\ s.address \in 0 .. 15 /\ s.endpoints = NoEndpoints
             /\ nextAddress < 16 => IsOf(s) /\ s.address \in 1 .. 15
<1>1. "configure" \in Addressed /\ "configure" # "config" /\ Top.pc = "configure"
  BY WalkIs DEF Addressed
<1>2. PICK s : s = NewSlot(Top)
  OBVIOUS
<1>3. /\ s.type = Top.type /\ s.address = Top.address % 16 /\ s.endpoints = NoEndpoints
      /\ s.number = Top.descs[Top.interface].number
  BY <1>2 DEF NewSlot
<1>4. /\ Top.interface \in Interfaces(Top.descs)
      /\ Top.type = IdentifyClassDriver(Top.descs[Top.interface])
      /\ Speaks(Top)
  BY <1>1, TopSpeaks DEF Reads
<1>5. s.type \in SlotTypes
  BY <1>3, <1>4, ClassesAre
<1>6. Top.address \in 1 .. nextAddress /\ Top.address \in Nat /\ nextAddress \in Nat
  BY <1>1, <1>4, TopAddress DEF Speaks, AddressInv
<1>7. s.address \in 0 .. 15
  BY <1>3, <1>6
<1>8. ASSUME nextAddress < 16 PROVE IsOf(s) /\ s.address \in 1 .. 15
  <2>1. s.address = Top.address /\ s.address \in 1 .. 15
    BY <1>3, <1>6, <1>8
  <2>2. Top.desc \in Answering(s.address)
    BY <1>4, <2>1 DEF Speaks, Answering
  <2>3. /\ Top.config + 1 \in DOMAIN wiring.configs[Top.desc]
        /\ Top.descs = wiring.configs[Top.desc][Top.config + 1]
    BY <1>1, TopReads
  <2>4. \E i \in Interfaces(Top.descs) : /\ Top.descs[i].number = s.number
                                         /\ IdentifyClassDriver(Top.descs[i]) = s.type
    BY <1>3, <1>4
  <2> QED BY <2>1, <2>2, <2>3, <2>4 DEF IsOf
<1> QED BY <1>2, <1>3, <1>5, <1>7, <1>8

LEMMA EndpointsFit == NoEndpoints \in [DOMAIN NoEndpoints -> 0 .. 7]
BY DEF NoEndpoints

\* The slot is written, whatever becomes of the request.
LEMMA CapDrvIntfWalk == AddressInv /\ WalkInv /\ AddressInv' /\ CapDrvIntf => WalkInv'
<1> SUFFICES ASSUME AddressInv, WalkInv, AddressInv', CapDrvIntf PROVE WalkInv'
  OBVIOUS
<1>1. /\ Running("configure") /\ UNCHANGED <<wiring, at, nextAddress, round, phase>>
      /\ "configure" \in Addressed /\ phase = "enumerate"
  BY DEF CapDrvIntf, Addressed, bootvars, Running
<1>2. CallsRight'
  BY CapDrvIntfCalls
<1>3. /\ faults \in 0 .. Faults /\ EnumTyped /\ Chain /\ Honest /\ Shaded
      /\ nextAddress \in 0 .. MaxAddress /\ at \in [Devices -> 0 .. Off]
  BY DEF WalkInv, EnumTyped
<1>4. \/ UNCHANGED <<slots, faults>>
      \/ UNCHANGED slots /\ \E pc, slot : SetConfig(pc, slot)
      \/ /\ Top.type \notin {"hub", "unknown"} /\ FindFirstFree # End
         /\ slots' = SlotLaid(FindFirstFree, NewSlot(Top)) /\ \E pc, slot : SetConfig(pc, slot)
  <2>1. CASE Top.type = "hub"
    BY <2>1 DEF CapDrvIntf
  <2>2. CASE Top.type # "hub" /\ Top.type = "unknown"
    BY <2>2 DEF CapDrvIntf
  <2>3. CASE Top.type \notin {"hub", "unknown"}
    BY <2>3 DEF CapDrvIntf
  <2> QED BY <2>1, <2>2, <2>3
<1>5. faults' \in 0 .. Faults
  <2>1. ASSUME NEW pc, NEW slot, SetConfig(pc, slot) PROVE faults' \in 0 .. Faults
    <3>1. PICK r \in Outcomes(Top.address) : Spend(Top.address, r)
      BY <2>1 DEF SetConfig
    <3>2. Top.address # Off
      BY <1>1, TopAddress
    <3> QED BY <1>3, <3>1, <3>2, SpendRight
  <2> QED BY <1>3, <1>4, <2>1
<1>6. CASE UNCHANGED slots
  BY <1>1, <1>2, <1>5, <1>6, QuietStep
<1>7. CASE /\ Top.type \notin {"hub", "unknown"} /\ FindFirstFree # End
           /\ slots' = SlotLaid(FindFirstFree, NewSlot(Top))
  <2>1. PICK s : s = NewSlot(Top)
    OBVIOUS
  <2>2. /\ s.type \in SlotTypes /\ s.address \in 0 .. 15
        /\ s.endpoints \in [DOMAIN NoEndpoints -> 0 .. 7]
        /\ nextAddress < 16 => IsOf(s) /\ s.address \in 1 .. 15
    BY <1>1, <1>7, <2>1, NewSlotIs, EndpointsFit
  <2>3. /\ Chain' /\ DOMAIN slots' = DOMAIN slots \cup {FindFirstFree}
        /\ slots'[FindFirstFree] = s /\ \A p \in DOMAIN slots : slots'[p] = slots[p]
    BY <1>3, <1>7, <2>1, <2>2, SlotAdded
  <2>4. ASSUME NEW t, IsOf(t) PROVE IsOf(t)'
    BY <1>1, <2>4 DEF IsOf, Answering, Devices
  <2>5. Honest'
    <3> SUFFICES ASSUME nextAddress < 16, NEW p \in DOMAIN slots'
                 PROVE  IsOf(slots[p])' /\ slots'[p].address \in 1 .. 15
      BY <1>1 DEF Honest, SlotsHonest, IsOf
    <3>1. PICK t : t = slots'[p]
      OBVIOUS
    <3>2. IsOf(t) /\ t.address \in 1 .. 15
      BY <1>3, <2>2, <2>3, <3>1, HonestIs
    <3>3. IsOf(t)'
      BY <2>4, <3>2
    <3> QED BY <3>1, <3>2, <3>3
  <2>6. EnumTyped'
    <3>1. \A p \in DOMAIN slots' : /\ slots'[p].address \in 0 .. 15
                                   /\ slots'[p].endpoints \in [DOMAIN NoEndpoints -> 0 .. 7]
      BY <1>3, <2>2, <2>3 DEF EnumTyped
    <3>2. Devices' = Devices /\ (phase' # "enumerate") = (stack' = << >>)
      BY <1>1 DEF Devices, AddressInv
    <3> QED BY <1>1, <1>3, <1>5, <3>1, <3>2 DEF EnumTyped
  <2>7. Shaded'
    BY <1>1, <1>3, ShadedKept
  <2> QED BY <1>2, <2>3, <2>5, <2>6, <2>7 DEF WalkInv
<1> QED BY <1>4, <1>6, <1>7

\* Only the endpoints of a slot change.
LEMMA ParseEndpointWalk == AddressInv /\ WalkInv /\ AddressInv' /\ ParseEndpoint => WalkInv'
<1> SUFFICES ASSUME AddressInv, WalkInv, AddressInv', ParseEndpoint PROVE WalkInv'
  OBVIOUS
<1>1. /\ Running("endpoint") /\ UNCHANGED <<wiring, at, nextAddress, round, phase, faults>>
      /\ "endpoint" \in Addressed /\ "endpoint" # "config" /\ phase = "enumerate"
  BY DEF ParseEndpoint, Addressed, bootvars, Running
<1>2. CallsRight'
  BY ParseEndpointCalls
<1>3. /\ faults \in 0 .. Faults /\ EnumTyped /\ Chain /\ Honest /\ Shaded
      /\ nextAddress \in 0 .. MaxAddress /\ at \in [Devices -> 0 .. Off]
  BY DEF WalkInv, EnumTyped
<1>4. PICK e : e = Top.descs[Top.ptr]
  OBVIOUS
<1>5. slots' = IF ~Used(Top.slot) \/ e.type # "endpoint" THEN slots
               ELSE [slots EXCEPT ![Top.slot].endpoints =
                       [p \in DOMAIN NoEndpoints |->
                          IF p \in EndpointPlaces(Top.type, e) THEN e.number % 8 ELSE @[p]]]
  BY <1>4 DEF ParseEndpoint
<1>6. CASE slots' = slots
  BY <1>1, <1>2, <1>3, <1>6, QuietStep
<1>7. CASE ~(~Used(Top.slot) \/ e.type # "endpoint")
  <2>1. e.number \in 0 .. 255
    BY <1>1, <1>4, <1>7, TopReads DEF LegalConfig
  <2>2. e.number % 8 \in 0 .. 7
    BY <2>1
  <2>3. PICK k : k = Top.slot
    OBVIOUS
  <2>4. PICK x : x = [p \in DOMAIN NoEndpoints |->
                        IF p \in EndpointPlaces(Top.type, e) THEN e.number % 8 ELSE slots[k].endpoints[p]]
    OBVIOUS
  <2>5. k \in DOMAIN slots /\ slots' = [slots EXCEPT ![k].endpoints = x]
    BY <1>5, <1>7, <2>3, <2>4 DEF Used
  <2>6. x \in [DOMAIN NoEndpoints -> 0 .. 7]
    <3>1. slots[k].endpoints \in [DOMAIN NoEndpoints -> 0 .. 7]
      BY <1>3, <2>5 DEF EnumTyped
    <3> QED BY <2>2, <2>4, <3>1
  <2>7. /\ DOMAIN slots' = DOMAIN slots
        /\ \A p \in DOMAIN slots : p # k => slots'[p] = slots[p]
        /\ slots'[k] = [slots[k] EXCEPT !.endpoints = x]
    BY <2>5
  <2>8. \A p \in DOMAIN slots :
          /\ slots'[p].type = slots[p].type /\ slots'[p].address = slots[p].address
          /\ slots'[p].number = slots[p].number
    <3>1. /\ slots'[k].type = slots[k].type /\ slots'[k].address = slots[k].address
          /\ slots'[k].number = slots[k].number
      BY <2>7
    <3> QED BY <2>7, <3>1
  <2>9. \A p \in DOMAIN slots' : slots'[p].endpoints \in [DOMAIN NoEndpoints -> 0 .. 7]
    <3>1. slots'[k].endpoints = x \/ slots'[k].endpoints = slots[k].endpoints
      BY <2>7
    <3> QED BY <1>3, <2>5, <2>6, <2>7, <3>1 DEF EnumTyped
  <2>10. Chain'
    <3>1. \A p \in DOMAIN slots : After(p)' = After(p)
      BY <2>8 DEF After
    <3> QED BY <1>3, <2>7, <2>8, <3>1 DEF Chain
  <2>11. Honest'
    <3> SUFFICES ASSUME nextAddress < 16, NEW p \in DOMAIN slots'
                 PROVE  IsOf(slots[p])' /\ slots'[p].address \in 1 .. 15
      BY <1>1 DEF Honest, SlotsHonest, IsOf
    <3>1. PICK t : t = slots'[p]
      OBVIOUS
    <3>2. IsOf(slots[p]) /\ slots[p].address \in 1 .. 15
      BY <1>3, <2>7, HonestIs
    <3>3. IsOf(t) /\ t.address \in 1 .. 15
      BY <2>7, <2>8, <3>1, <3>2 DEF IsOf
    <3>4. IsOf(t)'
      BY <1>1, <3>3 DEF IsOf, Answering, Devices
    <3> QED BY <3>1, <3>3, <3>4
  <2>12. EnumTyped'
    <3>1. \A p \in DOMAIN slots' : slots'[p].address \in 0 .. 15
      BY <1>3, <2>7, <2>8 DEF EnumTyped
    <3>2. Devices' = Devices /\ (phase' # "enumerate") = (stack' = << >>)
      BY <1>1 DEF Devices, AddressInv
    <3> QED BY <1>1, <1>3, <2>9, <3>1, <3>2 DEF EnumTyped
  <2>13. Shaded'
    BY <1>1, <1>3, ShadedKept
  <2> QED BY <1>2, <2>10, <2>11, <2>12, <2>13 DEF WalkInv
<1> QED BY <1>5, <1>6, <1>7

\* The bus is reset, or the enumeration is over.
LEMMA EnumeratedWalk == AddressInv /\ WalkInv /\ AddressInv' /\ Enumerated => WalkInv'
<1> SUFFICES ASSUME AddressInv, WalkInv, AddressInv', Enumerated PROVE WalkInv'
  OBVIOUS
<1>1. /\ UNCHANGED <<wiring, faults>> /\ phase = "enumerate"
      /\ faults \in 0 .. Faults /\ EnumTyped /\ Chain /\ Honest /\ Shaded /\ wiring \in Wirings
      /\ nextAddress \in 0 .. MaxAddress /\ nextAddress \in Nat /\ at \in [Devices -> 0 .. Off]
      /\ Devices' = Devices
  BY DEF Enumerated, Running, WalkInv, EnumTyped, AddressInv, Devices
<1>2. CASE /\ phase' = "scsi" /\ stack' = << >>
           /\ UNCHANGED <<at, nextAddress, slots, round>>
  <2>1. CallsRight' /\ Shaded'
    BY <1>1, <1>2, FreshCalls
  <2>2. Chain' /\ Honest'
    BY <1>1, <1>2, SlotsKept
  <2>3. EnumTyped'
    BY <1>1, <1>2 DEF EnumTyped
  <2> QED BY <2>1, <2>2, <2>3 DEF WalkInv
<1>3. CASE /\ round # Rounds /\ round' = round + 1 /\ stack' = <<Call>>
           /\ at' = AfterBusReset(wiring) /\ nextAddress' = 0 /\ slots' = << >> /\ UNCHANGED phase
  <2>1. CallsRight' /\ Shaded'
    BY <1>1, <1>3, FreshCalls
  <2>2. DOMAIN slots' = {}
    BY <1>3
  <2>3. Chain'
    BY <2>2, FS_EmptySet DEF Chain
  <2>4. Honest'
    BY <2>2 DEF Honest, SlotsHonest
  <2>5. EnumTyped'
    <3>1. at' \in [Devices -> 0 .. Off]
      BY <1>3 DEF AfterBusReset, Devices, Off
    <3>2. round' \in 0 .. Rounds
      BY <1>1, <1>3, BoundsAssumption DEF EnumTyped
    <3>3. 0 \in 0 .. MaxAddress
      BY DEF MaxAddress
    <3>4. stack' # << >>
      BY <1>3
    <3> QED BY <1>1, <1>3, <2>2, <3>1, <3>2, <3>3, <3>4 DEF EnumTyped
  <2> QED BY <2>1, <2>3, <2>4, <2>5 DEF WalkInv
<1> QED BY <1>2, <1>3 DEF Enumerated

\* The drivers take their slots when the walk is over.
LEMMA DriversWalk ==
  ASSUME AddressInv, WalkInv, phase # "enumerate", phase' # "enumerate",
         UNCHANGED <<wiring, at, stack, nextAddress, slots, round, faults>>
  PROVE  WalkInv'
<1>1. /\ EnumTyped /\ Chain /\ Honest /\ Shaded /\ wiring \in Wirings /\ nextAddress \in Nat
      /\ stack = << >> /\ Devices' = Devices
  BY DEF WalkInv, EnumTyped, AddressInv, Devices
<1>2. CallsRight' /\ Shaded'
  BY <1>1, FreshCalls
<1>3. Chain' /\ Honest'
  BY <1>1, SlotsKept
<1>4. EnumTyped'
  BY <1>1 DEF EnumTyped
<1> QED BY <1>2, <1>3, <1>4 DEF WalkInv

LEMMA StutterWalk ==
  ASSUME AddressInv, WalkInv, UNCHANGED <<wiring, at, stack, nextAddress, slots, phase, round, faults>>
  PROVE  WalkInv'
<1>1. /\ EnumTyped /\ Chain /\ Honest /\ Shaded /\ nextAddress \in Nat /\ CallsRight
      /\ Devices' = Devices /\ Top' = Top
  BY DEF WalkInv, EnumTyped, AddressInv, Devices, Top
<1>2. Shaded' /\ Chain' /\ Honest'
  BY <1>1, ShadedKept, SlotsKept
<1>3. CallsRight'
  <2>1. \A i \in DOMAIN stack : DOMAIN stack[i] = DOMAIN Call /\ CallRight(stack[i])
    BY <1>1 DEF CallsRight
  <2>2. ASSUME NEW f, CallRight(f) PROVE CallRight(f)'
    BY <2>2, KeptWhenQuiet
  <2>3. \A i \in DOMAIN stack' : DOMAIN stack'[i] = DOMAIN Call /\ CallRight(stack[i])'
    <3> SUFFICES ASSUME NEW i \in DOMAIN stack'
                 PROVE  DOMAIN stack'[i] = DOMAIN Call /\ CallRight(stack[i])'
      OBVIOUS
    <3>1. PICK f : f = stack[i]
      OBVIOUS
    <3>2. CallRight(f) /\ DOMAIN f = DOMAIN Call /\ stack'[i] = f
      BY <2>1, <3>1
    <3>3. CallRight(f)'
      BY <2>2, <3>2
    <3> QED BY <3>2, <3>3
  <2>4. DOMAIN Call' = DOMAIN Call
    BY DEF Call
  <2> QED BY <1>1, <2>3, <2>4 DEF CallsRight
<1>4. EnumTyped'
  BY <1>1 DEF EnumTyped
<1> QED BY <1>2, <1>3, <1>4 DEF WalkInv

LEMMA WalkStepRight == AddressInv /\ WalkInv /\ AddressInv' /\ [EnumNext]_enumvars => WalkInv'
<1> SUFFICES ASSUME AddressInv, WalkInv, AddressInv', [EnumNext]_enumvars PROVE WalkInv'
  OBVIOUS
<1>1. CASE \/ GetDescriptor \/ GetCfgDesc \/ AllConfigsRead \/ IdClassDrv
           \/ HubGetDescriptor \/ PortPower \/ PortStatus \/ PortConnected \/ ReturnToHub
  BY <1>1, QuietStepsRight
<1>2. CASE SetAddress \/ PortReset \/ PortEmpty
  BY <1>2, BusStepsRight
<1>3. CASE CapDrvIntf \/ ParseEndpoint \/ Enumerated
  BY <1>3, CapDrvIntfWalk, ParseEndpointWalk, EnumeratedWalk
<1>4. CASE ChscsiInit \/ ChufiInit \/ KeyboardInit
  <2>1. /\ phase # "enumerate" /\ phase' # "enumerate"
        /\ UNCHANGED <<wiring, at, stack, nextAddress, slots, round, faults>>
    BY <1>4 DEF ChscsiInit, ChufiInit, KeyboardInit, NextIndex
  <2> QED BY <2>1, DriversWalk
<1>5. CASE UNCHANGED enumvars
  BY <1>5, StutterWalk DEF enumvars, bootvars
<1> QED BY <1>1, <1>2, <1>3, <1>4, <1>5 DEF EnumNext

LEMMA WalkInitRight == EnumInit => WalkInv
<1> SUFFICES ASSUME EnumInit PROVE WalkInv
  OBVIOUS
<1>1. /\ wiring \in Wirings /\ at = AfterBusReset(wiring) /\ stack = <<Call>> /\ nextAddress = 0
      /\ slots = << >> /\ phase = "enumerate" /\ round = 0 /\ faults = Faults
  BY DEF EnumInit
<1>2. EnumTyped
  <2>1. at \in [Devices -> 0 .. Off]
    BY <1>1 DEF AfterBusReset, Devices, Off
  <2>2. 0 \in 0 .. Rounds /\ Faults \in 0 .. Faults /\ 0 \in 0 .. MaxAddress
    BY BoundsAssumption DEF MaxAddress
  <2> QED BY <1>1, <2>1, <2>2 DEF EnumTyped
<1>3. Shaded
  <2>1. \A d \in Devices : d # wiring.root => at[d] = Off
    BY <1>1 DEF AfterBusReset, Devices
  <2>2. \A d \in Devices : \A c \in Children(wiring, d) : c \in Devices /\ c # wiring.root
    BY <1>1, ChildrenAre, OnePort
  <2> QED BY <2>1, <2>2 DEF Shaded, Dark
<1>4. CallsRight
  <2>1. DOMAIN stack = {1} /\ stack[1] = Call /\ Top = Call /\ Call.pc = "descriptor"
    BY <1>1 DEF Top, Call
  <2>2. Call.pc \notin Addressed
    BY <2>1 DEF Addressed
  <2> QED BY <2>1, <2>2 DEF CallsRight, CallRight
<1>5. Chain /\ Honest
  BY <1>1, FS_EmptySet DEF Chain, Honest, SlotsHonest
<1> QED BY <1>2, <1>3, <1>4, <1>5 DEF WalkInv

---------------------------------------------------------------------------
(* What the walks over the work area meet.                                  *)

\* Behind every slot but the first there is one before it that leads to it.
LEMMA LedTo ==
  ASSUME Chain, NEW p \in DOMAIN slots, p # 0
  PROVE  \E q \in DOMAIN slots : q < p /\ After(q) = p
<1>1. PICK q \in DOMAIN slots : After(q) = p
  BY DEF Chain
<1>2. q \in 0 .. AreaSize - 1 /\ DeviceConfigSizes[slots[q].type] \in {6, 12, 16}
  BY SizesAre DEF Chain
<1> QED BY <1>1, <1>2 DEF After, AreaSize

\* So the walk comes by every slot, and by the place behind each.
LEMMA PlacesMet ==
  ASSUME Chain, NEW x \in 0 .. AreaSize - 1, x = 0 \/ \E q \in DOMAIN slots : After(q) = x
  PROVE  x \in Places
<1> DEFINE Way(m) == m = [p \in 0 .. AreaSize |->
                            p = 0 \/ \E q \in DOMAIN slots : q < p /\ After(q) = p /\ m[q]]
           w == [p \in 0 .. AreaSize |-> p = 0 \/ \E q \in DOMAIN slots : q < p /\ After(q) = p]
           m0 == CHOOSE m : Way(m)
<1>1. \A p \in DOMAIN slots : p \in 0 .. AreaSize /\ p \in Nat
  BY DEF Chain, AreaSize
<1>2. Way(w)
  <2>1. \A q \in DOMAIN slots : w[q] = TRUE
    BY <1>1, LedTo
  <2>2. ASSUME NEW p \in 0 .. AreaSize
        PROVE  (p = 0 \/ \E q \in DOMAIN slots : q < p /\ After(q) = p)
                 = (p = 0 \/ \E q \in DOMAIN slots : q < p /\ After(q) = p /\ w[q])
    <3> HIDE DEF w
    <3> QED BY <2>1
  <2> QED BY <2>2, Zenon
<1>3. Way(m0)
  BY <1>2, Zenon
<1>4. \A p \in DOMAIN slots : m0[p] = TRUE
  <2> DEFINE bad == {p \in DOMAIN slots : m0[p] # TRUE}
  <2> HIDE DEF m0
  <2> SUFFICES ASSUME bad # {} PROVE FALSE
    BY DEF bad
  <2>1. PICK p \in bad : \A r \in bad : p <= r
    <3>1. bad \in SUBSET Nat
      BY <1>1
    <3> HIDE DEF bad
    <3> QED BY <3>1, LeastIsIn
  <2>2. p \in DOMAIN slots /\ p \in Nat /\ p \in 0 .. AreaSize
    BY <1>1, <2>1
  <2>3. m0[p] = (p = 0 \/ \E q \in DOMAIN slots : q < p /\ After(q) = p /\ m0[q])
    BY <1>3, <2>2, Zenon
  <2>4. ASSUME p # 0 PROVE \E q \in DOMAIN slots : q < p /\ After(q) = p /\ m0[q]
    <3>1. PICK q \in DOMAIN slots : q < p /\ After(q) = p
      BY <2>2, <2>4, LedTo
    <3>2. q \notin bad
      <4> HIDE DEF bad
      <4>1. q \in Nat
        BY <1>1
      <4>2. q \in bad => p <= q
        BY <2>1
      <4> QED BY <2>2, <3>1, <4>1, <4>2
    <3>3. m0[q] = TRUE
      BY <3>2
    <3> QED BY <3>1, <3>3
  <2>5. m0[p] = TRUE
    BY <2>3, <2>4
  <2> QED BY <2>1, <2>5
<1>5. Places = {p \in {0} \cup {After(q) : q \in DOMAIN slots} : p < AreaSize /\ m0[p]}
  BY Zenon DEF Places
<1>6. m0[x] = TRUE
  <2> HIDE DEF m0
  <2>1. x \in 0 .. AreaSize /\ x \in Nat
    BY DEF AreaSize
  <2>2. m0[x] = (x = 0 \/ \E q \in DOMAIN slots : q < x /\ After(q) = x /\ m0[q])
    BY <1>3, <2>1, Zenon
  <2>3. ASSUME x # 0 PROVE \E q \in DOMAIN slots : q < x /\ After(q) = x /\ m0[q]
    <3>1. PICK q \in DOMAIN slots : After(q) = x
      BY <2>3
    <3>2. q \in Nat /\ DeviceConfigSizes[slots[q].type] \in {6, 12, 16}
      BY <1>1, SizesAre DEF Chain
    <3>3. q < x
      BY <3>1, <3>2 DEF After
    <3> QED BY <1>4, <3>1, <3>3
  <2> QED BY <2>2, <2>3
<1>7. x < AreaSize /\ x \in {0} \cup {After(q) : q \in DOMAIN slots}
  BY DEF AreaSize
<1> QED BY <1>5, <1>6, <1>7

LEMMA AllMet == ASSUME Chain PROVE Met = DOMAIN slots
<1>1. \A p \in DOMAIN slots : p \in 0 .. AreaSize - 1 /\ (p = 0 \/ \E q \in DOMAIN slots : After(q) = p)
  BY DEF Chain
<1>2. DOMAIN slots \subseteq Places
  BY <1>1, PlacesMet
<1> QED BY <1>2 DEF Met, Used

LEMMA WalkAlways == EnumSpec => [](AddressInv /\ WalkInv)
<1>1. EnumInit => AddressInv /\ WalkInv
  BY InitRight, WalkInitRight
<1>2. AddressInv /\ WalkInv /\ [EnumNext]_enumvars => AddressInv' /\ WalkInv'
  BY AddressStepRight, WalkStepRight
<1> QED BY <1>1, <1>2, PTL DEF EnumSpec

\* For any tree of hubs and devices and whichever requests fail, every variable has
\* its type: above all the slots lie inside the area of device_configs, each
\* has the type of one of the four drivers, and its endpoints fit in the three bits
\* they have there.
THEOREM EnumTypesRight == EnumSpec => []EnumTypeOK
<1>1. DriveInv => keyboard \in 0 .. MaxNumberOfDevices
  <2> SUFFICES ASSUME DriveInv PROVE keyboard \in 0 .. MaxNumberOfDevices
    OBVIOUS
  <2>1. PICK k : k = Have({"keyboard"}, MaxNumberOfDevices)
    OBVIOUS
  <2>2. k \subseteq 1 .. MaxNumberOfDevices
    BY <2>1 DEF Have
  <2>3. keyboard = 0 \/ (k # {} /\ keyboard = Min(k))
    BY <2>1 DEF DriveInv
  <2>4. CASE keyboard = 0
    BY <2>4 DEF MaxNumberOfDevices
  <2>5. CASE k # {} /\ keyboard = Min(k)
    <3>1. k \in SUBSET Nat /\ k # {}
      BY <2>2, <2>5 DEF MaxNumberOfDevices
    <3>2. Min(k) \in k /\ \A x \in k : Min(k) <= x
      BY <3>1, LeastIsIn
    <3>3. keyboard \in k
      BY <2>5, <3>2, Zenon
    <3> QED BY <2>2, <3>3 DEF MaxNumberOfDevices
  <2> QED BY <2>3, <2>4, <2>5
<1>2. WalkInv /\ DriveInv => EnumTypeOK
  <2> SUFFICES ASSUME WalkInv, DriveInv PROVE EnumTypeOK
    OBVIOUS
  <2>1. /\ wiring \in Wirings /\ at \in [Devices -> 0 .. Off] /\ nextAddress \in 0 .. MaxAddress
        /\ (phase # "enumerate") = (stack = << >>) /\ round \in 0 .. Rounds /\ faults \in 0 .. Faults
    BY DEF WalkInv, EnumTyped
  <2>2. \A i \in DOMAIN stack : DOMAIN stack[i] = DOMAIN Call
    BY DEF WalkInv, CallsRight
  <2>3. \A p \in DOMAIN slots :
          /\ p \in 0 .. AreaSize - 1 /\ slots[p].type \in SlotTypes /\ slots[p].address \in 0 .. 15
          /\ slots[p].endpoints \in [DOMAIN NoEndpoints -> 0 .. 7]
    BY DEF WalkInv, EnumTyped, Chain
  <2>4. /\ phase \in {"enumerate", "scsi", "ufi", "keyboard", "up"}
        /\ index \in 1 .. MaxNumberOfDevices
    BY DEF DriveInv, Numbers
  <2> QED BY <1>1, <2>1, <2>2, <2>3, <2>4 DEF EnumTypeOK
<1> QED BY <1>2, WalkAlways, DriveInitRight, DriveStepRight, PTL DEF EnumSpec

\* For any tree of hubs and devices, also after stalls and enumerations cut short: up
\* to six slots lie apart and inside the work area, the walks of usb_state.c meet
\* every one of them, and each is of an interface of the device at its address.
THEOREM SlotsAreRight == EnumSpec => []SlotsRight
<1>1. Chain => SlotsApart
  <2> SUFFICES ASSUME Chain, Cardinality(DOMAIN slots) <= MaxNumberOfDevices
               PROVE  /\ \A p, q \in DOMAIN slots : p < q => p + StructSize[slots[p].type] <= q
                      /\ \A p \in DOMAIN slots : p + StructSize[slots[p].type] <= AreaSize
                      /\ CountOfDevices = Cardinality(DOMAIN slots)
    BY DEF SlotsApart
  <2>1. \A p \in DOMAIN slots : After(p) = p + StructSize[slots[p].type]
    BY SizesAre DEF After
  <2>2. \A p, q \in DOMAIN slots : p < q => After(p) <= q
    BY DEF Chain
  <2>3. Cardinality(DOMAIN slots) \in Nat
    BY FS_CardinalityType DEF Chain
  <2>4. \A p \in DOMAIN slots : After(p) <= AreaSize
    <3> SUFFICES ASSUME NEW p \in DOMAIN slots PROVE After(p) <= AreaSize
      OBVIOUS
    <3>1. After(p) <= 16 * Cardinality(DOMAIN slots) /\ After(p) \in Nat
      BY SizesAre DEF Chain, After, AreaSize
    <3> QED BY <2>3, <3>1 DEF AreaSize, MaxNumberOfDevices
  <2>5. CountOfDevices = Cardinality(DOMAIN slots)
    BY AllMet DEF CountOfDevices
  <2> QED BY <2>1, <2>2, <2>4, <2>5
<1>2. WalkInv => SlotsRight
  BY <1>1 DEF WalkInv, Honest, SlotsRight, SlotsHonest
<1> QED BY <1>2, WalkAlways, PTL

---------------------------------------------------------------------------
(* Where the descriptors lie.                                               *)

\* The places of the first n descriptors of c.
Sums(m, c, n) == m = [k \in 1 .. n |-> IF k = 1 THEN 0 ELSE m[k - 1] + c[k - 1].length]

LEMMA SumsLonger ==
  ASSUME NEW c, NEW n \in Nat, NEW m, Sums(m, c, n)
  PROVE  \E w : Sums(w, c, n + 1)
<1> DEFINE last == IF n + 1 = 1 THEN 0 ELSE m[n] + c[n].length
           w == [k \in 1 .. n + 1 |-> IF k = n + 1 THEN last ELSE m[k]]
<1>1. \A k \in 1 .. n : m[k] = IF k = 1 THEN 0 ELSE m[k - 1] + c[k - 1].length
  BY Zenon DEF Sums
<1>2. ASSUME NEW k \in 1 .. n + 1
      PROVE  w[k] = IF k = 1 THEN 0 ELSE w[k - 1] + c[k - 1].length
  <2>1. CASE k = n + 1
    <3>1. w[k] = last
      BY <2>1
    <3>2. k # 1 => w[k - 1] = m[n] /\ k - 1 = n
      BY <2>1
    <3> HIDE DEF w
    <3> QED BY <2>1, <3>1, <3>2
  <2>2. CASE k # n + 1
    <3>1. k \in 1 .. n /\ w[k] = m[k]
      BY <2>2
    <3>2. k # 1 => w[k - 1] = m[k - 1]
      BY <2>2
    <3> HIDE DEF w
    <3> QED BY <1>1, <3>1, <3>2
  <2> QED BY <2>1, <2>2
<1>3. w = [k \in 1 .. n + 1 |-> IF k = 1 THEN 0 ELSE w[k - 1] + c[k - 1].length]
  <2>1. w = [k \in 1 .. n + 1 |-> w[k]]
    OBVIOUS
  <2> HIDE DEF w
  <2> QED BY <1>2, <2>1, Zenon
<1> HIDE DEF w
<1> QED BY <1>3 DEF Sums

LEMMA SumsExist == ASSUME NEW c, NEW n \in Nat PROVE \E m : Sums(m, c, n)
<1> DEFINE bad == {k \in Nat : ~\E m : Sums(m, c, k)}
<1> SUFFICES ASSUME bad # {} PROVE FALSE
  OBVIOUS
<1>1. PICK k \in bad : \A x \in bad : k <= x
  <2>1. bad \in SUBSET Nat
    OBVIOUS
  <2> HIDE DEF bad
  <2> QED BY <2>1, LeastIsIn
<1>2. k # 0
  <2>1. Sums(<< >>, c, 0)
    BY DEF Sums
  <2> QED BY <2>1
<1>3. k - 1 \in Nat /\ k - 1 < k /\ (k - 1) + 1 = k
  BY <1>2
<1>4. \E m : Sums(m, c, k - 1)
  <2>1. k - 1 \notin bad
    <3> HIDE DEF bad
    <3> QED BY <1>1, <1>3
  <2> QED BY <1>3, <2>1
<1>5. \E m : Sums(m, c, k)
  BY <1>3, <1>4, SumsLonger
<1> QED BY <1>5

\* A descriptor begins where the one before it ends.
LEMMA OffsetIs ==
  ASSUME NEW c, Len(c) \in Nat
  PROVE  /\ Offset(c, 1) = 0
         /\ \A k \in 1 .. Len(c) : Offset(c, k + 1) = Offset(c, k) + c[k].length
<1> DEFINE n == Len(c) + 1
           m0 == CHOOSE m : Sums(m, c, n)
<1>1. Sums(m0, c, n)
  <2>1. n \in Nat
    OBVIOUS
  <2> HIDE DEF n
  <2> QED BY <2>1, SumsExist, Zenon
<1>2. \A i : Offset(c, i) = m0[i]
  BY Zenon DEF Offset, Sums
<1>3. \A k \in 1 .. n : m0[k] = IF k = 1 THEN 0 ELSE m0[k - 1] + c[k - 1].length
  BY <1>1, Zenon DEF Sums
<1> HIDE DEF m0
<1>4. ASSUME NEW k \in 1 .. Len(c) PROVE m0[k + 1] = m0[k] + c[k].length
  <2>1. k + 1 \in 1 .. n /\ k + 1 # 1 /\ (k + 1) - 1 = k
    OBVIOUS
  <2> QED BY <1>3, <2>1
<1>5. m0[1] = 0
  BY <1>3
<1> QED BY <1>2, <1>4, <1>5

LEMMA LengthIs ==
  ASSUME NEW c, LegalConfig(c), NEW i \in DOMAIN c
  PROVE  c[i].length \in Nat /\ c[i].length >= 2
<1>1. c[i].length \in 2 .. 255
  BY Zenon DEF LegalConfig
<1> QED BY <1>1

\* So of two of them the later lies behind the earlier.
LEMMA OffsetsGrow ==
  ASSUME NEW c, LegalConfig(c), Len(c) \in Nat, DOMAIN c = 1 .. Len(c)
  PROVE  \A k \in 1 .. Len(c) + 1 :
           /\ Offset(c, k) \in Nat
           /\ \A j \in 1 .. k - 1 : Offset(c, j) \in Nat /\ Offset(c, j) < Offset(c, k)
<1> DEFINE right(k) == /\ Offset(c, k) \in Nat
                       /\ \A j \in 1 .. k - 1 : Offset(c, j) \in Nat /\ Offset(c, j) < Offset(c, k)
           bad == {k \in 1 .. Len(c) + 1 : ~right(k)}
<1> SUFFICES ASSUME bad # {} PROVE FALSE
  OBVIOUS
<1>1. PICK k \in bad : \A x \in bad : k <= x
  <2>1. bad \in SUBSET Nat
    OBVIOUS
  <2> HIDE DEF bad
  <2> QED BY <2>1, LeastIsIn
<1>2. k \in 1 .. Len(c) + 1
  OBVIOUS
<1>3. Offset(c, 1) = 0 /\ \A i \in 1 .. Len(c) : Offset(c, i + 1) = Offset(c, i) + c[i].length
  BY OffsetIs
<1>4. CASE k = 1
  <2>1. right(1)
    BY <1>3
  <2> QED BY <1>4, <2>1
<1>5. CASE k # 1
  <2>1. PICK i \in 1 .. Len(c) : k = i + 1
    BY <1>2, <1>5
  <2>2. right(i)
    <3>1. i \in 1 .. Len(c) + 1 /\ i < k /\ i \notin bad
      <4> HIDE DEF bad
      <4> QED BY <1>1, <2>1
    <3> QED BY <3>1
  <2>3. c[i].length \in Nat /\ c[i].length >= 2
    BY <2>1, LengthIs
  <2>4. Offset(c, k) = Offset(c, i) + c[i].length
    BY <1>3, <2>1
  <2>5. Offset(c, k) \in Nat /\ Offset(c, i) \in Nat /\ Offset(c, i) < Offset(c, k)
    BY <2>2, <2>3, <2>4
  <2>6. \A j \in 1 .. k - 1 : j = i \/ j \in 1 .. i - 1
    BY <2>1
  <2>7. ASSUME NEW j \in 1 .. k - 1 PROVE Offset(c, j) \in Nat /\ Offset(c, j) < Offset(c, k)
    <3>1. CASE j = i
      BY <2>5, <3>1
    <3>2. CASE j \in 1 .. i - 1
      <4>1. Offset(c, j) \in Nat /\ Offset(c, j) < Offset(c, i)
        BY <2>2, <3>2
      <4> QED BY <2>5, <4>1
    <3> QED BY <2>6, <3>1, <3>2
  <2>8. right(k)
    BY <2>5, <2>7
  <2> QED BY <2>8
<1> QED BY <1>4, <1>5

\* A configuration that fits in the buffer.
FitsBuffer(c) == Offset(c, Len(c) + 1) < MaxConfigSize

\* All of it is received.
LEMMA ReceivedIs ==
  ASSUME NEW c, LegalConfig(c), Len(c) \in Nat, DOMAIN c = 1 .. Len(c), FitsBuffer(c)
  PROVE  Received(c) = Offset(c, Len(c) + 1)
<1> DEFINE n == Len(c) + 1
           total == Offset(c, n)
<1>1. 1 \in DOMAIN c /\ n \in 1 .. Len(c) + 1
  BY DEF LegalConfig
<1>2. total \in Nat /\ total < 140
  BY <1>1, OffsetsGrow DEF FitsBuffer, MaxConfigSize
<1>3. c[1].length \in Nat /\ c[1].length <= total
  <2>1. Offset(c, 2) = c[1].length
    <3>1. Offset(c, 1) = 0 /\ Offset(c, 1 + 1) = Offset(c, 1) + c[1].length
      BY <1>1, OffsetIs
    <3>2. c[1].length \in Nat
      BY <1>1, LengthIs
    <3> QED BY <3>1, <3>2
  <2>2. n = 2 \/ 2 \in 1 .. n - 1
    BY <1>1
  <2>3. Offset(c, 2) \in Nat /\ Offset(c, 2) <= Offset(c, n)
    BY <1>1, <2>2, OffsetsGrow
  <2> QED BY <2>1, <2>3
<1> HIDE DEF total
<1>4. total % 256 = total
  BY <1>2
<1>5. Min({total, MaxConfigSize}) = total
  <2>1. {total, MaxConfigSize} \in SUBSET Nat
    BY <1>2 DEF MaxConfigSize
  <2>2. Min({total, MaxConfigSize}) \in {total, MaxConfigSize} /\ Min({total, MaxConfigSize}) <= total
    BY <2>1, LeastIsIn
  <2> QED BY <1>2, <2>2 DEF MaxConfigSize
<1>6. Max({c[1].length, total}) = total
  <2>1. \E x \in {c[1].length, total} : \A y \in {c[1].length, total} : x >= y
    BY <1>2, <1>3
  <2>2. /\ Max({c[1].length, total}) \in {c[1].length, total}
        /\ \A y \in {c[1].length, total} : Max({c[1].length, total}) >= y
    BY <2>1 DEF Max
  <2> QED BY <1>2, <1>3, <2>2
<1> QED BY <1>4, <1>5, <1>6 DEF Received, total

\* If there is a descriptor of the type further on, adv_to_next_desc stops at the next.
LEMMA AdvToNextDescFinds ==
  ASSUME NEW c \in Buffers, LegalConfig(c), Len(c) \in Nat, DOMAIN c = 1 .. Len(c), FitsBuffer(c),
         NEW i \in DOMAIN c, NEW type \in {"interface", "endpoint"},
         NEW k \in DOMAIN c, k > i, c[k].type = type
  PROVE  LET j == AdvToNextDesc[c][type][i]
         IN  /\ j \notin {TooLarge, Spins} /\ j \in DOMAIN c /\ j > i /\ c[j].type = type
             /\ \A l \in DOMAIN c : l > i /\ c[l].type = type => j <= l
<1> DEFINE stops == {l \in i + 1 .. Len(c) + 1 : \/ l = Len(c) + 1
                                                \/ Offset(c, l) >= Received(c)
                                                \/ c[l].type = type}
           stop == Min(stops)
<1>1. \A l \in DOMAIN c : Offset(c, l) < Offset(c, Len(c) + 1) /\ Offset(c, l) \in Nat
  BY OffsetsGrow
<1>2. Offset(c, Len(c) + 1) \in Nat /\ Offset(c, Len(c) + 1) < 140
  BY OffsetsGrow DEF FitsBuffer, MaxConfigSize
<1>3. Received(c) = Offset(c, Len(c) + 1)
  BY ReceivedIs
<1>4. stop \in stops /\ \A l \in stops : stop <= l
  <2>1. stops \in SUBSET Nat /\ k \in stops
    OBVIOUS
  <2> HIDE DEF stops
  <2> QED BY <2>1, LeastIsIn
<1>5. \A l \in DOMAIN c : l > i /\ c[l].type = type => l \in stops
  OBVIOUS
<1>6. \A l \in stops : l \in i + 1 .. Len(c) + 1 /\ (l \in DOMAIN c => l > i /\ c[l].type = type)
  BY <1>1, <1>2, <1>3
<1> HIDE DEF stops
<1>7. /\ stop \in DOMAIN c /\ stop > i /\ c[stop].type = type
      /\ \A l \in DOMAIN c : l > i /\ c[l].type = type => stop <= l
  BY <1>4, <1>5, <1>6
<1> HIDE DEF stop
<1>8. ~(stop > Len(c) \/ Offset(c, stop) >= Received(c))
  BY <1>1, <1>2, <1>3, <1>7
<1>9. Offset(c, stop) + c[stop].length < MaxConfigSize
  <2>1. Offset(c, stop + 1) = Offset(c, stop) + c[stop].length
    BY <1>7, OffsetIs
  <2>2. Offset(c, stop + 1) \in Nat /\ Offset(c, stop + 1) <= Offset(c, Len(c) + 1)
    <3>1. stop + 1 = Len(c) + 1 \/ stop + 1 \in 1 .. (Len(c) + 1) - 1
      BY <1>7
    <3> QED BY <1>2, <3>1, OffsetsGrow
  <2> QED BY <1>2, <2>1, <2>2 DEF MaxConfigSize
<1>10. Offset(c, stop) < MaxConfigSize
  BY <1>1, <1>2, <1>7 DEF MaxConfigSize
<1>11. AdvToNextDesc[c][type][i] = stop
  <2>1. AdvToNextDesc[c][type][i] =
          LET here == Offset(c, stop)
              found == ~(stop > Len(c) \/ here >= Received(c))
          IN  IF here >= MaxConfigSize \/ (found /\ here + c[stop].length >= MaxConfigSize) THEN TooLarge
              ELSE IF found THEN stop ELSE Spins
    BY Zenon DEF AdvToNextDesc, stop, stops
  <2>2. ~(Offset(c, stop) >= MaxConfigSize)
    BY <1>1, <1>7, <1>10 DEF MaxConfigSize
  <2>3. ~(Offset(c, stop) + c[stop].length >= MaxConfigSize)
    <3>1. c[stop].length \in Nat
      BY <1>7, LengthIs
    <3> QED BY <1>1, <1>7, <1>9, <3>1 DEF MaxConfigSize
  <2> QED BY <1>8, <2>1, <2>2, <2>3, Zenon
<1>12. stop \notin {TooLarge, Spins}
  BY <1>7 DEF TooLarge, Spins
<1> QED BY <1>7, <1>11, <1>12

---------------------------------------------------------------------------
(* The counters of the interfaces and endpoints.                            *)

\* The wiring is as USB has it, and fits in the buffer and the numbers of drivers.
Orderly == Ordinary(wiring) /\ Fits

\* The members of S from p on.
From(S, p) == {k \in S : k >= p}

\* A call counts the interfaces from its own on, and the endpoints of that from
\* the one it is at.
Counts(f) ==
  /\ f.pc = "interface" => f.interfaces = Cardinality(From(Interfaces(f.descs), f.ptr))
  /\ f.pc \in Addressed \ {"config", "interface"} =>
       LET ends == EndpointsAt(f.descs, f.interface)
       IN  /\ f.interfaces = Cardinality(From(Interfaces(f.descs), f.interface))
           /\ IF ends = {} THEN f.ptr = f.interface ELSE f.ptr \in ends
           /\ f.endpoints = Cardinality(From(ends, f.ptr))
           /\ f.pc # "endpoint" => \A k \in ends : k >= f.ptr

CountInv == \A i \in DOMAIN stack : Counts(stack[i])

LEMMA FromAre ==
  ASSUME NEW n \in Nat, NEW S \in SUBSET (1 .. n), NEW p
  PROVE  IsFiniteSet(S) /\ IsFiniteSet(From(S, p)) /\ Cardinality(From(S, p)) \in Nat
<1>1. IsFiniteSet(1 .. n)
  BY FS_Interval
<1>2. IsFiniteSet(S) /\ IsFiniteSet(From(S, p))
  BY <1>1, FS_Subset DEF From
<1> QED BY <1>2, FS_CardinalityType

\* Behind p there is one less.
LEMMA FromNext ==
  ASSUME NEW n \in Nat, NEW S \in SUBSET (1 .. n), NEW p \in S
  PROVE  /\ Cardinality(From(S, p)) = Cardinality(From(S, p + 1)) + 1
         /\ Cardinality(From(S, p + 1)) > 0 <=> \E k \in S : k > p
<1>0. p \in Nat /\ \A k \in S : k \in Nat
  OBVIOUS
<1>1. From(S, p + 1) = From(S, p) \ {p} /\ p \in From(S, p)
  <2>1. \A k \in S : k >= p + 1 <=> k >= p /\ k # p
    BY <1>0
  <2>2. \A k : k \in From(S, p + 1) <=> k \in From(S, p) /\ k # p
    BY <2>1 DEF From
  <2>3. p \in From(S, p)
    BY <1>0 DEF From
  <2> QED BY <2>2, <2>3
<1>2. IsFiniteSet(From(S, p)) /\ IsFiniteSet(From(S, p + 1))
  BY FromAre
<1>3. Cardinality(From(S, p)) \in Nat /\ Cardinality(From(S, p + 1)) \in Nat
  BY FromAre
<1>4. Cardinality(From(S, p + 1)) = Cardinality(From(S, p)) - 1
  BY <1>1, <1>2, FS_RemoveElement
<1>5. Cardinality(From(S, p + 1)) = 0 <=> From(S, p + 1) = {}
  BY <1>2, FS_EmptySet
<1>6. From(S, p + 1) = {} <=> ~\E k \in S : k > p
  <2>1. \A k \in S : k >= p + 1 <=> k > p
    BY <1>0
  <2> QED BY <2>1 DEF From
<1> QED BY <1>3, <1>4, <1>5, <1>6

\* The next of S behind p, and what is from there on.
LEMMA FromLeast ==
  ASSUME NEW n \in Nat, NEW S \in SUBSET (1 .. n), NEW p \in Nat, NEW j \in S, j > p,
         \A k \in S : k > p => j <= k
  PROVE  From(S, j) = From(S, p + 1)
<1>1. \A k \in S : k \in Nat
  OBVIOUS
<1>2. \A k \in S : k >= j <=> k >= p + 1
  BY <1>1
<1> QED BY <1>2 DEF From

\* The interfaces and endpoints of a configuration lie in it.
LEMMA PlacesAre ==
  ASSUME NEW c, Len(c) \in Nat, DOMAIN c = 1 .. Len(c), NEW i
  PROVE  /\ Interfaces(c) \in SUBSET (1 .. Len(c))
         /\ EndpointsAt(c, i) \in SUBSET (1 .. Len(c))
BY DEF Interfaces, EndpointsAt

\* Between an interface and one of its endpoints, or itself, there is no other.
LEMMA EndpointsFollow ==
  ASSUME NEW c, Len(c) \in Nat, DOMAIN c = 1 .. Len(c), NEW i \in DOMAIN c,
         NEW k, k = i \/ k \in EndpointsAt(c, i)
  PROVE  /\ k \in DOMAIN c /\ k >= i
         /\ \A l \in Interfaces(c) : l > i => l > k
BY DEF Interfaces, EndpointsAt

\* The next endpoint descriptor behind p is an endpoint of the same interface, if it
\* has one there.
LEMMA NextEndpoint ==
  ASSUME NEW c, Len(c) \in Nat, DOMAIN c = 1 .. Len(c), NEW i \in DOMAIN c,
         NEW p \in DOMAIN c, p >= i, \E k \in EndpointsAt(c, i) : k > p,
         NEW j \in DOMAIN c, j > p, c[j].type = "endpoint",
         \A l \in DOMAIN c : l > p /\ c[l].type = "endpoint" => j <= l
  PROVE  j \in EndpointsAt(c, i) /\ \A k \in EndpointsAt(c, i) : k > p => j <= k
<1>1. PICK k \in EndpointsAt(c, i) : k > p
  OBVIOUS
<1>2. \A l \in EndpointsAt(c, i) : l \in DOMAIN c /\ c[l].type = "endpoint"
  BY DEF EndpointsAt
<1>3. j <= k /\ k \in DOMAIN c
  BY <1>1, <1>2
<1>4. \A l \in i + 1 .. k : c[l].type # "interface"
  BY DEF EndpointsAt
<1>5. \A l \in i + 1 .. j : c[l].type # "interface"
  BY <1>3, <1>4
<1>6. j \in EndpointsAt(c, i)
  BY <1>5 DEF EndpointsAt
<1> QED BY <1>2, <1>6

---------------------------------------------------------------------------
(* How a call goes on when all is in order.                                 *)

\* Whether call f still comes to interface i of configuration n of its device.
Comes(f, n, i) ==
  \/ n > f.config + 1
  \/ /\ n = f.config + 1
     /\ \/ f.pc = "config"
        \/ f.pc = "interface" /\ i >= f.ptr
        \/ f.pc = "configure" /\ i >= f.interface
        \/ f.pc \in AtHub \cup {"endpoint"} /\ i > f.interface

\* Calls f and g come to the same interfaces.
SameAhead(f, g) ==
  \A n \in DOMAIN wiring.configs[f.desc] : \A i \in Interfaces(wiring.configs[f.desc][n]) :
    Comes(g, n, i) <=> Comes(f, n, i)

\* The innermost call goes on as g; a request of it fails.
Onward(g) ==
  /\ Replaced(g) /\ g.pc \in Addressed /\ g.desc = Top.desc /\ g.address = Top.address
  /\ Counts(g) /\ result' = result
Failed(a) == \E r \in Outcomes(a) : r # "ok" /\ Spend(a, r) /\ Fail(r)

\* adv_to_next_desc finds the next descriptor of the type.
LEMMA AdvanceFinds ==
  ASSUME NEW f, DOMAIN f = Fields, f.descs \in Buffers, LegalConfig(f.descs), Len(f.descs) \in Nat,
         DOMAIN f.descs = 1 .. Len(f.descs), FitsBuffer(f.descs), f.ptr \in DOMAIN f.descs,
         NEW type \in {"interface", "endpoint"}, NEW pc, Advance(f, type, pc),
         \E k \in DOMAIN f.descs : k > f.ptr /\ f.descs[k].type = type
  PROVE  \E j \in DOMAIN f.descs :
           /\ j > f.ptr /\ f.descs[j].type = type
           /\ \A l \in DOMAIN f.descs : l > f.ptr /\ f.descs[l].type = type => j <= l
           /\ Replaced([f EXCEPT !.ptr = j, !.pc = pc]) /\ result' = result
<1> DEFINE j == AdvToNextDesc[f.descs][type][f.ptr]
<1>1. /\ j \notin {TooLarge, Spins} /\ j \in DOMAIN f.descs /\ j > f.ptr /\ f.descs[j].type = type
      /\ \A l \in DOMAIN f.descs : l > f.ptr /\ f.descs[l].type = type => j <= l
  <2>1. PICK k \in DOMAIN f.descs : k > f.ptr /\ f.descs[k].type = type
    OBVIOUS
  <2>2. PICK c, i : c = f.descs /\ i = f.ptr
    OBVIOUS
  <2>3. LET m == AdvToNextDesc[c][type][i]
        IN  /\ m \notin {TooLarge, Spins} /\ m \in DOMAIN c /\ m > i /\ c[m].type = type
            /\ \A l \in DOMAIN c : l > i /\ c[l].type = type => m <= l
    <3>1. /\ c \in Buffers /\ LegalConfig(c) /\ Len(c) \in Nat /\ DOMAIN c = 1 .. Len(c)
          /\ FitsBuffer(c) /\ i \in DOMAIN c
      BY <2>2
    <3>2. k \in DOMAIN c /\ k > i /\ c[k].type = type
      BY <2>1, <2>2
    <3> QED BY ONLY <3>1, <3>2, type \in {"interface", "endpoint"}, AdvToNextDescFinds
  <2> QED BY <2>2, <2>3
<1>2. Go([f EXCEPT !.ptr = j, !.pc = pc])
  <2> HIDE DEF j
  <2>1. CASE j = TooLarge
    BY <1>1, <2>1
  <2>2. CASE j = Spins
    BY <1>1, <2>2
  <2>3. CASE j # TooLarge /\ j # Spins
    BY <2>3, Zenon DEF Advance, j
  <2> QED BY <2>1, <2>2, <2>3
<1>3. DOMAIN [f EXCEPT !.ptr = j, !.pc = pc] = DOMAIN Call
  <2> HIDE DEF j
  <2> QED BY CallFields
<1> QED BY <1>1, <1>2, <1>3 DEF Go, Replaced

LEMMA ConfigOrderly ==
  ASSUME wiring \in Wirings, Orderly, NEW d \in Devices, NEW n \in DOMAIN wiring.configs[d]
  PROVE  WellFormed(wiring.configs[d][n]) /\ FitsBuffer(wiring.configs[d][n])
<1>1. wiring.configs[d][n] \in Configs(wiring)
  BY ConfigsAre
<1> QED BY <1>1 DEF Orderly, Ordinary, Fits, FitsBuffer

LEMMA GetCfgDescGoes ==
  ASSUME AddressInv, WalkInv, Orderly, GetCfgDesc
  PROVE  \/ Failed(Top.address)
         \/ \E g : Onward(g) /\ g.pc = "interface" /\ SameAhead(Top, g)
<1>1. /\ Running("config") /\ "config" \in Addressed /\ Top.pc = "config"
      /\ Top.config < Len(wiring.configs[Top.desc])
  BY WalkIs DEF GetCfgDesc, Addressed
<1>2. PICK c : c = wiring.configs[Top.desc][Top.config + 1]
  OBVIOUS
<1>3. PICK f : f = [Top EXCEPT !.descs = c, !.ptr = 1, !.interfaces = c[1].interfaces]
  OBVIOUS
<1>4. PICK r \in Outcomes(Top.address) :
        Spend(Top.address, r) /\ IF r = "ok" THEN Advance(f, "interface", "interface") ELSE Fail(r)
  BY <1>2, <1>3 DEF GetCfgDesc
<1>5. CASE r # "ok"
  BY <1>4, <1>5 DEF Failed
<1>6. CASE r = "ok"
  <2>1. /\ Top.config + 1 \in DOMAIN wiring.configs[Top.desc] /\ Top.desc \in Devices /\ wiring \in Wirings
        /\ Top.config \in Nat
    BY <1>1, TopSpeaks, WalkIs
  <2>2. /\ c \in Buffers /\ LegalConfig(c) /\ Len(c) \in Nat \ {0} /\ DOMAIN c = 1 .. Len(c)
        /\ WellFormed(c) /\ FitsBuffer(c)
    BY <1>2, <2>1, ConfigsAre, ConfigOrderly
  <2>3. /\ DOMAIN f = Fields /\ f.descs = c /\ f.ptr = 1 /\ f.desc = Top.desc
        /\ f.address = Top.address /\ f.config = Top.config /\ f.interfaces = c[1].interfaces
    BY <1>1, <1>3, WalkIs DEF Fields
  <2>4. \A k \in Interfaces(c) : k \in DOMAIN c /\ k > 1 /\ c[k].type = "interface"
    <3>1. \A k \in Interfaces(c) : k \in DOMAIN c /\ c[k].type = "interface"
      BY DEF Interfaces
    <3>2. c[1].type = "configuration"
      BY <2>2 DEF LegalConfig
    <3> QED BY <2>2, <3>1, <3>2
  <2>5. \E k \in DOMAIN c : k > 1 /\ c[k].type = "interface"
    BY <2>2, <2>4 DEF WellFormed
  <2>6. PICK j \in DOMAIN c :
           /\ j > 1 /\ c[j].type = "interface"
           /\ \A l \in DOMAIN c : l > 1 /\ c[l].type = "interface" => j <= l
           /\ Replaced([f EXCEPT !.ptr = j, !.pc = "interface"]) /\ result' = result
    <3>1. \E j \in DOMAIN f.descs :
             /\ j > f.ptr /\ f.descs[j].type = "interface"
             /\ \A l \in DOMAIN f.descs : l > f.ptr /\ f.descs[l].type = "interface" => j <= l
             /\ Replaced([f EXCEPT !.ptr = j, !.pc = "interface"]) /\ result' = result
      <4>1. /\ f.descs \in Buffers /\ LegalConfig(f.descs) /\ Len(f.descs) \in Nat
            /\ DOMAIN f.descs = 1 .. Len(f.descs) /\ FitsBuffer(f.descs) /\ f.ptr \in DOMAIN f.descs
        BY <2>2, <2>3
      <4>2. \E k \in DOMAIN f.descs : k > f.ptr /\ f.descs[k].type = "interface"
        BY <2>3, <2>5
      <4>3. DOMAIN f = Fields /\ Advance(f, "interface", "interface")
        BY <1>4, <1>6, <2>3
      <4> QED BY ONLY <4>1, <4>2, <4>3, AdvanceFinds
    <3> QED BY <2>3, <3>1
  <2>7. PICK g : g = [f EXCEPT !.ptr = j, !.pc = "interface"]
    OBVIOUS
  <2>8. /\ Replaced(g) /\ g.pc = "interface" /\ g.desc = Top.desc /\ g.address = Top.address
        /\ g.config = Top.config /\ g.descs = c /\ g.ptr = j /\ g.interfaces = c[1].interfaces
    BY <2>3, <2>6, <2>7 DEF Fields
  <2>9. Counts(g)
    <3>1. From(Interfaces(c), j) = Interfaces(c)
      BY <2>2, <2>4, <2>6 DEF From
    <3>2. c[1].interfaces = Cardinality(Interfaces(c))
      BY <2>2 DEF WellFormed
    <3> QED BY <2>8, <3>1, <3>2 DEF Counts
  <2>10. SameAhead(Top, g)
    <3> SUFFICES ASSUME NEW n \in DOMAIN wiring.configs[Top.desc],
                        NEW i \in Interfaces(wiring.configs[Top.desc][n])
                 PROVE  Comes(g, n, i) <=> Comes(Top, n, i)
      BY DEF SameAhead
    <3>1. n = Top.config + 1 => i >= j
      BY <1>2, <2>4, <2>6
    <3> QED BY <1>1, <2>8, <3>1 DEF Comes
  <2>11. Onward(g)
    BY <2>6, <2>8, <2>9 DEF Onward, Addressed
  <2> QED BY <2>8, <2>10, <2>11
<1> QED BY <1>5, <1>6

\* The configuration in the buffer.
LEMMA TopOrderly ==
  ASSUME AddressInv, WalkInv, Orderly, NEW pc \in Addressed, pc # "config", Running(pc)
  PROVE  /\ Top.descs \in Buffers /\ LegalConfig(Top.descs) /\ Len(Top.descs) \in Nat
         /\ DOMAIN Top.descs = 1 .. Len(Top.descs) /\ Top.ptr \in DOMAIN Top.descs
         /\ WellFormed(Top.descs) /\ FitsBuffer(Top.descs)
         /\ Top.config + 1 \in DOMAIN wiring.configs[Top.desc] /\ Top.config \in Nat
         /\ Top.descs = wiring.configs[Top.desc][Top.config + 1]
<1>1. Top.desc \in Devices /\ wiring \in Wirings /\ Top.config \in Nat
  BY TopSpeaks, WalkIs
<1>2. /\ Top.config + 1 \in DOMAIN wiring.configs[Top.desc]
      /\ Top.descs = wiring.configs[Top.desc][Top.config + 1]
  BY TopReads
<1>3. WellFormed(Top.descs) /\ FitsBuffer(Top.descs)
  BY <1>1, <1>2, ConfigOrderly
<1>4. /\ Top.descs \in Buffers /\ LegalConfig(Top.descs) /\ Len(Top.descs) \in Nat
      /\ DOMAIN Top.descs = 1 .. Len(Top.descs) /\ Top.ptr \in DOMAIN Top.descs
  BY TopReads
<1> QED BY <1>1, <1>2, <1>3, <1>4

\* The counters of the innermost call.
LEMMA TopCounts ==
  ASSUME AddressInv, WalkInv, CountInv, Orderly, NEW pc, Running(pc)
  PROVE  Counts(Top)
BY WalkIs, StackIs DEF CountInv

\* The endpoints that are there from p on.
LEMMA EndsAre ==
  ASSUME NEW c, Len(c) \in Nat, DOMAIN c = 1 .. Len(c), NEW i \in DOMAIN c
  PROVE  \A k \in EndpointsAt(c, i) : k \in DOMAIN c /\ k > i /\ c[k].type = "endpoint"
BY DEF EndpointsAt

LEMMA PlacesCounted ==
  ASSUME NEW c, Len(c) \in Nat, DOMAIN c = 1 .. Len(c)
  PROVE  \A k \in DOMAIN c : k \in Nat /\ k >= k
OBVIOUS

LEMMA IdClassDrvGoes ==
  ASSUME AddressInv, WalkInv, CountInv, Orderly, IdClassDrv
  PROVE  \E g : Onward(g) /\ g.pc = "configure" /\ SameAhead(Top, g)
<1>1. Running("interface") /\ "interface" \in Addressed /\ Top.pc = "interface"
  BY WalkIs DEF IdClassDrv, Addressed
<1>2. PICK d, c, i : d = Top.descs[Top.ptr] /\ c = Top.descs /\ i = Top.ptr
  OBVIOUS
<1>3. PICK f : f = [Top EXCEPT !.type = IdentifyClassDriver(d), !.interface = Top.ptr,
                               !.endpoints = d.endpoints, !.slot = End]
  OBVIOUS
<1>4. IF d.endpoints > 0 THEN Advance(f, "endpoint", "configure") ELSE Go([f EXCEPT !.pc = "configure"])
  BY <1>2, <1>3 DEF IdClassDrv
<1>5. /\ c \in Buffers /\ LegalConfig(c) /\ Len(c) \in Nat /\ DOMAIN c = 1 .. Len(c) /\ i \in DOMAIN c
      /\ WellFormed(c) /\ FitsBuffer(c)
      /\ Top.config + 1 \in DOMAIN wiring.configs[Top.desc] /\ Top.config \in Nat
      /\ c = wiring.configs[Top.desc][Top.config + 1]
  BY <1>1, <1>2, TopOrderly
<1>6. /\ DOMAIN f = Fields /\ f.descs = c /\ f.ptr = i /\ f.desc = Top.desc
      /\ f.address = Top.address /\ f.config = Top.config /\ f.interface = i
      /\ f.endpoints = d.endpoints /\ f.interfaces = Top.interfaces
  BY <1>1, <1>2, <1>3, WalkIs DEF Fields
<1>7. i \in Interfaces(c) /\ Top.interfaces = Cardinality(From(Interfaces(c), i))
  BY <1>1, <1>2, TopSpeaks, TopCounts DEF Reads, Counts
<1> DEFINE ends == EndpointsAt(c, i)
<1>8. d.endpoints = Cardinality(ends) /\ ends \in SUBSET (1 .. Len(c)) /\ IsFiniteSet(ends)
  <2>1. WellFormedInterface(c, i) /\ d = c[i]
    BY <1>2, <1>5, <1>7 DEF WellFormed
  <2>2. ends \in SUBSET (1 .. Len(c))
    BY <1>5, PlacesAre
  <2>3. IsFiniteSet(ends)
    BY <1>5, <2>2, FromAre
  <2> QED BY <2>1, <2>2, <2>3 DEF WellFormedInterface
<1>9. ASSUME NEW g, Replaced(g), result' = result, g.pc = "configure", g.desc = f.desc,
             g.address = f.address, g.config = f.config, g.descs = f.descs,
             g.interface = f.interface, g.endpoints = f.endpoints, g.interfaces = f.interfaces,
             IF ends = {} THEN g.ptr = i ELSE g.ptr \in ends, \A k \in ends : k >= g.ptr
      PROVE  Onward(g) /\ SameAhead(Top, g)
  <2>1. From(ends, g.ptr) = ends
    BY <1>9 DEF From
  <2>2. Counts(g)
    BY <1>6, <1>7, <1>8, <1>9, <2>1 DEF Counts
  <2>3. SameAhead(Top, g)
    <3> SUFFICES ASSUME NEW n, NEW l PROVE Comes(g, n, l) <=> Comes(Top, n, l)
      BY DEF SameAhead
    <3> QED BY <1>1, <1>2, <1>6, <1>9 DEF Comes, AtHub
  <2> QED BY <1>6, <1>9, <2>2, <2>3 DEF Onward, Addressed
<1>10. CASE ~(d.endpoints > 0)
  <2>1. ends = {}
    BY <1>8, <1>10, FS_EmptySet, FS_CardinalityType
  <2>2. PICK g : g = [f EXCEPT !.pc = "configure"]
    OBVIOUS
  <2>3. /\ g.pc = "configure" /\ g.desc = f.desc /\ DOMAIN g = Fields
        /\ g.address = f.address /\ g.config = f.config /\ g.descs = f.descs
        /\ g.interface = f.interface /\ g.endpoints = f.endpoints /\ g.interfaces = f.interfaces
        /\ g.ptr = i
    BY <1>6, <2>2 DEF Fields
  <2>4. Replaced(g) /\ result' = result
    BY <1>4, <1>10, <2>2, <2>3, CallFields DEF Go, Replaced
  <2> HIDE DEF ends
  <2>5. Onward(g) /\ SameAhead(Top, g)
    BY <1>9, <2>1, <2>3, <2>4
  <2> QED BY <2>3, <2>5
<1>11. CASE d.endpoints > 0
  <2>1. ends # {}
    BY <1>8, <1>11, FS_EmptySet
  <2>2. \A k \in ends : k \in DOMAIN c /\ k > i /\ c[k].type = "endpoint"
    BY <1>5, EndsAre
  <2>3. PICK j \in DOMAIN c :
           /\ j > i /\ c[j].type = "endpoint"
           /\ \A l \in DOMAIN c : l > i /\ c[l].type = "endpoint" => j <= l
           /\ Replaced([f EXCEPT !.ptr = j, !.pc = "configure"]) /\ result' = result
    <3>1. \E j \in DOMAIN f.descs :
             /\ j > f.ptr /\ f.descs[j].type = "endpoint"
             /\ \A l \in DOMAIN f.descs : l > f.ptr /\ f.descs[l].type = "endpoint" => j <= l
             /\ Replaced([f EXCEPT !.ptr = j, !.pc = "configure"]) /\ result' = result
      <4>1. /\ f.descs \in Buffers /\ LegalConfig(f.descs) /\ Len(f.descs) \in Nat
            /\ DOMAIN f.descs = 1 .. Len(f.descs) /\ FitsBuffer(f.descs) /\ f.ptr \in DOMAIN f.descs
        BY <1>5, <1>6
      <4>2. \E k \in DOMAIN f.descs : k > f.ptr /\ f.descs[k].type = "endpoint"
        <5> HIDE DEF ends
        <5> QED BY <1>6, <2>1, <2>2
      <4>3. DOMAIN f = Fields /\ Advance(f, "endpoint", "configure")
        BY <1>4, <1>6, <1>11
      <4> QED BY ONLY <4>1, <4>2, <4>3, AdvanceFinds
    <3>2. f.descs = c /\ f.ptr = i
      BY <1>6
    <3> QED BY ONLY <3>1, <3>2
  <2>4. PICK g : g = [f EXCEPT !.ptr = j, !.pc = "configure"]
    OBVIOUS
  <2>5. /\ g.pc = "configure" /\ g.desc = f.desc /\ Replaced(g)
        /\ g.address = f.address /\ g.config = f.config /\ g.descs = f.descs
        /\ g.interface = f.interface /\ g.endpoints = f.endpoints /\ g.interfaces = f.interfaces
        /\ g.ptr = j
    BY <1>6, <2>3, <2>4 DEF Fields
  <2>6. j \in ends /\ \A k \in ends : k >= j
    <3>1. \E k \in ends : k > i
      <4> HIDE DEF ends
      <4> QED BY <2>1, <2>2
    <3>2. j \in ends /\ \A k \in ends : k > i => j <= k
      <4>1. \A l \in DOMAIN c : l > i /\ c[l].type = "endpoint" => j <= l
        BY <2>3
      <4>2. j \in DOMAIN c /\ j > i /\ c[j].type = "endpoint"
        BY <2>3
      <4>3. i >= i
        BY <1>5, PlacesCounted
      <4> QED BY ONLY <1>5, <3>1, <4>1, <4>2, <4>3, NextEndpoint
    <3>3. \A k \in ends : k > i /\ k \in Nat
      <4>1. \A k \in DOMAIN c : k \in Nat
        BY <1>5, PlacesCounted
      <4> HIDE DEF ends
      <4> QED BY ONLY <2>2, <4>1
    <3> HIDE DEF ends
    <3> QED BY <1>5, <3>2, <3>3
  <2> HIDE DEF ends
  <2>7. Onward(g) /\ SameAhead(Top, g)
    BY <1>9, <2>1, <2>3, <2>5, <2>6
  <2> QED BY <2>5, <2>7
<1> QED BY <1>10, <1>11

\* What the innermost call knows of its interface.
LEMMA TopInterface ==
  ASSUME AddressInv, WalkInv, CountInv, Orderly, NEW pc \in Addressed \ {"config", "interface"},
         Running(pc)
  PROVE  LET ends == EndpointsAt(Top.descs, Top.interface)
         IN  /\ Top.interface \in Interfaces(Top.descs) /\ Top.interface \in DOMAIN Top.descs
             /\ Top.interface <= Top.ptr /\ Top.type = IdentifyClassDriver(Top.descs[Top.interface])
             /\ Top.interfaces = Cardinality(From(Interfaces(Top.descs), Top.interface))
             /\ IF ends = {} THEN Top.ptr = Top.interface ELSE Top.ptr \in ends
             /\ Top.endpoints = Cardinality(From(ends, Top.ptr))
             /\ pc # "endpoint" => \A k \in ends : k >= Top.ptr
<1>1. Top.pc = pc /\ Counts(Top) /\ Reads(Top)
  BY WalkIs, TopCounts, TopSpeaks
<1>2. /\ Top.interface \in Interfaces(Top.descs) /\ Top.interface <= Top.ptr
      /\ Top.type = IdentifyClassDriver(Top.descs[Top.interface])
  BY <1>1 DEF Reads
<1>3. Top.interface \in DOMAIN Top.descs
  BY <1>2 DEF Interfaces
<1> QED BY <1>1, <1>2, <1>3 DEF Counts

\* After one endpoint the next, or the next interface, or the next configuration.
NextOf(g) ==
  LET ends == EndpointsAt(Top.descs, Top.interface)
  IN  \/ /\ g.pc = "endpoint" /\ g.config = Top.config /\ g.interface = Top.interface
         /\ g.slot = Top.slot /\ g.type = Top.type /\ g.descs = Top.descs
         /\ Top.ptr \in ends /\ g.ptr \in ends /\ g.ptr > Top.ptr
         /\ \A k \in ends : k > Top.ptr => g.ptr <= k
      \/ /\ g.pc \in {"interface", "config"}
         /\ \A k \in ends : k <= Top.ptr

LEMMA ParseEndpointGoes ==
  ASSUME AddressInv, WalkInv, CountInv, Orderly, ParseEndpoint
  PROVE  \E g : Onward(g) /\ SameAhead(Top, g) /\ NextOf(g)
<1>1. /\ Running("endpoint") /\ "endpoint" \in Addressed \ {"config", "interface"}
      /\ Top.pc = "endpoint" /\ DOMAIN Top = Fields
  BY WalkIs DEF ParseEndpoint, Addressed
<1>2. PICK c, i, p : c = Top.descs /\ i = Top.interface /\ p = Top.ptr
  OBVIOUS
<1>3. /\ c \in Buffers /\ LegalConfig(c) /\ Len(c) \in Nat /\ DOMAIN c = 1 .. Len(c)
      /\ WellFormed(c) /\ FitsBuffer(c) /\ p \in DOMAIN c /\ p \in Nat
      /\ Top.config + 1 \in DOMAIN wiring.configs[Top.desc] /\ Top.config \in Nat
      /\ c = wiring.configs[Top.desc][Top.config + 1]
  <2>1. p \in DOMAIN c /\ Len(c) \in Nat /\ DOMAIN c = 1 .. Len(c)
    BY <1>1, <1>2, TopOrderly
  <2> QED BY <1>1, <1>2, <2>1, TopOrderly
<1> DEFINE ends == EndpointsAt(c, i)
           inters == Interfaces(c)
<1>4. /\ i \in inters /\ i \in DOMAIN c /\ i <= p /\ i \in Nat
      /\ Top.interfaces = Cardinality(From(inters, i))
      /\ IF ends = {} THEN p = i ELSE p \in ends
      /\ Top.endpoints = Cardinality(From(ends, p))
  <2>1. LET around == EndpointsAt(Top.descs, Top.interface)
        IN  /\ Top.interface \in Interfaces(Top.descs) /\ Top.interface \in DOMAIN Top.descs
            /\ Top.interface <= Top.ptr
            /\ Top.interfaces = Cardinality(From(Interfaces(Top.descs), Top.interface))
            /\ IF around = {} THEN Top.ptr = Top.interface ELSE Top.ptr \in around
            /\ Top.endpoints = Cardinality(From(around, Top.ptr))
    BY <1>1, TopInterface
  <2>2. \A k \in DOMAIN c : k \in Nat
    BY <1>3, PlacesCounted
  <2> QED BY ONLY <1>2, <2>1, <2>2
<1>5. /\ ends \in SUBSET (1 .. Len(c)) /\ inters \in SUBSET (1 .. Len(c))
      /\ \A k \in ends : k \in DOMAIN c /\ k > i /\ c[k].type = "endpoint"
      /\ \A k \in inters : k \in DOMAIN c /\ c[k].type = "interface"
      /\ \A k \in inters : k > i => k > p
  <2>1. ends \in SUBSET (1 .. Len(c)) /\ inters \in SUBSET (1 .. Len(c))
    BY <1>3, PlacesAre
  <2>2. \A k \in ends : k \in DOMAIN c /\ k > i /\ c[k].type = "endpoint"
    BY <1>3, <1>4, EndsAre
  <2>3. \A k \in inters : k \in DOMAIN c /\ c[k].type = "interface"
    BY DEF Interfaces
  <2>4. p = i \/ p \in ends
    BY <1>4
  <2>5. \A k \in inters : k > i => k > p
    BY ONLY <1>3, <1>4, <2>4, EndpointsFollow
  <2> QED BY <2>1, <2>2, <2>3, <2>5
<1> HIDE DEF ends, inters
<1>a. \A k \in DOMAIN c : k \in Nat
  BY ONLY <1>3
<1>b. /\ p \in Nat /\ i \in Nat
      /\ \A k \in ends : k \in Nat
      /\ \A k \in inters : k \in Nat
  BY ONLY <1>3, <1>4, <1>5, <1>a
<1>6. ends # {} => /\ p \in ends /\ Top.endpoints = Cardinality(From(ends, p + 1)) + 1
                   /\ Cardinality(From(ends, p + 1)) \in Nat
                   /\ Cardinality(From(ends, p + 1)) > 0 <=> \E k \in ends : k > p
  BY <1>3, <1>4, <1>5, FromNext, FromAre
<1>7. /\ Top.interfaces = Cardinality(From(inters, i + 1)) + 1
      /\ Cardinality(From(inters, i + 1)) \in Nat
      /\ Cardinality(From(inters, i + 1)) > 0 <=> \E k \in inters : k > i
  BY <1>3, <1>4, <1>5, FromNext, FromAre
<1>8. ends = {} => Top.endpoints = 0
  <2>1. ends = {} => From(ends, p) = {}
    BY DEF From
  <2> QED BY <1>4, <2>1, FS_EmptySet
<1>9. ASSUME NEW f, DOMAIN f = Fields, f.descs = c, f.ptr = p, NEW type \in {"interface", "endpoint"},
             Advance(f, type, type), \E k \in DOMAIN c : k > p /\ c[k].type = type
      PROVE  \E j \in DOMAIN c :
               /\ j > p /\ c[j].type = type
               /\ \A l \in DOMAIN c : l > p /\ c[l].type = type => j <= l
               /\ Replaced([f EXCEPT !.ptr = j, !.pc = type]) /\ result' = result
  <2>1. \E j \in DOMAIN f.descs :
             /\ j > f.ptr /\ f.descs[j].type = type
             /\ \A l \in DOMAIN f.descs : l > f.ptr /\ f.descs[l].type = type => j <= l
             /\ Replaced([f EXCEPT !.ptr = j, !.pc = type]) /\ result' = result
    <3>1. /\ f.descs \in Buffers /\ LegalConfig(f.descs) /\ Len(f.descs) \in Nat
          /\ DOMAIN f.descs = 1 .. Len(f.descs) /\ FitsBuffer(f.descs) /\ f.ptr \in DOMAIN f.descs
      BY <1>3, <1>9
    <3>2. \E k \in DOMAIN f.descs : k > f.ptr /\ f.descs[k].type = type
      BY <1>9
    <3>3. DOMAIN f = Fields /\ Advance(f, type, type) /\ type \in {"interface", "endpoint"}
      BY <1>9
    <3> QED BY ONLY <3>1, <3>2, <3>3, AdvanceFinds
  <2>2. f.descs = c /\ f.ptr = p
    BY <1>9
  <2> QED BY ONLY <2>1, <2>2
<1>10. CASE Top.endpoints > 1
  <2>1. ends # {} /\ \E k \in ends : k > p
    BY <1>6, <1>8, <1>10
  <2>2. PICK f : f = [Top EXCEPT !.endpoints = @ - 1]
    OBVIOUS
  <2>3. /\ DOMAIN f = Fields /\ f.descs = c /\ f.ptr = p /\ f.desc = Top.desc
        /\ f.address = Top.address /\ f.config = Top.config /\ f.interface = i
        /\ f.type = Top.type /\ f.slot = Top.slot /\ f.interfaces = Top.interfaces
        /\ f.endpoints = Top.endpoints - 1
    BY <1>1, <1>2, <2>2 DEF Fields
  <2>4. Advance(f, "endpoint", "endpoint")
    BY <1>10, <2>2 DEF ParseEndpoint, InterfaceNext
  <2>5. \E k \in DOMAIN c : k > p /\ c[k].type = "endpoint"
    BY <1>5, <2>1
  <2>6. PICK j \in DOMAIN c :
               /\ j > p /\ c[j].type = "endpoint"
               /\ \A l \in DOMAIN c : l > p /\ c[l].type = "endpoint" => j <= l
               /\ Replaced([f EXCEPT !.ptr = j, !.pc = "endpoint"]) /\ result' = result
    BY <1>9, <2>3, <2>4, <2>5
  <2>7. j \in ends /\ \A k \in ends : k > p => j <= k
    <3>1. \E k \in EndpointsAt(c, i) : k > p
      BY <2>1 DEF ends
    <3>2. \A l \in DOMAIN c : l > p /\ c[l].type = "endpoint" => j <= l
      BY <2>6
    <3>3. j \in DOMAIN c /\ j > p /\ c[j].type = "endpoint" /\ p >= i
      BY <1>3, <1>4, <2>6
    <3>4. j \in EndpointsAt(c, i) /\ \A k \in EndpointsAt(c, i) : k > p => j <= k
      <4>1. Len(c) \in Nat /\ DOMAIN c = 1 .. Len(c) /\ p \in DOMAIN c /\ i \in DOMAIN c
        BY <1>3, <1>4
      <4> QED BY ONLY <3>1, <3>2, <3>3, <4>1, NextEndpoint
    <3> QED BY <3>4 DEF ends
  <2>8. PICK g : g = [f EXCEPT !.ptr = j, !.pc = "endpoint"]
    OBVIOUS
  <2>9. /\ Replaced(g) /\ g.pc = "endpoint" /\ g.desc = Top.desc /\ g.address = Top.address
        /\ g.config = Top.config /\ g.descs = c /\ g.ptr = j /\ g.interface = i
        /\ g.type = Top.type /\ g.slot = Top.slot /\ g.interfaces = Top.interfaces
        /\ g.endpoints = Top.endpoints - 1
    BY <2>3, <2>6, <2>8 DEF Fields
  <2>10. From(ends, j) = From(ends, p + 1)
    BY ONLY <1>3, <1>5, <2>6, <2>7, FromLeast
  <2>11. g.endpoints = Cardinality(From(ends, j))
    BY <1>6, <2>1, <2>9, <2>10
  <2>12. Counts(g)
    BY <1>4, <2>1, <2>7, <2>9, <2>11 DEF Counts, ends, inters
  <2>13. SameAhead(Top, g)
    <3> SUFFICES ASSUME NEW n, NEW l PROVE Comes(g, n, l) <=> Comes(Top, n, l)
      BY DEF SameAhead
    <3> QED BY <1>1, <1>2, <2>9 DEF Comes, AtHub
  <2>14. NextOf(g)
    BY <1>2, <1>4, <2>1, <2>6, <2>7, <2>9 DEF NextOf, ends
  <2> QED BY <2>6, <2>9, <2>12, <2>13, <2>14 DEF Onward, Addressed
<1>11. CASE ~(Top.endpoints > 1)
  <2>1. \A k \in ends : k <= p
    <3>1. ~\E k \in ends : k > p
      BY <1>6, <1>11
    <3>2. p \in Nat /\ \A k \in ends : k \in Nat
      BY <1>b
    <3> QED BY ONLY <3>1, <3>2
  <2>2. CASE Top.interfaces > 1
    <3>1. PICK k \in inters : k > i
      BY <1>7, <2>2
    <3>2. PICK f : f = [Top EXCEPT !.endpoints = 0, !.interfaces = @ - 1]
      OBVIOUS
    <3>3. /\ DOMAIN f = Fields /\ f.descs = c /\ f.ptr = p /\ f.desc = Top.desc
          /\ f.address = Top.address /\ f.config = Top.config
          /\ f.interfaces = Top.interfaces - 1
      BY <1>1, <1>2, <3>2 DEF Fields
    <3>4. Advance(f, "interface", "interface")
      BY <1>11, <2>2, <3>2 DEF ParseEndpoint, InterfaceNext
    <3>5. \E l \in DOMAIN c : l > p /\ c[l].type = "interface"
      BY <1>5, <3>1
    <3>6. PICK j \in DOMAIN c :
               /\ j > p /\ c[j].type = "interface"
               /\ \A l \in DOMAIN c : l > p /\ c[l].type = "interface" => j <= l
               /\ Replaced([f EXCEPT !.ptr = j, !.pc = "interface"]) /\ result' = result
      BY <1>9, <3>3, <3>4, <3>5
    <3>7. j \in inters /\ j > i /\ \A l \in inters : l > i => j <= l
      <4>1. j \in inters
        BY <3>6 DEF Interfaces, inters
      <4>2. j > i
        <5>1. j \in Nat /\ p \in Nat /\ i \in Nat
          BY <1>a, <1>b, <3>6
        <5>2. j > p /\ i <= p
          BY <1>4, <3>6
        <5> QED BY ONLY <5>1, <5>2
      <4> QED BY <1>5, <3>6, <4>1, <4>2
    <3>8. PICK g : g = [f EXCEPT !.ptr = j, !.pc = "interface"]
      OBVIOUS
    <3>9. /\ Replaced(g) /\ g.pc = "interface" /\ g.desc = Top.desc /\ g.address = Top.address
          /\ g.config = Top.config /\ g.descs = c /\ g.ptr = j /\ g.interfaces = Top.interfaces - 1
      BY <3>3, <3>6, <3>8 DEF Fields
    <3>10. From(inters, j) = From(inters, i + 1)
      BY ONLY <1>3, <1>4, <1>5, <3>7, FromLeast
    <3>11. Counts(g)
      BY <1>7, <3>9, <3>10 DEF Counts, inters
    <3>12. SameAhead(Top, g)
      <4> SUFFICES ASSUME NEW n \in DOMAIN wiring.configs[Top.desc],
                          NEW l \in Interfaces(wiring.configs[Top.desc][n])
                   PROVE  Comes(g, n, l) <=> Comes(Top, n, l)
        BY DEF SameAhead
      <4>1. n = Top.config + 1 => (l > i <=> l >= j)
        <5> SUFFICES ASSUME n = Top.config + 1 PROVE l > i <=> l >= j
          OBVIOUS
        <5>1. l \in inters
          BY <1>3 DEF inters
        <5>2. l \in Nat /\ j \in Nat
          BY <1>b, <3>7, <5>1
        <5> QED BY <1>4, <3>7, <5>1, <5>2
      <4> QED BY <1>1, <1>2, <3>9, <4>1 DEF Comes, AtHub
    <3>13. NextOf(g)
      BY <1>2, <2>1, <3>9 DEF NextOf, ends
    <3> QED BY <3>6, <3>9, <3>11, <3>12, <3>13 DEF Onward, Addressed
  <2>3. CASE ~(Top.interfaces > 1)
    <3>1. \A k \in inters : ~(k > i)
      BY <1>7, <2>3
    <3>2. PICK g : g = [Top EXCEPT !.pc = "config", !.config = @ + 1]
      OBVIOUS
    <3>3. /\ DOMAIN g = DOMAIN Call /\ g.pc = "config" /\ g.desc = Top.desc
          /\ g.address = Top.address /\ g.config = Top.config + 1
      BY <1>1, <3>2, CallFields DEF Fields
    <3>4. Replaced(g) /\ result' = result
      BY <1>11, <2>3, <3>2, <3>3 DEF ParseEndpoint, InterfaceNext, Go, Replaced
    <3>5. Counts(g)
      BY <3>3 DEF Counts
    <3>6. SameAhead(Top, g)
      <4> SUFFICES ASSUME NEW n \in DOMAIN wiring.configs[Top.desc],
                          NEW l \in Interfaces(wiring.configs[Top.desc][n])
                   PROVE  Comes(g, n, l) <=> Comes(Top, n, l)
        BY DEF SameAhead
      <4>1. n = Top.config + 1 => ~(l > i)
        BY <1>3, <3>1 DEF inters
      <4>2. n \in Nat
        BY <1>1, TopSpeaks
      <4>3. Top.config \in Nat /\ Top.pc = "endpoint" /\ Top.interface = i
        BY <1>1, <1>2, <1>3
      <4> QED BY ONLY <3>3, <4>1, <4>2, <4>3 DEF Comes, AtHub
    <3>7. NextOf(g)
      BY <1>2, <2>1, <3>3 DEF NextOf, ends
    <3> QED BY <3>3, <3>4, <3>5, <3>6, <3>7 DEF Onward, Addressed
  <2> QED BY <2>2, <2>3
<1> QED BY <1>10, <1>11

---------------------------------------------------------------------------
(* How a call goes on at a hub, and past the switch.                        *)

\* The call is about the same interface as before.
SameCall(f, g) ==
  /\ g.desc = f.desc /\ g.address = f.address /\ g.config = f.config /\ g.descs = f.descs
  /\ g.ptr = f.ptr /\ g.interface = f.interface /\ g.interfaces = f.interfaces
  /\ g.endpoints = f.endpoints /\ g.type = f.type

\* The innermost call goes on as g, about the same interface, with the same slot.
Moved(g) == Replaced(g) /\ SameCall(Top, g) /\ g.slot = Top.slot /\ result' = result

LEMMA SameCounts ==
  ASSUME NEW f, f.pc \in AtHub \cup {"configure"}, Counts(f), NEW g, SameCall(f, g),
         g.pc \in AtHub \cup {"endpoint"}
  PROVE  Counts(g)
<1>1. /\ f.pc \in Addressed \ {"config", "interface"} /\ f.pc # "endpoint"
      /\ g.pc \in Addressed \ {"config", "interface"} /\ g.pc # "interface"
  BY DEF Addressed, AtHub
<1> QED BY <1>1 DEF Counts, SameCall

\* Either a request to the device fails, or the slot is there and the device configured.
Configured(g) ==
  /\ Replaced(g) /\ SameCall(Top, g) /\ result' = result
  /\ g.pc = IF Top.type = "hub" THEN "hub" ELSE "endpoint"
  /\ g.slot = IF Top.type \in SlotTypes THEN FindFirstFree ELSE End
Switched ==
  /\ IF Top.type \in SlotTypes
     THEN FindFirstFree # End /\ slots' = SlotLaid(FindFirstFree, NewSlot(Top))
     ELSE slots' = slots
  /\ Failed(Top.address) \/ \E g : Configured(g)

LEMMA CapDrvIntfGoes ==
  ASSUME AddressInv, WalkInv, CapDrvIntf
  PROVE  \/ Fail("out of memory") /\ FindFirstFree = End /\ Top.type \in SlotTypes
         \/ Switched
<1>1. Running("configure") /\ "configure" \in Addressed
  BY DEF CapDrvIntf, Addressed
<1>2. DOMAIN Top = Fields
  BY <1>1, WalkIs
<1>3. Top.type \in SlotTypes \cup {"hub", "unknown"}
  <2>1. Top.type = IdentifyClassDriver(Top.descs[Top.interface])
    BY <1>1, TopSpeaks, WalkIs DEF Reads
  <2> QED BY <2>1, ClassesAre
<1>4. "hub" \notin SlotTypes /\ "unknown" \notin SlotTypes
  BY SizesAre
<1>5. ASSUME NEW pc, NEW slot, SetConfig(pc, slot),
             pc = IF Top.type = "hub" THEN "hub" ELSE "endpoint",
             slot = IF Top.type \in SlotTypes THEN FindFirstFree ELSE End
      PROVE  Failed(Top.address) \/ \E g : Configured(g)
  <2>1. PICK r \in Outcomes(Top.address) :
          Spend(Top.address, r) /\ IF r = "ok" THEN Go([Top EXCEPT !.pc = pc, !.slot = slot]) ELSE Fail(r)
    BY <1>5 DEF SetConfig
  <2>2. CASE r # "ok"
    BY <2>1, <2>2 DEF Failed
  <2>3. CASE r = "ok"
    <3>1. PICK g : g = [Top EXCEPT !.pc = pc, !.slot = slot]
      OBVIOUS
    <3>2. /\ DOMAIN g = DOMAIN Call /\ g.pc = pc /\ g.slot = slot /\ SameCall(Top, g)
      BY <1>2, <3>1, CallFields DEF Fields, SameCall
    <3>3. Replaced(g) /\ result' = result
      BY <2>1, <2>3, <3>1, <3>2 DEF Go, Replaced
    <3> QED BY <1>5, <3>2, <3>3 DEF Configured
  <2> QED BY <2>2, <2>3
<1>6. CASE Top.type = "hub"
  <2>1. SetConfig("hub", End) /\ slots' = slots
    BY <1>6 DEF CapDrvIntf
  <2> QED BY <1>4, <1>5, <1>6, <2>1 DEF Switched
<1>7. CASE Top.type = "unknown"
  <2>1. SetConfig("endpoint", End) /\ slots' = slots
    BY <1>7 DEF CapDrvIntf
  <2> QED BY <1>4, <1>5, <1>7, <2>1 DEF Switched
<1>8. CASE Top.type \in SlotTypes
  <2>1. \/ FindFirstFree = End /\ Fail("out of memory")
        \/ /\ FindFirstFree # End /\ slots' = SlotLaid(FindFirstFree, NewSlot(Top))
           /\ SetConfig("endpoint", FindFirstFree)
    BY <1>4, <1>8 DEF CapDrvIntf
  <2> QED BY <1>4, <1>5, <1>8, <2>1 DEF Switched
<1> QED BY <1>3, <1>6, <1>7, <1>8

\* Call f is done with its port, and goes on as g.
PortDone(f, g) ==
  /\ SameCall(f, g) /\ g.slot = f.slot /\ DOMAIN g = DOMAIN Call
  /\ IF f.port = 1 THEN g.pc = "endpoint" ELSE g.pc = "power" /\ g.port = f.port - 1

LEMMA NextPortSame ==
  ASSUME NEW f, DOMAIN f = Fields, NEW g, g = NextPort(f)
  PROVE  PortDone(f, g)
<1>1. CASE f.port = 1
  <2>1. g = [f EXCEPT !.pc = "endpoint"]
    BY <1>1 DEF NextPort
  <2> QED BY <1>1, <2>1, CallFields DEF Fields, SameCall, PortDone
<1>2. CASE f.port # 1
  <2>1. g = [f EXCEPT !.pc = "power", !.port = @ - 1]
    BY <1>2 DEF NextPort
  <2> QED BY <1>2, <2>1, CallFields DEF Fields, SameCall, PortDone
<1> QED BY <1>1, <1>2

\* The innermost call at another place at the same hub.
LEMMA MovedIs ==
  ASSUME AddressInv, WalkInv, NEW pc, Running(pc), NEW to, NEW port,
         Go([Top EXCEPT !.pc = to, !.port = port])
  PROVE  \E g : Moved(g) /\ g.pc = to /\ g.port = port
<1>1. PICK g : g = [Top EXCEPT !.pc = to, !.port = port]
  OBVIOUS
<1>2. DOMAIN g = DOMAIN Call /\ g.pc = to /\ g.port = port /\ SameCall(Top, g) /\ g.slot = Top.slot
  BY <1>1, WalkIs, CallFields DEF Fields, SameCall
<1> QED BY <1>1, <1>2 DEF Moved, Replaced, Go

LEMMA StaysIs ==
  ASSUME AddressInv, WalkInv, NEW pc, Running(pc), NEW to, Go([Top EXCEPT !.pc = to])
  PROVE  \E g : Moved(g) /\ g.pc = to /\ g.port = Top.port
<1>1. PICK g : g = [Top EXCEPT !.pc = to]
  OBVIOUS
<1>2. DOMAIN g = DOMAIN Call /\ g.pc = to /\ g.port = Top.port /\ SameCall(Top, g) /\ g.slot = Top.slot
  BY <1>1, WalkIs, CallFields DEF Fields, SameCall
<1> QED BY <1>1, <1>2 DEF Moved, Replaced, Go

LEMMA HubGetDescriptorGoes ==
  ASSUME AddressInv, WalkInv, HubGetDescriptor
  PROVE  \/ Failed(Top.address)
         \/ \E g : Moved(g) /\ g.pc = "power" /\ g.port = Len(wiring.ports[Top.desc])
<1>1. PICK r \in Outcomes(Top.address) :
        /\ Spend(Top.address, r)
        /\ IF r = "ok" THEN Go([Top EXCEPT !.pc = "power", !.port = Len(wiring.ports[Top.desc])])
           ELSE Fail(r)
  BY DEF HubGetDescriptor
<1>2. Running("hub")
  BY DEF HubGetDescriptor
<1>3. PICK n : n = Len(wiring.ports[Top.desc])
  OBVIOUS
<1>4. CASE r = "ok"
  <2>1. Go([Top EXCEPT !.pc = "power", !.port = n])
    BY <1>1, <1>3, <1>4
  <2>2. \E g : Moved(g) /\ g.pc = "power" /\ g.port = n
    BY <1>2, <2>1, MovedIs
  <2> QED BY <1>3, <2>2
<1> QED BY <1>1, <1>4 DEF Failed

LEMMA PortPowerGoes ==
  ASSUME AddressInv, WalkInv, PortPower
  PROVE  Failed(Top.address) \/ \E g : Moved(g) /\ g.pc = "reset" /\ g.port = Top.port
<1>1. PICK r \in Outcomes(Top.address) :
        Spend(Top.address, r) /\ IF r = "ok" THEN Go([Top EXCEPT !.pc = "reset"]) ELSE Fail(r)
  BY DEF PortPower
<1>2. Running("power")
  BY DEF PortPower
<1>3. CASE r = "ok"
  BY <1>1, <1>2, <1>3, StaysIs
<1> QED BY <1>1, <1>3 DEF Failed

LEMMA PortResetGoes ==
  ASSUME AddressInv, WalkInv, PortReset
  PROVE  \/ Failed(Top.address)
         \/ /\ at' = IF Child # NoDevice THEN [PowerOff EXCEPT ![Child] = 0] ELSE at
            /\ \E g : Moved(g) /\ g.pc = "status" /\ g.port = Top.port
<1>1. PICK r \in Outcomes(Top.address), done \in BOOLEAN :
        /\ r = "ok" => done
        /\ Spend(Top.address, r)
        /\ at' = IF done /\ Child # NoDevice THEN [PowerOff EXCEPT ![Child] = 0] ELSE at
        /\ IF r = "ok" THEN Go([Top EXCEPT !.pc = "status"]) ELSE Fail(r)
  BY DEF PortReset
<1>2. Running("reset")
  BY DEF PortReset
<1>3. CASE r = "ok"
  <2>1. \E g : Moved(g) /\ g.pc = "status" /\ g.port = Top.port
    BY <1>1, <1>2, <1>3, StaysIs
  <2>2. at' = IF Child # NoDevice THEN [PowerOff EXCEPT ![Child] = 0] ELSE at
    BY <1>1, <1>3
  <2> QED BY <2>1, <2>2
<1> QED BY <1>1, <1>3 DEF Failed

LEMMA PortStatusGoes ==
  ASSUME AddressInv, WalkInv, PortStatus
  PROVE  \/ Failed(Top.address)
         \/ faults > 0 /\ faults' = faults - 1
         \/ \E g : Moved(g) /\ g.port = Top.port /\ g.pc = IF Child = NoDevice THEN "empty" ELSE "changes"
<1>1. Running("status")
  BY DEF PortStatus
<1>2. PICK r \in Outcomes(Top.address) :
       \/ /\ r = "ok"
          /\ Go([Top EXCEPT !.pc = IF Child = NoDevice THEN "empty" ELSE "changes"])
          /\ UNCHANGED faults
       \/ /\ r = "ok" /\ Child # NoDevice /\ faults > 0
          /\ Go([Top EXCEPT !.pc = "empty"])
          /\ faults' = faults - 1
       \/ /\ r # "ok"
          /\ Spend(Top.address, r)
          /\ Fail(r)
  BY DEF PortStatus
<1>3. CASE Go([Top EXCEPT !.pc = IF Child = NoDevice THEN "empty" ELSE "changes"])
  <2>1. PICK to : to = IF Child = NoDevice THEN "empty" ELSE "changes"
    OBVIOUS
  <2>2. Go([Top EXCEPT !.pc = to])
    BY <1>3, <2>1
  <2> QED BY <1>1, <2>1, <2>2, StaysIs
<1>4. CASE faults > 0 /\ faults' = faults - 1
  BY <1>4
<1>5. CASE r # "ok" /\ Spend(Top.address, r) /\ Fail(r)
  BY <1>5 DEF Failed
<1> QED BY <1>2, <1>3, <1>4, <1>5

LEMMA PortEmptyGoes ==
  ASSUME AddressInv, WalkInv, PortEmpty
  PROVE  \/ Failed(Top.address)
         \/ at' = PowerOff /\ \E g : Moved(g) /\ PortDone(Top, g)
<1>1. PICK r \in Outcomes(Top.address) :
        /\ Spend(Top.address, r) /\ at' = IF r = "ok" THEN AfterPowerOff ELSE at
        /\ IF r = "ok" THEN Go(NextPort(Top)) ELSE Fail(r)
  BY DEF PortEmpty
<1>2. Running("empty")
  BY DEF PortEmpty
<1>3. CASE r = "ok"
  <2>1. PICK g : g = NextPort(Top)
    OBVIOUS
  <2>2. PortDone(Top, g)
    BY <1>2, <2>1, WalkIs, NextPortSame
  <2>3. Moved(g)
    BY <1>1, <1>3, <2>1, <2>2 DEF Moved, Go, Replaced, PortDone
  <2> QED BY <1>1, <1>3, <2>2, <2>3 DEF AfterPowerOff
<1> QED BY <1>1, <1>3 DEF Failed

LEMMA PortConnectedGoes ==
  ASSUME AddressInv, WalkInv, PortConnected
  PROVE  Failed(Top.address) \/ (stack' = <<Call>> \o stack /\ result' = result)
<1>1. PICK r \in Outcomes(Top.address) :
        /\ Spend(Top.address, r)
        /\ IF r = "ok" THEN stack' = <<Call>> \o stack /\ UNCHANGED result ELSE Fail(r)
  BY DEF PortConnected
<1>2. CASE r = "ok"
  BY <1>1, <1>2
<1> QED BY <1>1, <1>2 DEF Failed

\* A call returns to the hub it was made for.
LEMMA ReturnToHubGoes ==
  ASSUME AddressInv, WalkInv, ReturnToHub, result = "ok"
  PROVE  /\ Len(stack) > 1 /\ stack[2].pc = "changes" /\ result' = result
         /\ \E g : PortDone(stack[2], g) /\ stack' = <<g>> \o SubSeq(stack, 3, Len(stack))
<1>1. /\ Running("return") /\ Len(stack) > 1
      /\ stack' = <<NextPort([stack[2] EXCEPT !.pc = "changes"])>> \o SubSeq(stack, 3, Len(stack))
      /\ result' = result
  BY DEF ReturnToHub
<1>2. stack[2].pc = "changes" /\ DOMAIN stack[2] = Fields
  BY <1>1, WalkIs, StackIs, CallFields DEF CallsRight
<1>3. PICK h : h = [stack[2] EXCEPT !.pc = "changes"]
  OBVIOUS
<1>4. DOMAIN h = Fields /\ SameCall(stack[2], h) /\ h.slot = stack[2].slot /\ h.port = stack[2].port
  BY <1>2, <1>3 DEF Fields, SameCall
<1>5. PICK g : g = NextPort(h)
  OBVIOUS
<1>6. PortDone(stack[2], g)
  BY <1>4, <1>5, NextPortSame DEF PortDone, SameCall
<1> QED BY <1>1, <1>2, <1>3, <1>5, <1>6

---------------------------------------------------------------------------
(* When no request fails the walk comes to every device.                    *)

\* No request of those that somebody could answer has failed.
Smooth == Orderly /\ faults = Faults

\* The devices that have been given an address.
Awake == {d \in Devices : at[d] \notin {0, Off}}

\* What is on the ports of d above n is awake, or will be at once.
PortsLit(d, n) ==
  \A q \in DOMAIN wiring.ports[d] :
    q > n /\ wiring.ports[d][q] # NoDevice => at[wiring.ports[d][q]] # Off

\* What a call leaves behind it is lit.
Lit(f) ==
  /\ f.pc \in {"power", "reset"} => PortsLit(f.desc, f.port)
  /\ f.pc \in {"status", "empty", "changes"} => PortsLit(f.desc, f.port - 1)
  /\ f.pc \in Addressed \ AtHub /\ Ahead(f) = {} => PortsLit(f.desc, 0)

\* A call is made for device d.
OpenAt(d) == \E i \in DOMAIN stack : stack[i].pc \in Addressed /\ stack[i].desc = d

\* What the innermost call finds when nothing has failed.
TopFinds ==
  /\ Top.pc \in Addressed \cup {"descriptor", "address", "return"}
  /\ Top.pc = "descriptor" => Answering(0) # {}
  /\ Top.pc = "status" /\ Child # NoDevice => at[Child] = 0
  /\ Top.pc = "changes" => Child # NoDevice /\ at[Child] = 0
  /\ Top.pc = "empty" => Child = NoDevice

TreeInv ==
  /\ result = "ok" /\ at[wiring.root] # Off /\ nextAddress = Cardinality(Awake)
  /\ \A i \in DOMAIN stack : stack[i].pc \in Addressed => Lit(stack[i])
  /\ \A d \in Awake : OpenAt(d) \/ PortsLit(d, 0)
  /\ phase # "enumerate" => Awake = Devices
  /\ phase = "enumerate" => TopFinds

\* A failure is paid for.
LEMMA NotFailed ==
  ASSUME AddressInv, WalkInv, faults' = Faults, NEW a, Answering(a) # {}
  PROVE  ~Failed(a)
<1> SUFFICES ASSUME NEW r \in Outcomes(a), r # "ok", Spend(a, r) PROVE FALSE
  BY DEF Failed
<1>1. faults' = faults - 1
  BY DEF Spend
<1>2. faults \in 0 .. Faults /\ Faults \in Nat
  BY BoundsAssumption DEF WalkInv, EnumTyped
<1> QED BY <1>1, <1>2

\* A call that has an address speaks to somebody.
LEMMA TopAnswers ==
  ASSUME AddressInv, WalkInv, NEW pc \in Addressed, Running(pc)
  PROVE  Answering(Top.address) # {}
BY TopSpeaks DEF Speaks, Answering

LEMMA SpendFalls ==
  ASSUME WalkInv, NEW a, NEW r, Spend(a, r)
  PROVE  faults' <= faults
<1>1. faults \in 0 .. Faults /\ Faults \in Nat
  BY BoundsAssumption DEF WalkInv, EnumTyped
<1> QED BY <1>1 DEF Spend

LEMMA StepsSmooth ==
  ASSUME AddressInv, WalkInv, [EnumNext]_enumvars, Smooth'
  PROVE  wiring' = wiring /\ Smooth
<1>1. wiring' = wiring
  BY Zenon DEF EnumNext, GetDescriptor, SetAddress, GetCfgDesc, AllConfigsRead, IdClassDrv,
     CapDrvIntf, ParseEndpoint, HubGetDescriptor, PortPower, PortReset, PortStatus, PortEmpty,
     PortConnected, ReturnToHub, Enumerated, ChscsiInit, ChufiInit, KeyboardInit, enumvars
<1>2. Orderly
  BY <1>1 DEF Smooth, Orderly, Fits, Served, ServedBy, Devices, Configs
<1>3. faults \in 0 .. Faults /\ Faults \in Nat
  BY BoundsAssumption DEF WalkInv, EnumTyped
<1>4. faults' <= faults
  <2>1. UNCHANGED faults => faults' <= faults
    BY <1>3
  <2>2. CASE GetDescriptor
    BY <2>2, SpendFalls DEF GetDescriptor
  <2>3. CASE SetAddress
    BY <2>3, SpendFalls DEF SetAddress
  <2>4. CASE GetCfgDesc
    BY <2>4, SpendFalls DEF GetCfgDesc
  <2>5. CASE AllConfigsRead \/ IdClassDrv \/ ParseEndpoint \/ ReturnToHub
    BY <2>1, <2>5 DEF AllConfigsRead, IdClassDrv, ParseEndpoint, ReturnToHub
  <2>6. CASE CapDrvIntf
    <3>1. ASSUME NEW pc, NEW slot, SetConfig(pc, slot) PROVE faults' <= faults
      BY <3>1, SpendFalls DEF SetConfig
    <3>2. UNCHANGED faults \/ \E pc, slot : SetConfig(pc, slot)
      <4>1. CASE Top.type = "hub"
        BY <2>6, <4>1 DEF CapDrvIntf
      <4>2. CASE Top.type # "hub" /\ Top.type = "unknown"
        BY <2>6, <4>2 DEF CapDrvIntf
      <4>3. CASE Top.type # "hub" /\ Top.type # "unknown"
        BY <2>6, <4>3 DEF CapDrvIntf
      <4> QED BY <4>1, <4>2, <4>3
    <3> QED BY <2>1, <3>1, <3>2
  <2>7. CASE HubGetDescriptor \/ PortPower
    BY <2>7, SpendFalls DEF HubGetDescriptor, PortPower
  <2>8. CASE PortReset \/ PortEmpty
    BY <2>8, SpendFalls DEF PortReset, PortEmpty
  <2>9. CASE PortStatus
    BY <1>3, <2>9, SpendFalls DEF PortStatus
  <2>10. CASE PortConnected
    BY <2>10, SpendFalls DEF PortConnected
  <2>11. CASE Enumerated \/ ChscsiInit \/ ChufiInit \/ KeyboardInit \/ UNCHANGED enumvars
    BY <2>1, <2>11 DEF Enumerated, ChscsiInit, ChufiInit, KeyboardInit, enumvars
  <2> QED BY <2>2, <2>3, <2>4, <2>5, <2>6, <2>7, <2>8, <2>9, <2>10, <2>11 DEF EnumNext
<1>5. Faults' = Faults /\ faults' = Faults
  BY DEF Smooth
<1>6. faults = Faults
  BY <1>3, <1>4, <1>5
<1> QED BY <1>1, <1>2, <1>6 DEF Smooth

\* Light stays where nothing is taken away.
LEMMA PortsLitKept ==
  ASSUME wiring \in Wirings, UNCHANGED wiring, NEW d \in Devices, NEW n, PortsLit(d, n),
         \A e \in Devices : at[e] # Off => at'[e] # Off
  PROVE  PortsLit(d, n)'
<1>1. \A q \in DOMAIN wiring.ports[d] : wiring.ports[d][q] # NoDevice => wiring.ports[d][q] \in Devices
  BY ChildrenAre
<1> QED BY <1>1 DEF PortsLit

LEMMA LitKept ==
  ASSUME wiring \in Wirings, UNCHANGED wiring, NEW f, f.pc \in Addressed, f.desc \in Devices, Lit(f),
         \A e \in Devices : at[e] # Off => at'[e] # Off
  PROVE  Lit(f)'
<1>1. \A n : PortsLit(f.desc, n) => PortsLit(f.desc, n)'
  BY PortsLitKept
<1>2. Ahead(f)' = Ahead(f)
  BY DEF Ahead
<1> QED BY <1>1, <1>2 DEF Lit

\* The calls when the innermost is replaced.
LEMMA ReplacedIs ==
  ASSUME Calls(stack), stack # << >>, NEW g, Replaced(g)
  PROVE  /\ DOMAIN stack' = DOMAIN stack /\ stack'[1] = g /\ Top' = g /\ 1 \in DOMAIN stack
         /\ Top = stack[1]
         /\ \A i \in DOMAIN stack : i = 1 \/ (i > 1 /\ stack'[i] = stack[i])
<1>1. /\ DOMAIN stack' = DOMAIN stack /\ stack'[1] = g /\ Head(stack') = g
      /\ \A i \in DOMAIN stack : i > 1 => stack'[i] = stack[i]
  BY StackIs DEF Replaced
<1>2. Len(stack) \in Nat \ {0} /\ DOMAIN stack = 1 .. Len(stack) /\ Top = stack[1]
  BY StackIs
<1>3. \A i \in DOMAIN stack : i = 1 \/ i > 1
  BY <1>2
<1> QED BY <1>1, <1>2, <1>3 DEF Top

\* If it stays at its device, the same devices have calls.
LEMMA OpenSame ==
  ASSUME Calls(stack), stack # << >>, NEW g, Replaced(g),
         \/ Top.pc \in Addressed /\ g.pc \in Addressed /\ g.desc = Top.desc
         \/ Top.pc \notin Addressed /\ g.pc \notin Addressed
  PROVE  \A d : OpenAt(d)' <=> OpenAt(d)
<1> SUFFICES ASSUME NEW d PROVE OpenAt(d)' <=> OpenAt(d)
  OBVIOUS
<1>1. /\ DOMAIN stack' = DOMAIN stack /\ stack'[1] = g /\ 1 \in DOMAIN stack /\ Top = stack[1]
      /\ \A i \in DOMAIN stack : i = 1 \/ (i > 1 /\ stack'[i] = stack[i])
  BY ReplacedIs
<1>2. \A i \in DOMAIN stack : (stack'[i].pc \in Addressed /\ stack'[i].desc = d)
                                <=> (stack[i].pc \in Addressed /\ stack[i].desc = d)
  BY <1>1
<1> QED BY <1>1, <1>2 DEF OpenAt

\* The lit calls when one is replaced.
LEMMA LitReplaced ==
  ASSUME AddressInv, WalkInv, TreeInv, UNCHANGED wiring, stack # << >>, NEW g, Replaced(g),
         \A e \in Devices : at[e] # Off => at'[e] # Off, g.pc \in Addressed => Lit(g)'
  PROVE  (\A i \in DOMAIN stack : stack[i].pc \in Addressed => Lit(stack[i]))'
<1>1. Calls(stack) /\ CallsRight /\ wiring \in Wirings
  BY DEF AddressInv, WalkInv, EnumTyped
<1>2. /\ DOMAIN stack' = DOMAIN stack /\ stack'[1] = g
      /\ \A i \in DOMAIN stack : i = 1 \/ (i > 1 /\ stack'[i] = stack[i])
  BY <1>1, ReplacedIs
<1>3. ASSUME NEW f, NEW i \in DOMAIN stack, f = stack[i], f.pc \in Addressed PROVE Lit(f)'
  <2>1. f.desc \in Devices /\ Lit(f)
    BY <1>1, <1>3 DEF CallsRight, CallRight, Speaks, TreeInv
  <2> QED BY <1>1, <1>3, <2>1, LitKept
<1>4. \A f : f.pc \in Addressed /\ (f = g \/ \E i \in DOMAIN stack : f = stack[i]) => Lit(f)'
  BY <1>3
<1>5. \A i \in DOMAIN stack' : stack'[i] = g \/ \E k \in DOMAIN stack : stack'[i] = stack[k]
  BY <1>2
<1> QED BY <1>4, <1>5

\* A step of the innermost call that takes no address and makes no light go out.
LEMMA TreeKept ==
  ASSUME AddressInv, WalkInv, TreeInv, UNCHANGED <<wiring, result, nextAddress>>, phase = "enumerate",
         phase' = "enumerate", stack # << >>, NEW g, Replaced(g),
         \A e \in Devices : at[e] # Off => at'[e] # Off, Awake' = Awake,
         \/ Top.pc \in Addressed /\ g.pc \in Addressed /\ g.desc = Top.desc /\ Lit(g)'
         \/ Top.pc \notin Addressed /\ g.pc \notin Addressed,
         TopFinds'
  PROVE  TreeInv'
<1>1. Calls(stack) /\ wiring \in Wirings /\ wiring.root \in Devices /\ Devices' = Devices
  BY WiringIs DEF AddressInv, WalkInv, EnumTyped, Devices
<1>2. (\A i \in DOMAIN stack : stack[i].pc \in Addressed => Lit(stack[i]))'
  BY LitReplaced
<1>3. \A d \in Awake : OpenAt(d)' \/ PortsLit(d, 0)'
  <2> SUFFICES ASSUME NEW d \in Awake PROVE OpenAt(d)' \/ PortsLit(d, 0)'
    OBVIOUS
  <2>1. d \in Devices
    BY DEF Awake
  <2>2. OpenAt(d) \/ PortsLit(d, 0)
    BY DEF TreeInv
  <2>3. OpenAt(d)' <=> OpenAt(d)
    BY <1>1, OpenSame
  <2> QED BY <1>1, <2>1, <2>2, <2>3, PortsLitKept
<1>4. /\ result' = "ok" /\ at'[wiring'.root] # Off /\ nextAddress' = Cardinality(Awake')
  BY <1>1 DEF TreeInv
<1>5. \A d \in Awake' : OpenAt(d)' \/ PortsLit(d, 0)'
  BY <1>3
<1> QED BY <1>2, <1>4, <1>5 DEF TreeInv

\* The hubs' interfaces that a call comes to.
LEMMA AheadIs ==
  ASSUME NEW f, f.pc \in Addressed \ AtHub
  PROVE  Ahead(f) = {h \in Hubs(wiring, f.desc) : Comes(f, h[1], h[2])}
BY DEF Ahead, Comes, Addressed, AtHub

LEMMA SameLit ==
  ASSUME Top.pc \in Addressed \ AtHub, NEW g, g.pc \in Addressed \ AtHub, g.desc = Top.desc,
         SameAhead(Top, g), Lit(Top), UNCHANGED <<wiring, at>>
  PROVE  Lit(g)'
<1>1. \A h \in Hubs(wiring, Top.desc) : Comes(g, h[1], h[2]) <=> Comes(Top, h[1], h[2])
  BY DEF SameAhead, Hubs
<1>2. Ahead(g) = Ahead(Top)
  BY <1>1, AheadIs
<1>3. Ahead(g)' = Ahead(g) /\ PortsLit(g.desc, 0)' = PortsLit(Top.desc, 0)
  BY DEF Ahead, PortsLit
<1> QED BY <1>2, <1>3 DEF Lit, Addressed, AtHub

LEMMA CountsReplaced ==
  ASSUME Calls(stack), stack # << >>, CountInv, NEW g, Replaced(g), Counts(g)
  PROVE  CountInv'
<1>1. /\ DOMAIN stack' = DOMAIN stack /\ stack'[1] = g
      /\ \A i \in DOMAIN stack : i = 1 \/ (i > 1 /\ stack'[i] = stack[i])
  BY ReplacedIs
<1>2. \A f : Counts(f)' <=> Counts(f)
  BY DEF Counts
<1>3. \A i \in DOMAIN stack' : Counts(stack'[i])
  BY <1>1 DEF CountInv
<1> QED BY <1>2, <1>3 DEF CountInv

\* What is known before a step when nothing has failed.
LEMMA FoundIs ==
  ASSUME AddressInv, WalkInv, TreeInv, NEW pc, Running(pc)
  PROVE  /\ Calls(stack) /\ stack # << >> /\ Top.pc = pc /\ DOMAIN Top = Fields
         /\ wiring \in Wirings /\ phase = "enumerate" /\ TopFinds /\ result = "ok"
         /\ pc \in Addressed => Lit(Top) /\ Top.desc \in Devices /\ at[Top.desc] \in 1 .. MaxAddress
<1>1. /\ Calls(stack) /\ stack # << >> /\ Top.pc = pc /\ DOMAIN Top = Fields
      /\ wiring \in Wirings /\ phase = "enumerate"
  BY WalkIs, PhaseIs
<1>2. TopFinds /\ result = "ok"
  BY <1>1 DEF TreeInv
<1>3. pc \in Addressed => Lit(Top)
  BY <1>1, StackIs DEF TreeInv
<1>4. pc \in Addressed => Top.desc \in Devices /\ at[Top.desc] \in 1 .. MaxAddress
  BY TopSpeaks, TopAddress DEF Speaks
<1> QED BY <1>1, <1>2, <1>3, <1>4

LEMMA GetDescriptorFound ==
  ASSUME AddressInv, WalkInv, CountInv, TreeInv, Smooth', GetDescriptor
  PROVE  /\ CountInv' /\ TreeInv' /\ UNCHANGED <<at, slots, result>>
         /\ \E g : Replaced(g) /\ Top.pc = "descriptor" /\ g.pc = "address"
<1>1. Running("descriptor") /\ UNCHANGED <<wiring, at, nextAddress, slots, phase>>
  BY DEF GetDescriptor, bootvars
<1>2. Top.pc = "descriptor" /\ Answering(0) # {} /\ DOMAIN Top = Fields
  BY <1>1, FoundIs DEF TopFinds
<1>3. PICK r \in Outcomes(0) :
        /\ Spend(0, r)
        /\ IF r = "ok"
           THEN \E d \in Answering(0) : Go([Top EXCEPT !.pc = "address", !.desc = d])
           ELSE Fail(r)
  BY DEF GetDescriptor
<1>4. r = "ok"
  BY <1>2, <1>3, NotFailed DEF Failed, Smooth
<1>5. PICK d \in Answering(0) : Go([Top EXCEPT !.pc = "address", !.desc = d])
  BY <1>3, <1>4
<1>6. PICK g : g = [Top EXCEPT !.pc = "address", !.desc = d]
  OBVIOUS
<1>7. g.pc = "address" /\ DOMAIN g = DOMAIN Call
  BY <1>2, <1>6, CallFields DEF Fields
<1>8. Replaced(g) /\ result' = result
  BY <1>5, <1>6, <1>7 DEF Go, Replaced
<1>9. Counts(g)
  BY <1>7 DEF Counts, Addressed
<1>10. Top' = g
  BY <1>1, <1>8, FoundIs, ReplacedIs
<1>11. TopFinds'
  BY <1>7, <1>10 DEF TopFinds
<1>12. Awake' = Awake
  BY <1>1 DEF Awake, Devices
<1>13. TreeInv'
  <2>1. Top.pc \notin Addressed /\ g.pc \notin Addressed
    BY <1>2, <1>7 DEF Addressed
  <2>2. phase' = "enumerate" /\ phase = "enumerate" /\ stack # << >>
    BY <1>1, FoundIs
  <2> QED BY <1>1, <1>8, <1>11, <1>12, <2>1, <2>2, TreeKept
<1>14. CountInv'
  BY <1>1, <1>8, <1>9, FoundIs, CountsReplaced
<1> QED BY <1>1, <1>2, <1>7, <1>8, <1>13, <1>14

\* A step of a call that has an address, which leaves all addresses.
LEMMA OnwardFound ==
  ASSUME AddressInv, WalkInv, CountInv, TreeInv, UNCHANGED <<wiring, at, nextAddress, phase>>,
         NEW pc \in Addressed \ AtHub, Running(pc),
         NEW g, Onward(g), g.pc \in Addressed \ AtHub, SameAhead(Top, g)
  PROVE  CountInv' /\ TreeInv'
<1>1. Calls(stack) /\ stack # << >> /\ Top.pc = pc /\ Lit(Top) /\ phase = "enumerate" /\ result' = result
  BY FoundIs DEF Onward
<1>2. Replaced(g) /\ Counts(g) /\ g.desc = Top.desc
  BY DEF Onward
<1>3. CountInv'
  BY <1>1, <1>2, CountsReplaced
<1>4. Lit(g)'
  BY <1>1, <1>2, SameLit
<1>5. Top' = g
  BY <1>1, <1>2, ReplacedIs
<1>6. TopFinds'
  BY <1>5 DEF TopFinds, AtHub, Addressed
<1>7. Awake' = Awake
  BY DEF Awake, Devices
<1> QED BY <1>1, <1>2, <1>3, <1>4, <1>6, <1>7, TreeKept

LEMMA GetCfgDescFound ==
  ASSUME AddressInv, WalkInv, CountInv, TreeInv, Smooth, Smooth', GetCfgDesc
  PROVE  /\ CountInv' /\ TreeInv' /\ UNCHANGED <<at, slots>>
         /\ \E g : Onward(g) /\ Top.pc = "config" /\ g.pc = "interface" /\ SameAhead(Top, g)
<1>1. /\ Running("config") /\ UNCHANGED <<wiring, at, nextAddress, phase, slots>>
      /\ "config" \in Addressed \ AtHub /\ "interface" \in Addressed \ AtHub
  BY DEF GetCfgDesc, bootvars, Addressed, AtHub
<1>2. ~Failed(Top.address)
  BY <1>1, TopAnswers, NotFailed DEF Smooth
<1>3. PICK g : Onward(g) /\ g.pc = "interface" /\ SameAhead(Top, g)
  BY <1>2, GetCfgDescGoes DEF Smooth
<1> QED BY <1>1, <1>3, OnwardFound, FoundIs

LEMMA IdClassDrvFound ==
  ASSUME AddressInv, WalkInv, CountInv, TreeInv, Smooth, Smooth', IdClassDrv
  PROVE  /\ CountInv' /\ TreeInv' /\ UNCHANGED <<at, slots>>
         /\ \E g : Onward(g) /\ Top.pc = "interface" /\ g.pc = "configure" /\ SameAhead(Top, g)
<1>1. /\ Running("interface") /\ UNCHANGED <<wiring, at, nextAddress, phase, slots>>
      /\ "interface" \in Addressed \ AtHub /\ "configure" \in Addressed \ AtHub
  BY DEF IdClassDrv, bootvars, Addressed, AtHub
<1>2. PICK g : Onward(g) /\ g.pc = "configure" /\ SameAhead(Top, g)
  BY IdClassDrvGoes DEF Smooth
<1> QED BY <1>1, <1>2, OnwardFound, FoundIs

LEMMA ParseEndpointFound ==
  ASSUME AddressInv, WalkInv, CountInv, TreeInv, Smooth, Smooth', ParseEndpoint
  PROVE  /\ CountInv' /\ TreeInv' /\ UNCHANGED at
         /\ \E g : Onward(g) /\ Top.pc = "endpoint" /\ SameAhead(Top, g) /\ NextOf(g)
<1>1. /\ Running("endpoint") /\ UNCHANGED <<wiring, at, nextAddress, phase>>
      /\ "endpoint" \in Addressed \ AtHub /\ {"endpoint", "interface", "config"} \subseteq Addressed \ AtHub
  BY DEF ParseEndpoint, bootvars, Addressed, AtHub
<1>2. PICK g : Onward(g) /\ SameAhead(Top, g) /\ NextOf(g)
  BY ParseEndpointGoes DEF Smooth
<1>3. g.pc \in Addressed \ AtHub
  BY <1>1, <1>2 DEF NextOf
<1> QED BY <1>1, <1>2, <1>3, OnwardFound, FoundIs

\* The device of the innermost call takes its address.
LEMMA SetAddressFound ==
  ASSUME AddressInv, WalkInv, CountInv, TreeInv, Smooth, Smooth', SetAddress
  PROVE  /\ CountInv' /\ TreeInv' /\ UNCHANGED <<slots, result>>
         /\ Awake' = Awake \cup {Top.desc} /\ Top.desc \notin Awake
         /\ \A d \in Awake : at'[d] = at[d]
         /\ \E g : Replaced(g) /\ Top.pc = "address" /\ g.pc = "config" /\ g.config = 0 /\ g.desc = Top.desc
<1>1. /\ Running("address") /\ UNCHANGED <<wiring, slots, phase>> /\ nextAddress < MaxAddress
      /\ nextAddress' = nextAddress + 1
  BY DEF SetAddress, bootvars, NewAddress
<1>2. /\ Top.pc = "address" /\ DOMAIN Top = Fields /\ wiring \in Wirings /\ stack # << >>
      /\ Calls(stack) /\ phase = "enumerate"
  BY <1>1, FoundIs
<1>3. Top.desc \in Devices /\ at[Top.desc] = 0
  BY <1>2 DEF WalkInv, CallsRight
<1>4. Answering(0) = {Top.desc}
  <2>1. \A d \in Answering(0) : d = Top.desc
    BY <1>3 DEF Answering, AddressInv, OneAnswers, Off
  <2> QED BY <1>3, <2>1 DEF Answering
<1>5. PICK r \in Outcomes(0), taken \in SUBSET Answering(0) :
       /\ r = "ok" => taken = Answering(0)
       /\ Spend(0, r)
       /\ at' = [d \in Devices |-> IF d \in taken THEN nextAddress + 1 ELSE at[d]]
       /\ IF r = "ok"
          THEN Go([Top EXCEPT !.pc = "config", !.address = nextAddress + 1, !.config = 0])
          ELSE Fail(r)
  BY DEF SetAddress, NewAddress
<1>6. r = "ok"
  BY <1>4, <1>5, NotFailed DEF Failed, Smooth
<1>7. at' = [d \in Devices |-> IF d = Top.desc THEN nextAddress + 1 ELSE at[d]]
  BY <1>4, <1>5, <1>6
<1>8. PICK g : g = [Top EXCEPT !.pc = "config", !.address = nextAddress + 1, !.config = 0]
  OBVIOUS
<1>9. g.pc = "config" /\ g.config = 0 /\ g.desc = Top.desc /\ DOMAIN g = DOMAIN Call
  BY <1>2, <1>8, CallFields DEF Fields
<1>10. Replaced(g) /\ result' = result
  BY <1>5, <1>6, <1>8, <1>9 DEF Go, Replaced
<1>11. nextAddress \in Nat /\ nextAddress + 1 # 0 /\ nextAddress + 1 # Off
  <2>1. nextAddress \in Nat
    BY DEF AddressInv
  <2> QED BY <1>1, <2>1 DEF MaxAddress, Off
<1>12. Devices' = Devices /\ \A d \in Devices : at'[d] = IF d = Top.desc THEN nextAddress + 1 ELSE at[d]
  BY <1>1, <1>7 DEF Devices
<1>13. Awake' = Awake \cup {Top.desc} /\ Top.desc \notin Awake /\ \A d \in Awake : at'[d] = at[d]
  BY <1>3, <1>11, <1>12 DEF Awake
<1>14. \A e \in Devices : at[e] # Off => at'[e] # Off
  BY <1>11, <1>12
<1>15. Top' = g
  BY <1>2, <1>10, ReplacedIs
<1>16. CountInv'
  <2>1. Counts(g)
    BY <1>9 DEF Counts
  <2> QED BY <1>2, <1>10, <2>1, CountsReplaced
<1>17. Lit(g)'
  <2>1. Ahead(g) = Hubs(wiring, Top.desc)
    <3>1. \A h \in Hubs(wiring, Top.desc) : h[1] \in DOMAIN wiring.configs[Top.desc]
      BY HubsAre
    <3>2. \A h \in Hubs(wiring, Top.desc) : h[1] > 0 + 1 \/ h[1] = 0 + 1
      BY <1>2, <1>3, <3>1, ConfigsAre
    <3> QED BY <1>9, <3>2 DEF Ahead
  <2>2. Ahead(g)' = Ahead(g)
    BY <1>1 DEF Ahead
  <2>3. Hubs(wiring, Top.desc) = {} => Children(wiring, Top.desc) = {}
    BY <1>3 DEF Smooth, Orderly, Ordinary, Devices
  <2>4. ASSUME NEW d, d = Top.desc, Children(wiring, d) = {} PROVE PortsLit(d, 0)'
    <3>1. \A q \in DOMAIN wiring.ports[d] :
            wiring.ports[d][q] # NoDevice => wiring.ports[d][q] \in Children(wiring, d)
      BY <1>2, <1>3, <2>4, ChildrenAre
    <3>2. PortsLit(d, 0)
      BY <2>4, <3>1 DEF PortsLit
    <3> QED BY <1>1, <1>2, <1>3, <1>14, <2>4, <3>2, PortsLitKept
  <2>5. Ahead(g)' = {} => PortsLit(g.desc, 0)'
    BY <1>9, <2>1, <2>2, <2>3, <2>4
  <2> QED BY <1>9, <2>5 DEF Lit, AtHub
<1>18. nextAddress' = Cardinality(Awake')
  <2>1. IsFiniteSet(Devices) /\ Awake \subseteq Devices
    BY DEF Smooth, Orderly, Ordinary, Devices, Awake
  <2>2. IsFiniteSet(Awake)
    BY <2>1, FS_Subset
  <2>3. Cardinality(Awake \cup {Top.desc}) = Cardinality(Awake) + 1
    BY <1>13, <2>2, FS_AddElement
  <2> QED BY <1>1, <1>13, <2>3 DEF TreeInv
<1>19. \A d \in Awake' : OpenAt(d)' \/ PortsLit(d, 0)'
  <2>1. /\ DOMAIN stack' = DOMAIN stack /\ stack'[1] = g /\ 1 \in DOMAIN stack /\ Top = stack[1]
        /\ \A i \in DOMAIN stack : i = 1 \/ (i > 1 /\ stack'[i] = stack[i])
    BY <1>2, <1>10, ReplacedIs
  <2>2. OpenAt(g.desc)'
    BY <1>9, <2>1 DEF OpenAt, Addressed
  <2>3. ASSUME NEW d \in Awake PROVE OpenAt(d)' \/ PortsLit(d, 0)'
    <3>1. OpenAt(d) => OpenAt(d)'
      <4>1. Top.pc \notin Addressed
        BY <1>2 DEF Addressed
      <4>2. \A i \in DOMAIN stack : stack[i].pc \in Addressed => stack'[i] = stack[i]
        BY <2>1, <4>1
      <4> QED BY <2>1, <4>2 DEF OpenAt
    <3>2. d \in Devices /\ (OpenAt(d) \/ PortsLit(d, 0))
      BY DEF TreeInv, Awake
    <3> QED BY <1>1, <1>2, <1>14, <3>1, <3>2, PortsLitKept
  <2>4. \A d : d \in Awake' => d \in Awake \/ d = g.desc
    BY <1>9, <1>13
  <2>5. \A d : d \in Awake' => OpenAt(d)' \/ PortsLit(d, 0)'
    BY <2>2, <2>3, <2>4
  <2> QED BY <2>5
<1>20. TreeInv'
  <2>1. (\A i \in DOMAIN stack : stack[i].pc \in Addressed => Lit(stack[i]))'
    BY <1>1, <1>2, <1>10, <1>14, <1>17, LitReplaced
  <2>2. at'[wiring'.root] # Off
    BY <1>1, <1>2, <1>14, WiringIs DEF TreeInv
  <2>3. result' = "ok" /\ phase' = "enumerate"
    BY <1>1, <1>2, <1>10 DEF TreeInv
  <2>4. TopFinds'
    BY <1>9, <1>15 DEF TopFinds, Addressed
  <2> QED BY <1>18, <1>19, <2>1, <2>2, <2>3, <2>4 DEF TreeInv
<1> QED BY <1>1, <1>2, <1>9, <1>10, <1>13, <1>16, <1>20

\* A call that has read all the configurations leaves nothing dark behind it.
LEMMA AllConfigsReadFound ==
  ASSUME AddressInv, WalkInv, CountInv, TreeInv, Smooth, Smooth', AllConfigsRead
  PROVE  /\ CountInv' /\ TreeInv' /\ UNCHANGED <<at, slots>>
         /\ Top.pc = "config" /\ Top.config = Len(wiring.configs[Top.desc])
         /\ \E g : Replaced(g) /\ g.pc = "return"
<1>1. /\ Running("config") /\ UNCHANGED <<wiring, at, nextAddress, slots, phase>>
      /\ Top.config = Len(wiring.configs[Top.desc]) /\ "config" \in Addressed \ AtHub
      /\ stack' = <<[Top EXCEPT !.pc = "return"]>> \o Tail(stack) /\ result' = "ok"
  BY DEF AllConfigsRead, Returns, bootvars, Addressed, AtHub
<1>2. /\ Calls(stack) /\ stack # << >> /\ Top.pc = "config" /\ DOMAIN Top = Fields
      /\ wiring \in Wirings /\ phase = "enumerate" /\ Lit(Top) /\ Top.desc \in Devices
  BY <1>1, FoundIs
<1>3. PICK g : g = [Top EXCEPT !.pc = "return"]
  OBVIOUS
<1>4. g.pc = "return" /\ Replaced(g)
  BY <1>1, <1>2, <1>3, CallFields DEF Fields, Replaced
<1>5. /\ DOMAIN stack' = DOMAIN stack /\ stack'[1] = g /\ Top' = g /\ 1 \in DOMAIN stack
      /\ Top = stack[1] /\ \A i \in DOMAIN stack : i = 1 \/ (i > 1 /\ stack'[i] = stack[i])
  BY <1>2, <1>4, ReplacedIs
<1>6. CountInv'
  <2>1. Counts(g)
    BY <1>4 DEF Counts, Addressed
  <2> QED BY <1>2, <1>4, <2>1, CountsReplaced
<1>7. PortsLit(Top.desc, 0)
  <2>1. \A h \in Hubs(wiring, Top.desc) : h[1] \in DOMAIN wiring.configs[Top.desc]
    BY HubsAre
  <2>2. \A h \in Hubs(wiring, Top.desc) : ~(h[1] > Top.config + 1) /\ h[1] # Top.config + 1
    BY <1>1, <1>2, <2>1, ConfigsAre
  <2>3. Ahead(Top) = {}
    BY <2>2 DEF Ahead
  <2> QED BY <1>1, <1>2, <2>3 DEF Lit
<1>8. ASSUME NEW d \in Awake PROVE OpenAt(d)' \/ PortsLit(d, 0)
  <2>1. CASE d = Top.desc
    BY <1>7, <2>1
  <2>2. CASE d # Top.desc
    <3>1. OpenAt(d) => OpenAt(d)'
      BY <1>5, <2>2 DEF OpenAt
    <3> QED BY <3>1 DEF TreeInv
  <2> QED BY <2>1, <2>2
<1>9. Devices' = Devices /\ Awake' = Awake /\ \A d : PortsLit(d, 0)' <=> PortsLit(d, 0)
  BY <1>1 DEF Awake, Devices, PortsLit
<1>10. \A d \in Awake' : OpenAt(d)' \/ PortsLit(d, 0)'
  BY <1>8, <1>9
<1>11. (\A i \in DOMAIN stack : stack[i].pc \in Addressed => Lit(stack[i]))'
  <2>1. g.pc \notin Addressed
    BY <1>4 DEF Addressed
  <2> QED BY <1>1, <1>2, <1>4, <2>1, LitReplaced
<1>12. TopFinds'
  BY <1>4, <1>5 DEF TopFinds
<1>13. TreeInv'
  BY <1>1, <1>2, <1>9, <1>10, <1>11, <1>12 DEF TreeInv
<1> QED BY <1>1, <1>2, <1>4, <1>6, <1>13

\* A call at the ports of a hub.
LEMMA HubFound ==
  ASSUME AddressInv, WalkInv, CountInv, TreeInv, UNCHANGED <<wiring, nextAddress, phase>>,
         NEW pc \in AtHub, Running(pc), NEW g, Moved(g), g.pc \in AtHub \cup {"endpoint"},
         \A e \in Devices : at[e] # Off => at'[e] # Off, Awake' = Awake, Lit(g)', TopFinds'
  PROVE  CountInv' /\ TreeInv'
<1>1. /\ Calls(stack) /\ stack # << >> /\ Top.pc = pc /\ phase = "enumerate"
  BY FoundIs DEF AtHub, Addressed
<1>2. Replaced(g) /\ SameCall(Top, g) /\ result' = result /\ g.desc = Top.desc
  BY DEF Moved, SameCall
<1>3. Counts(g)
  <2>1. Counts(Top)
    BY <1>1, StackIs DEF CountInv
  <2> QED BY <1>1, <1>2, <2>1, SameCounts
<1>4. CountInv'
  BY <1>1, <1>2, <1>3, CountsReplaced
<1>5. Top.pc \in Addressed /\ g.pc \in Addressed
  BY <1>1 DEF AtHub, Addressed
<1> QED BY <1>1, <1>2, <1>4, <1>5, TreeKept

\* The switch, as long as there is place for a slot.
LEMMA CapDrvIntfFound ==
  ASSUME AddressInv, WalkInv, CountInv, TreeInv, Smooth, Smooth', CapDrvIntf,
         Top.type \in SlotTypes => FindFirstFree # End
  PROVE  /\ CountInv' /\ TreeInv' /\ UNCHANGED at
         /\ Top.pc = "configure" /\ \E g : Configured(g)
         /\ IF Top.type \in SlotTypes
            THEN slots' = SlotLaid(FindFirstFree, NewSlot(Top)) ELSE slots' = slots
<1>1. /\ Running("configure") /\ UNCHANGED <<wiring, at, nextAddress, phase>>
      /\ "configure" \in Addressed \ AtHub
  BY DEF CapDrvIntf, bootvars, Addressed, AtHub
<1>2. ~Failed(Top.address)
  BY <1>1, TopAnswers, NotFailed DEF Smooth
<1>3. Switched
  BY CapDrvIntfGoes
<1>4. PICK g : Configured(g)
  BY <1>2, <1>3 DEF Switched
<1>5. /\ Calls(stack) /\ stack # << >> /\ Top.pc = "configure" /\ DOMAIN Top = Fields
      /\ wiring \in Wirings /\ phase = "enumerate" /\ Lit(Top) /\ Top.desc \in Devices
  BY <1>1, FoundIs
<1>6. /\ Replaced(g) /\ SameCall(Top, g) /\ result' = result /\ g.desc = Top.desc
      /\ g.config = Top.config /\ g.interface = Top.interface
      /\ g.pc = IF Top.type = "hub" THEN "hub" ELSE "endpoint"
  BY <1>4 DEF Configured, SameCall
<1>7. g.pc \in AtHub \cup {"endpoint"} /\ g.pc \in Addressed
  BY <1>6 DEF AtHub, Addressed
<1>8. CountInv'
  <2>1. Counts(Top)
    BY <1>5, StackIs DEF CountInv
  <2>2. Counts(g)
    BY <1>5, <1>6, <1>7, <2>1, SameCounts
  <2> QED BY <1>5, <1>6, <2>2, CountsReplaced
<1>9. Lit(g)'
  <2>1. CASE Top.type = "hub"
    BY <1>6, <2>1 DEF Lit, AtHub
  <2>2. CASE Top.type # "hub"
    <3>1. g.pc = "endpoint" /\ g.pc \in Addressed \ AtHub
      BY <1>6, <2>2 DEF Addressed, AtHub
    <3>2. /\ Top.interface \in Interfaces(Top.descs) /\ Top.descs = wiring.configs[Top.desc][Top.config + 1]
          /\ Top.type = IdentifyClassDriver(Top.descs[Top.interface]) /\ Top.interface \in Nat
          /\ DOMAIN Top.descs = 1 .. Len(Top.descs)
      BY <1>1, <1>5, TopSpeaks, TopReads DEF Reads, AtHub, Interfaces
    <3>3. ASSUME NEW h \in Hubs(wiring, Top.desc)
          PROVE  h[1] = Top.config + 1 => (h[2] >= Top.interface <=> h[2] > Top.interface)
      <4>1. /\ h[1] = Top.config + 1 => h[2] \in DOMAIN Top.descs
            /\ h[1] = Top.config + 1 => IdentifyClassDriver(Top.descs[h[2]]) = "hub"
        <5>1. PICK n \in DOMAIN wiring.configs[Top.desc], i \in Interfaces(wiring.configs[Top.desc][h[1]]) :
                h = <<n, i>> /\ IdentifyClassDriver(wiring.configs[Top.desc][n][i]) = "hub"
          BY DEF Hubs
        <5> QED BY <3>2, <5>1 DEF Interfaces
      <4>2. h[1] = Top.config + 1 => h[2] # Top.interface /\ h[2] \in Nat
        BY <2>2, <3>2, <4>1
      <4> QED BY <3>2, <4>2
    <3>4. Ahead(g) = Ahead(Top)
      BY <1>5, <1>6, <3>1, <3>3 DEF Ahead
    <3>5. Ahead(g)' = Ahead(g) /\ PortsLit(g.desc, 0)' = PortsLit(Top.desc, 0)
      BY <1>1, <1>6 DEF Ahead, PortsLit
    <3> QED BY <1>1, <1>5, <3>1, <3>4, <3>5 DEF Lit
  <2> QED BY <2>1, <2>2
<1>10. Top' = g
  BY <1>5, <1>6, ReplacedIs
<1>11. TopFinds'
  BY <1>6, <1>10 DEF TopFinds, AtHub, Addressed
<1>12. Awake' = Awake
  BY <1>1 DEF Awake, Devices
<1>13. TreeInv'
  BY <1>1, <1>5, <1>6, <1>7, <1>9, <1>11, <1>12, TreeKept
<1> QED BY <1>1, <1>3, <1>4, <1>5, <1>8, <1>13 DEF Switched

\* One port more is lit.
LEMMA PortLit ==
  ASSUME wiring \in Wirings, UNCHANGED wiring, NEW d \in Devices, NEW n \in DOMAIN wiring.ports[d],
         PortsLit(d, n), \A e \in Devices : at[e] # Off => at'[e] # Off,
         wiring.ports[d][n] # NoDevice => at'[wiring.ports[d][n]] # Off
  PROVE  PortsLit(d, n - 1)'
<1>1. PortsLit(d, n)'
  BY PortsLitKept
<1>2. DOMAIN wiring.ports[d] = 1 .. Len(wiring.ports[d]) /\ Len(wiring.ports[d]) \in Nat
  BY ChildrenAre
<1>3. \A q \in DOMAIN wiring.ports[d] : q > n - 1 => q = n \/ q > n
  BY <1>2
<1> QED BY <1>1, <1>3 DEF PortsLit

LEMMA HubGetDescriptorFound ==
  ASSUME AddressInv, WalkInv, CountInv, TreeInv, Smooth', HubGetDescriptor
  PROVE  /\ CountInv' /\ TreeInv' /\ UNCHANGED <<at, slots>>
         /\ \E g : Moved(g) /\ Top.pc \in AtHub /\ g.pc \in AtHub
<1>1. /\ Running("hub") /\ UNCHANGED <<wiring, at, nextAddress, phase, slots>>
      /\ "hub" \in AtHub /\ "hub" \in Addressed
  BY DEF HubGetDescriptor, bootvars, Addressed, AtHub
<1>2. ~Failed(Top.address)
  BY <1>1, TopAnswers, NotFailed DEF Smooth
<1>3. PICK g : Moved(g) /\ g.pc = "power" /\ g.port = Len(wiring.ports[Top.desc])
  BY <1>2, HubGetDescriptorGoes
<1>4. g.pc \in AtHub /\ Replaced(g) /\ g.desc = Top.desc
  BY <1>3 DEF AtHub, Moved, SameCall
<1>5. Lit(g)'
  <2>1. Len(wiring.ports[g.desc]) \in Nat /\ DOMAIN wiring.ports[g.desc] = 1 .. Len(wiring.ports[g.desc])
    BY <1>1, <1>4, TopSpeaks
  <2>2. PortsLit(g.desc, g.port)'
    BY <1>1, <1>3, <1>4, <2>1 DEF PortsLit
  <2> QED BY <1>3, <2>2 DEF Lit, AtHub
<1>6. Awake' = Awake /\ TopFinds'
  <2>1. Top' = g
    BY <1>1, <1>4, FoundIs, ReplacedIs
  <2> QED BY <1>1, <1>3, <2>1 DEF TopFinds, Addressed, Awake, Devices
<1>7. CountInv' /\ TreeInv'
  BY <1>1, <1>3, <1>4, <1>5, <1>6, HubFound
<1>8. Top.pc \in AtHub
  BY <1>1, FoundIs
<1> QED BY <1>1, <1>3, <1>4, <1>7, <1>8

LEMMA PortPowerFound ==
  ASSUME AddressInv, WalkInv, CountInv, TreeInv, Smooth', PortPower
  PROVE  /\ CountInv' /\ TreeInv' /\ UNCHANGED <<at, slots>>
         /\ \E g : Moved(g) /\ Top.pc \in AtHub /\ g.pc \in AtHub
<1>1. /\ Running("power") /\ UNCHANGED <<wiring, nextAddress, phase, slots>>
      /\ "power" \in AtHub /\ "power" \in Addressed
  BY DEF PortPower, bootvars, Addressed, AtHub
<1>2. UNCHANGED at
  BY PortPowerCalls
<1>3. ~Failed(Top.address)
  BY <1>1, TopAnswers, NotFailed DEF Smooth
<1>4. PICK g : Moved(g) /\ g.pc = "reset" /\ g.port = Top.port
  BY <1>3, PortPowerGoes
<1>5. g.pc \in AtHub /\ Replaced(g) /\ g.desc = Top.desc
  BY <1>4 DEF AtHub, Moved, SameCall
<1>6. Lit(g)'
  <2>1. PortsLit(Top.desc, Top.port)
    BY <1>1, FoundIs DEF Lit
  <2>2. PortsLit(g.desc, g.port)'
    BY <1>1, <1>2, <1>4, <1>5, <2>1 DEF PortsLit
  <2> QED BY <1>4, <2>2 DEF Lit, AtHub
<1>7. Awake' = Awake /\ TopFinds'
  <2>1. Top' = g
    BY <1>1, <1>5, FoundIs, ReplacedIs
  <2> QED BY <1>1, <1>2, <1>4, <2>1 DEF TopFinds, Addressed, Awake, Devices
<1>8. CountInv' /\ TreeInv'
  BY <1>1, <1>2, <1>4, <1>5, <1>6, <1>7, HubFound
<1>9. Top.pc \in AtHub
  BY <1>1, FoundIs
<1> QED BY <1>1, <1>2, <1>4, <1>5, <1>8, <1>9

\* The device on the port is there to be asked.
LEMMA PortResetFound ==
  ASSUME AddressInv, WalkInv, CountInv, TreeInv, Smooth', PortReset
  PROVE  /\ CountInv' /\ TreeInv' /\ UNCHANGED slots /\ Awake' = Awake
         /\ \A d \in Awake : at'[d] = at[d]
         /\ \E g : Moved(g) /\ Top.pc \in AtHub /\ g.pc \in AtHub
<1>1. /\ Running("reset") /\ UNCHANGED <<wiring, nextAddress, phase, slots>>
      /\ "reset" \in AtHub \ {"hub"} /\ "reset" \in Addressed
  BY DEF PortReset, bootvars, Addressed, AtHub
<1>2. ~Failed(Top.address)
  BY <1>1, TopAnswers, NotFailed DEF Smooth
<1>3. PICK g : /\ Moved(g) /\ g.pc = "status" /\ g.port = Top.port
               /\ at' = IF Child # NoDevice THEN [PowerOff EXCEPT ![Child] = 0] ELSE at
  BY <1>2, PortResetGoes
<1>4. g.pc \in AtHub /\ Replaced(g) /\ g.desc = Top.desc
  BY <1>3 DEF AtHub, Moved, SameCall
<1>5. PICK c : c = Child
  OBVIOUS
<1>6. /\ Top.port \in DOMAIN wiring.ports[Top.desc] /\ Top.port \in Nat \ {0}
      /\ c = wiring.ports[Top.desc][Top.port]
      /\ c # NoDevice => c \in Devices /\ at[c] = Off
  BY <1>1, <1>5, ChildIs
<1>7. Devices' = Devices /\ wiring \in Wirings /\ Top.desc \in Devices
      /\ DOMAIN wiring.ports[Top.desc] = 1 .. Len(wiring.ports[Top.desc]) /\ Len(wiring.ports[Top.desc]) \in Nat
  BY <1>1, FoundIs, TopSpeaks DEF Devices
<1>8. \A e \in Devices : at'[e] = IF e = c /\ c # NoDevice THEN 0 ELSE at[e]
  <2>1. PowerOff = at
    BY <1>1, PowerOffIs
  <2>2. at \in [Devices -> 0 .. Off]
    BY DEF WalkInv, EnumTyped
  <2>3. CASE c = NoDevice
    <3>1. at' = at
      BY <1>3, <1>5, <2>3
    <3> QED BY <2>3, <3>1
  <2>4. CASE c # NoDevice
    <3>1. at' = [at EXCEPT ![c] = 0]
      BY <1>3, <1>5, <2>1, <2>4
    <3> QED BY <1>6, <2>2, <2>4, <3>1
  <2> QED BY <2>3, <2>4
<1>9. \A e \in Devices : at[e] # Off => at'[e] # Off
  BY <1>8 DEF Off
<1>10. Awake' = Awake /\ \A d \in Awake : at'[d] = at[d]
  <2>1. \A e \in Devices : e = c /\ c # NoDevice => at[e] = Off
    BY <1>6
  <2>2. \A e \in Devices : at'[e] \in {0, Off} <=> at[e] \in {0, Off}
    BY <1>8, <2>1
  <2>3. \A e \in Devices : at[e] \notin {0, Off} => at'[e] = at[e]
    BY <1>8, <2>1
  <2> QED BY <1>7, <2>2, <2>3 DEF Awake
<1>11. Lit(g)'
  <2>1. PortsLit(Top.desc, Top.port)
    BY <1>1, FoundIs DEF Lit
  <2>2. wiring.ports[Top.desc][Top.port] # NoDevice => at'[wiring.ports[Top.desc][Top.port]] # Off
    BY <1>6, <1>8 DEF Off
  <2>3. ASSUME NEW d, d = Top.desc, NEW q, q = Top.port PROVE PortsLit(d, q - 1)'
    BY <1>1, <1>6, <1>7, <1>9, <2>1, <2>2, <2>3, PortLit
  <2>4. PortsLit(g.desc, g.port - 1)'
    BY <1>3, <1>4, <2>3
  <2> QED BY <1>3, <2>4 DEF Lit, AtHub
<1>12. TopFinds'
  <2>1. Top' = g
    BY <1>1, <1>4, FoundIs, ReplacedIs
  <2>2. Child' = c
    BY <1>1, <1>3, <1>4, <1>6, <2>1 DEF Child
  <2>3. c # NoDevice => at'[c] = 0
    BY <1>6, <1>8
  <2> QED BY <1>3, <2>1, <2>2, <2>3 DEF TopFinds, Addressed
<1>13. CountInv' /\ TreeInv'
  BY <1>1, <1>3, <1>4, <1>9, <1>10, <1>11, <1>12, HubFound
<1>14. Top.pc \in AtHub
  BY <1>1, FoundIs
<1> QED BY <1>1, <1>3, <1>4, <1>10, <1>13, <1>14

\* The port says what is on it.
LEMMA PortStatusFound ==
  ASSUME AddressInv, WalkInv, CountInv, TreeInv, Smooth', PortStatus
  PROVE  /\ CountInv' /\ TreeInv' /\ UNCHANGED <<at, slots>>
         /\ \E g : Moved(g) /\ Top.pc \in AtHub /\ g.pc \in AtHub
<1>1. /\ Running("status") /\ UNCHANGED <<wiring, at, nextAddress, phase, slots>>
      /\ "status" \in AtHub \ {"hub"} /\ "status" \in Addressed
  BY DEF PortStatus, bootvars, Addressed, AtHub
<1>2. ~Failed(Top.address)
  BY <1>1, TopAnswers, NotFailed DEF Smooth
<1>3. PICK c : c = Child
  OBVIOUS
<1>4. PICK g : Moved(g) /\ g.port = Top.port /\ g.pc = IF c = NoDevice THEN "empty" ELSE "changes"
  <2>1. faults \in 0 .. Faults /\ Faults \in Nat /\ faults' = Faults
    BY BoundsAssumption DEF WalkInv, EnumTyped, Smooth
  <2>2. faults' # faults - 1
    BY <2>1
  <2> QED BY <1>2, <1>3, <2>2, PortStatusGoes
<1>5. g.pc \in AtHub /\ Replaced(g) /\ g.desc = Top.desc /\ g.pc \in {"empty", "changes"}
  BY <1>4 DEF AtHub, Moved, SameCall
<1>6. Lit(g)'
  <2>1. PortsLit(Top.desc, Top.port - 1)
    BY <1>1, FoundIs DEF Lit
  <2>2. PortsLit(g.desc, g.port - 1)'
    BY <1>1, <1>4, <1>5, <2>1 DEF PortsLit
  <2> QED BY <1>5, <2>2 DEF Lit, AtHub
<1>7. Awake' = Awake /\ TopFinds'
  <2>1. Top' = g
    BY <1>1, <1>5, FoundIs, ReplacedIs
  <2>2. Child' = c
    BY <1>1, <1>3, <1>4, <1>5, <2>1 DEF Child
  <2>3. c # NoDevice => at'[c] = 0
    BY <1>1, <1>3, FoundIs DEF TopFinds
  <2>4. TopFinds'
    BY <1>4, <1>5, <2>1, <2>2, <2>3 DEF TopFinds, Addressed
  <2> QED BY <1>1, <2>4 DEF Awake, Devices
<1>8. CountInv' /\ TreeInv'
  BY <1>1, <1>4, <1>5, <1>6, <1>7, HubFound
<1>9. Top.pc \in AtHub
  BY <1>1, FoundIs
<1> QED BY <1>1, <1>4, <1>5, <1>8, <1>9

\* A call that is done with a port is at the next, or at the end of its hub.
LEMMA PortDoneLit ==
  ASSUME wiring \in Wirings, UNCHANGED wiring, NEW f, f.pc \in AtHub, f.desc \in Devices,
         f.port \in DOMAIN wiring.ports[f.desc], PortsLit(f.desc, f.port - 1)', NEW g, PortDone(f, g)
  PROVE  g.pc \in AtHub \cup {"endpoint"} /\ g.pc \in Addressed /\ g.pc \notin {"status", "changes", "empty"} /\ Lit(g)'
<1>1. g.desc = f.desc /\ IF f.port = 1 THEN g.pc = "endpoint" ELSE g.pc = "power" /\ g.port = f.port - 1
  BY DEF PortDone, SameCall
<1>2. CASE f.port = 1
  <2>1. PortsLit(g.desc, 0)'
    BY <1>1, <1>2
  <2> QED BY <1>1, <1>2, <2>1 DEF Lit, AtHub, Addressed
<1>3. CASE f.port # 1
  <2>1. PortsLit(g.desc, g.port)'
    BY <1>1, <1>3
  <2> QED BY <1>1, <1>3, <2>1 DEF Lit, AtHub, Addressed
<1> QED BY <1>2, <1>3

\* Nothing is beneath an empty port, so nothing loses its power.
LEMMA PortEmptyFound ==
  ASSUME AddressInv, WalkInv, CountInv, TreeInv, Smooth', PortEmpty
  PROVE  /\ CountInv' /\ TreeInv' /\ UNCHANGED <<at, slots>>
         /\ \E g : Moved(g) /\ Top.pc \in AtHub /\ g.pc \in AtHub \cup {"endpoint"}
<1>1. /\ Running("empty") /\ UNCHANGED <<wiring, nextAddress, phase, slots>>
      /\ "empty" \in AtHub \ {"hub"} /\ "empty" \in Addressed
  BY DEF PortEmpty, bootvars, Addressed, AtHub
<1>2. ~Failed(Top.address)
  BY <1>1, TopAnswers, NotFailed DEF Smooth
<1>3. PICK g : at' = PowerOff /\ Moved(g) /\ PortDone(Top, g)
  BY <1>2, PortEmptyGoes
<1>4. /\ Calls(stack) /\ stack # << >> /\ Top.pc = "empty" /\ wiring \in Wirings /\ Lit(Top) /\ TopFinds
      /\ Top.desc \in Devices /\ Top.port \in DOMAIN wiring.ports[Top.desc]
  BY <1>1, FoundIs, ChildIs
<1>5. at' = at
  <2>1. Beneath = {}
    BY <1>4 DEF TopFinds, Beneath
  <2>2. PowerOff = [d \in Devices |-> at[d]]
    BY <2>1 DEF PowerOff
  <2>3. at \in [Devices -> 0 .. Off]
    BY DEF WalkInv, EnumTyped
  <2> QED BY <1>3, <2>2, <2>3
<1>6. PortsLit(Top.desc, Top.port - 1)
  BY <1>4 DEF Lit
<1>7. g.pc \in AtHub \cup {"endpoint"} /\ g.pc \in Addressed /\ g.pc \notin {"status", "changes", "empty"} /\ Lit(g)'
  <2>1. ASSUME NEW f, f = Top
        PROVE  g.pc \in AtHub \cup {"endpoint"} /\ g.pc \in Addressed
               /\ g.pc \notin {"status", "changes", "empty"} /\ Lit(g)'
    <3>1. PortsLit(f.desc, f.port - 1)'
      BY <1>1, <1>5, <1>6, <2>1 DEF PortsLit
    <3> QED BY <1>1, <1>3, <1>4, <2>1, <3>1, PortDoneLit
  <2> QED BY <2>1
<1>8. Awake' = Awake /\ TopFinds'
  <2>1. Top' = g
    BY <1>3, <1>4, ReplacedIs DEF Moved
  <2>2. TopFinds'
    BY <1>7, <2>1 DEF TopFinds, AtHub
  <2> QED BY <1>1, <1>5, <2>2 DEF Awake, Devices
<1>9. CountInv' /\ TreeInv'
  BY <1>1, <1>3, <1>5, <1>7, <1>8, HubFound
<1> QED BY <1>1, <1>3, <1>4, <1>5, <1>7, <1>9

\* A call is made for what is on the port.
LEMMA PortConnectedFound ==
  ASSUME AddressInv, WalkInv, CountInv, TreeInv, Smooth', PortConnected
  PROVE  /\ CountInv' /\ TreeInv' /\ UNCHANGED <<at, slots>>
         /\ stack' = <<Call>> \o stack
<1>1. /\ Running("changes") /\ UNCHANGED <<wiring, at, nextAddress, phase, slots>>
      /\ "changes" \in AtHub \ {"hub"} /\ "changes" \in Addressed
  BY DEF PortConnected, bootvars, Addressed, AtHub
<1>2. ~Failed(Top.address)
  BY <1>1, TopAnswers, NotFailed DEF Smooth
<1>3. stack' = <<Call>> \o stack /\ result' = result
  BY <1>2, PortConnectedGoes
<1>4. /\ Calls(stack) /\ stack # << >> /\ Top.pc = "changes" /\ wiring \in Wirings /\ TopFinds
      /\ phase = "enumerate"
  BY <1>1, FoundIs
<1>5. PICK c : c = Call
  OBVIOUS
<1>6. c.pc = "descriptor" /\ c.pc \notin Addressed
  BY <1>5 DEF Call, Addressed
<1>7. /\ stack' # << >> /\ Top' = c /\ DOMAIN stack' = 1 .. Len(stack) + 1 /\ stack'[1] = c
      /\ \A i \in DOMAIN stack : i + 1 \in DOMAIN stack' /\ stack'[i + 1] = stack[i]
      /\ \A i \in DOMAIN stack' : i = 1 \/ \E k \in DOMAIN stack : stack'[i] = stack[k]
  <2>1. /\ DOMAIN stack' = 1 .. Len(stack) + 1 /\ stack'[1] = c /\ stack' # << >> /\ Head(stack') = c
        /\ \A i \in DOMAIN stack : stack'[i + 1] = stack[i]
        /\ DOMAIN stack = 1 .. Len(stack) /\ Len(stack) \in Nat
    BY <1>3, <1>4, <1>5, StackIs
  <2>2. \A i \in DOMAIN stack : i + 1 \in DOMAIN stack'
    BY <2>1
  <2>3. ASSUME NEW i \in DOMAIN stack', i # 1 PROVE \E k \in DOMAIN stack : stack'[i] = stack[k]
    <3>1. i - 1 \in DOMAIN stack /\ (i - 1) + 1 = i
      BY <2>1, <2>3
    <3>2. stack'[(i - 1) + 1] = stack[i - 1]
      BY <2>1, <3>1
    <3> QED BY <3>1, <3>2
  <2> QED BY <2>1, <2>2, <2>3 DEF Top
<1>8. CountInv'
  <2>1. Counts(c)
    BY <1>6 DEF Counts
  <2>2. \A f : Counts(f)' <=> Counts(f)
    BY DEF Counts
  <2>3. \A i \in DOMAIN stack' : Counts(stack'[i])
    BY <1>7, <2>1 DEF CountInv
  <2> QED BY <2>2, <2>3 DEF CountInv
<1>9. \A d : OpenAt(d)' <=> OpenAt(d)
  <2> SUFFICES ASSUME NEW d PROVE OpenAt(d)' <=> OpenAt(d)
    OBVIOUS
  <2>1. OpenAt(d) => OpenAt(d)'
    BY <1>7 DEF OpenAt
  <2>2. OpenAt(d)' => OpenAt(d)
    <3>1. ASSUME NEW i \in DOMAIN stack', stack'[i].pc \in Addressed, stack'[i].desc = d PROVE OpenAt(d)
      <4>1. i # 1
        BY <1>6, <1>7, <3>1
      <4>2. PICK k \in DOMAIN stack : stack'[i] = stack[k]
        BY <1>7, <4>1
      <4> QED BY <3>1, <4>2 DEF OpenAt
    <3> QED BY <3>1 DEF OpenAt
  <2> QED BY <2>1, <2>2
<1>10. ASSUME NEW f PROVE Lit(f)' <=> Lit(f)
  <2>1. \A d, n : PortsLit(d, n)' <=> PortsLit(d, n)
    BY <1>1 DEF PortsLit
  <2>2. Ahead(f)' = Ahead(f)
    BY <1>1 DEF Ahead
  <2> QED BY <2>1, <2>2 DEF Lit
<1>11. (\A i \in DOMAIN stack : stack[i].pc \in Addressed => Lit(stack[i]))'
  <2>1. \A i \in DOMAIN stack' : stack'[i].pc \in Addressed => \E k \in DOMAIN stack : stack'[i] = stack[k]
    BY <1>6, <1>7
  <2>2. \A f : (\E k \in DOMAIN stack : f = stack[k]) /\ f.pc \in Addressed => Lit(f)'
    BY <1>10 DEF TreeInv
  <2> QED BY <2>1, <2>2
<1>12. Awake' = Awake /\ Devices' = Devices /\ \A d : PortsLit(d, 0)' <=> PortsLit(d, 0)
  BY <1>1 DEF Awake, Devices, PortsLit
<1>13. \A d \in Awake' : OpenAt(d)' \/ PortsLit(d, 0)'
  BY <1>9, <1>12 DEF TreeInv
<1>14. TopFinds'
  <2>1. Child \in Devices /\ at[Child] = 0
    BY <1>1, <1>4, ChildIs DEF TopFinds
  <2>2. Answering(0)' # {}
    BY <1>1, <1>12, <2>1 DEF Answering
  <2> QED BY <1>6, <1>7, <2>2 DEF TopFinds
<1>15. TreeInv'
  BY <1>1, <1>3, <1>4, <1>11, <1>12, <1>13, <1>14 DEF TreeInv
<1> QED BY <1>1, <1>3, <1>8, <1>15

\* The call for the device on the port has returned.
LEMMA ReturnToHubFound ==
  ASSUME AddressInv, WalkInv, CountInv, TreeInv, ReturnToHub
  PROVE  /\ CountInv' /\ TreeInv' /\ UNCHANGED <<at, slots>>
         /\ Top.pc = "return" /\ Len(stack) > 1 /\ stack[2].pc = "changes"
         /\ \E g : /\ PortDone(stack[2], g) /\ g.pc \in AtHub \cup {"endpoint"}
                   /\ stack' = <<g>> \o SubSeq(stack, 3, Len(stack))
<1>1. Running("return") /\ UNCHANGED <<wiring, at, nextAddress, phase, slots>>
  BY DEF ReturnToHub, bootvars
<1>2. /\ Calls(stack) /\ stack # << >> /\ Top.pc = "return" /\ wiring \in Wirings /\ CallsRight
      /\ phase = "enumerate" /\ result = "ok"
  BY <1>1, FoundIs, WalkIs
<1>3. PICK f : f = stack[2]
  OBVIOUS
<1>4. Len(stack) > 1 /\ f.pc = "changes" /\ result' = result
  BY <1>2, <1>3, ReturnToHubGoes
<1>5. PICK g : PortDone(f, g) /\ stack' = <<g>> \o SubSeq(stack, 3, Len(stack))
  BY <1>2, <1>3, ReturnToHubGoes
<1>6. /\ DOMAIN stack' = 1 .. Len(stack) - 1 /\ stack'[1] = g /\ Top' = g /\ stack' # << >>
      /\ \A i \in DOMAIN stack' : i > 1 => stack'[i] = stack[i + 1]
      /\ DOMAIN stack = 1 .. Len(stack) /\ Len(stack) \in Nat /\ Top = stack[1]
  BY <1>2, <1>4, <1>5, StackIs DEF Top
<1>7. 2 \in DOMAIN stack
  BY <1>4, <1>6
<1>8. /\ "changes" \in AtHub /\ "changes" \in Addressed /\ "changes" \in AtHub \ {"hub"}
  BY DEF AtHub, Addressed
<1>9. f.desc \in Devices /\ f.port \in DOMAIN wiring.ports[f.desc] /\ Lit(f) /\ Counts(f)
  <2>1. Lit(f) /\ Counts(f)
    BY <1>3, <1>4, <1>7, <1>8 DEF TreeInv, CountInv
  <2>2. CallRight(f)
    BY <1>2, <1>3, <1>7 DEF CallsRight
  <2> QED BY <1>4, <1>8, <2>1, <2>2 DEF CallRight, Speaks, Wakes
<1>10. PortsLit(f.desc, f.port - 1)'
  <2>1. PortsLit(f.desc, f.port - 1)
    BY <1>4, <1>9 DEF Lit
  <2> QED BY <1>1, <2>1 DEF PortsLit
<1>11. g.pc \in AtHub \cup {"endpoint"} /\ g.pc \in Addressed /\ g.pc \notin {"status", "changes", "empty"} /\ Lit(g)'
  BY <1>1, <1>2, <1>4, <1>5, <1>8, <1>9, <1>10, PortDoneLit
<1>12. ASSUME NEW i \in DOMAIN stack', i # 1
       PROVE  i > 1 /\ i + 1 \in DOMAIN stack /\ i + 1 > 2 /\ stack'[i] = stack[i + 1]
  BY <1>6, <1>12
<1>13. CountInv'
  <2>1. Counts(g)
    BY <1>4, <1>5, <1>8, <1>9, <1>11, SameCounts DEF PortDone
  <2>2. \A h : Counts(h)' <=> Counts(h)
    BY DEF Counts
  <2>3. \A i \in DOMAIN stack' : Counts(stack'[i])
    BY <1>6, <1>12, <2>1 DEF CountInv
  <2> QED BY <2>2, <2>3 DEF CountInv
<1>14. ASSUME NEW d, OpenAt(d) PROVE OpenAt(d)'
  <2>1. PICK i \in DOMAIN stack : stack[i].pc \in Addressed /\ stack[i].desc = d
    BY <1>14 DEF OpenAt
  <2>2. i # 1
    BY <1>2, <1>6, <2>1 DEF Addressed
  <2>3. CASE i = 2
    <3>1. g.pc \in Addressed /\ g.desc = d
      BY <1>3, <1>5, <1>11, <2>1, <2>3 DEF PortDone, SameCall
    <3>2. 1 \in DOMAIN stack'
      BY <1>4, <1>6
    <3> QED BY <1>6, <3>1, <3>2 DEF OpenAt
  <2>4. CASE i # 2
    <3>1. i - 1 \in DOMAIN stack' /\ i - 1 > 1 /\ (i - 1) + 1 = i
      BY <1>6, <2>2, <2>4
    <3>2. stack'[i - 1] = stack[i]
      BY <1>6, <3>1
    <3> QED BY <2>1, <3>1, <3>2 DEF OpenAt
  <2> QED BY <2>3, <2>4
<1>15. ASSUME NEW h PROVE Lit(h)' <=> Lit(h)
  <2>1. \A d, n : PortsLit(d, n)' <=> PortsLit(d, n)
    BY <1>1 DEF PortsLit
  <2>2. Ahead(h)' = Ahead(h)
    BY <1>1 DEF Ahead
  <2> QED BY <2>1, <2>2 DEF Lit
<1>16. (\A i \in DOMAIN stack : stack[i].pc \in Addressed => Lit(stack[i]))'
  <2>1. \A i \in DOMAIN stack' : stack'[i] = g \/ \E k \in DOMAIN stack : stack'[i] = stack[k]
    BY <1>6, <1>12
  <2>2. \A h : (\E k \in DOMAIN stack : h = stack[k]) /\ h.pc \in Addressed => Lit(h)'
    BY <1>15 DEF TreeInv
  <2> QED BY <1>11, <2>1, <2>2
<1>17. Awake' = Awake /\ Devices' = Devices /\ \A d : PortsLit(d, 0)' <=> PortsLit(d, 0)
  BY <1>1 DEF Awake, Devices, PortsLit
<1>18. \A d \in Awake' : OpenAt(d)' \/ PortsLit(d, 0)'
  BY <1>14, <1>17 DEF TreeInv
<1>19. TopFinds'
  BY <1>6, <1>11 DEF TopFinds, AtHub, Addressed
<1>20. TreeInv'
  BY <1>1, <1>2, <1>4, <1>16, <1>17, <1>18, <1>19 DEF TreeInv
<1> QED BY <1>1, <1>2, <1>3, <1>4, <1>5, <1>11, <1>13, <1>20

\* When the walk has ended every device has an address; or it begins again.
LEMMA EnumeratedFound ==
  ASSUME AddressInv, WalkInv, CountInv, TreeInv, Smooth, Enumerated
  PROVE  /\ CountInv' /\ TreeInv' /\ Top.pc = "return" /\ Len(stack) = 1
         /\ \/ stack' = << >> /\ UNCHANGED <<at, slots>>
            \/ stack' = <<Call>> /\ slots' = << >> /\ Awake' = {}
<1>1. Running("return") /\ Len(stack) = 1 /\ UNCHANGED <<wiring, result>>
  BY DEF Enumerated
<1>2. /\ Calls(stack) /\ stack # << >> /\ Top.pc = "return" /\ wiring \in Wirings
      /\ phase = "enumerate" /\ result = "ok"
  BY <1>1, FoundIs
<1>3. wiring.root \in Devices /\ Devices' = Devices
  BY <1>1, <1>2, WiringIs DEF Devices
<1>4. CASE phase' = "scsi" /\ stack' = << >> /\ UNCHANGED <<at, nextAddress, slots>>
  <2>1. DOMAIN stack' = {}
    BY <1>4
  <2>2. CountInv'
    BY <2>1 DEF CountInv
  <2>3. \A d : ~OpenAt(d)
    <3>1. \A i \in DOMAIN stack : stack[i].pc = "return"
      <4>1. DOMAIN stack = 1 .. 1 /\ Top = stack[1]
        BY <1>1, <1>2, StackIs
      <4> QED BY <1>2, <4>1
    <3> QED BY <3>1 DEF OpenAt, Addressed
  <2>4. Silent
    BY <1>2 DEF AddressInv, AtZero
  <2>5. \A d \in Awake : Children(wiring, d) \subseteq Awake
    <3> SUFFICES ASSUME NEW d \in Awake, NEW e \in Children(wiring, d) PROVE e \in Awake
      OBVIOUS
    <3>1. d \in Devices /\ PortsLit(d, 0)
      BY <2>3 DEF Awake, TreeInv
    <3>2. e \in Devices /\ \E q \in DOMAIN wiring.ports[d] : wiring.ports[d][q] = e /\ e # NoDevice
      BY <1>2, <3>1, ChildrenAre
    <3>3. PICK q \in DOMAIN wiring.ports[d] : wiring.ports[d][q] = e /\ e # NoDevice
      BY <3>2
    <3>4. q > 0
      BY <1>2, <3>1, ChildrenAre
    <3>5. at[e] # Off
      BY <3>1, <3>3, <3>4 DEF PortsLit
    <3> QED BY <2>4, <3>2, <3>5 DEF Silent, Awake
  <2>6. wiring.root \in Awake
    BY <1>3, <2>4 DEF Silent, Awake, TreeInv
  <2>7. Awake = Devices
    <3>1. Awake \in SUBSET Devices
      BY DEF Awake
    <3>2. ASSUME NEW S \in SUBSET Devices, wiring.root \in S, \A d \in S : Children(wiring, d) \subseteq S
          PROVE  S = Devices
      BY <3>2 DEF Smooth, Orderly, Ordinary, Devices
    <3> QED BY ONLY <2>5, <2>6, <3>1, <3>2
  <2>8. Awake' = Awake /\ \A d : PortsLit(d, 0)' <=> PortsLit(d, 0)
    BY <1>1, <1>3, <1>4 DEF Awake, PortsLit
  <2>9. \A d \in Awake' : OpenAt(d)' \/ PortsLit(d, 0)'
    BY <2>3, <2>8 DEF TreeInv
  <2>10. (\A i \in DOMAIN stack : stack[i].pc \in Addressed => Lit(stack[i]))'
    BY <2>1
  <2>11. TreeInv'
    BY <1>1, <1>3, <1>4, <2>7, <2>8, <2>9, <2>10 DEF TreeInv
  <2> QED BY <1>1, <1>2, <1>4, <2>2, <2>11
<1>5. CASE /\ phase' = "enumerate" /\ stack' = <<Call>> /\ at' = AfterBusReset(wiring)
           /\ nextAddress' = 0 /\ slots' = << >>
  <2>1. PICK c : c = Call
    OBVIOUS
  <2>2. c.pc = "descriptor" /\ c.pc \notin Addressed
    BY <2>1 DEF Call, Addressed
  <2>3. DOMAIN stack' = {1} /\ stack'[1] = c /\ Top' = c
    BY <1>5, <2>1 DEF Top
  <2>4. CountInv'
    BY <2>2, <2>3 DEF CountInv, Counts, Addressed
  <2>5. \A d \in Devices : at'[d] = IF d = wiring.root THEN 0 ELSE Off
    BY <1>5 DEF AfterBusReset, Devices
  <2>6. Awake' = {}
    BY <1>3, <2>5 DEF Awake
  <2>7. TopFinds'
    <3>1. wiring.root \in Answering(0)'
      BY <1>3, <2>5 DEF Answering
    <3> QED BY <2>2, <2>3, <3>1 DEF TopFinds
  <2>8. Cardinality(Awake') = 0
    BY <2>6, FS_EmptySet
  <2>9. (\A i \in DOMAIN stack : stack[i].pc \in Addressed => Lit(stack[i]))'
    BY <2>2, <2>3
  <2>10. at'[wiring'.root] # Off
    BY <1>1, <1>3, <2>5 DEF Off
  <2>11. TreeInv'
    BY <1>1, <1>2, <1>5, <2>6, <2>7, <2>8, <2>9, <2>10 DEF TreeInv
  <2> QED BY <1>1, <1>2, <1>5, <2>4, <2>6, <2>11
<1> QED BY <1>2, <1>4, <1>5 DEF Enumerated

LEMMA FoundInit == EnumInit => CountInv /\ TreeInv
<1> SUFFICES ASSUME EnumInit PROVE CountInv /\ TreeInv
  OBVIOUS
<1>1. wiring \in Wirings /\ at = AfterBusReset(wiring) /\ stack = <<Call>> /\ result = "ok"
      /\ nextAddress = 0 /\ phase = "enumerate"
  BY DEF EnumInit
<1>2. wiring.root \in Devices
  BY <1>1, WiringIs
<1>3. PICK c : c = Call
  OBVIOUS
<1>4. c.pc = "descriptor" /\ c.pc \notin Addressed
  BY <1>3 DEF Call, Addressed
<1>5. DOMAIN stack = {1} /\ stack[1] = c /\ Top = c
  BY <1>1, <1>3 DEF Top
<1>6. CountInv
  BY <1>4, <1>5 DEF CountInv, Counts, Addressed
<1>7. \A d \in Devices : at[d] = IF d = wiring.root THEN 0 ELSE Off
  BY <1>1 DEF AfterBusReset, Devices
<1>8. Awake = {} /\ TopFinds
  <2>1. Awake = {}
    BY <1>7 DEF Awake
  <2>2. wiring.root \in Answering(0)
    BY <1>2, <1>7 DEF Answering
  <2> QED BY <1>4, <1>5, <2>1, <2>2 DEF TopFinds
<1>9. Cardinality(Awake) = 0
  BY <1>8, FS_EmptySet
<1>10. at[wiring.root] # Off
  BY <1>2, <1>7 DEF Off
<1> QED BY <1>1, <1>4, <1>5, <1>6, <1>8, <1>9, <1>10 DEF TreeInv

\* As long as there are less than six slots there is place for one more.
LEMMA FreePlace ==
  ASSUME Chain, Cardinality(DOMAIN slots) < MaxNumberOfDevices
  PROVE  FindFirstFree # End
<1>1. \A p \in DOMAIN slots : /\ p \in 0 .. AreaSize - 1 /\ p \in Nat /\ After(p) \in Nat /\ After(p) > p
                              /\ After(p) <= 16 * Cardinality(DOMAIN slots)
  BY SizesAre DEF Chain, After, AreaSize
<1>2. Cardinality(DOMAIN slots) \in Nat
  BY FS_CardinalityType DEF Chain
<1>3. \E x \in 0 .. AreaSize - 1 : x \in Places /\ x \notin DOMAIN slots
  <2>1. CASE DOMAIN slots = {}
    <3>1. 0 \in 0 .. AreaSize - 1
      BY DEF AreaSize
    <3>2. 0 \in Places
      BY <3>1, PlacesMet
    <3> QED BY <2>1, <3>1, <3>2
  <2>2. CASE DOMAIN slots # {}
    <3>1. PICK p \in DOMAIN slots : \A q \in DOMAIN slots : q <= p
      <4> DEFINE over == {n \in Nat : \A q \in DOMAIN slots : q <= n}
      <4>1. over \in SUBSET Nat /\ AreaSize \in over
        BY <1>1 DEF AreaSize
      <4>2. PICK n \in over : \A m \in over : n <= m
        <5> HIDE DEF over
        <5> QED BY <4>1, LeastIsIn
      <4>3. n \in DOMAIN slots
        <5> SUFFICES ASSUME n \notin DOMAIN slots PROVE FALSE
          OBVIOUS
        <5>1. n \in Nat /\ \A q \in DOMAIN slots : q <= n /\ q # n
          BY <4>2
        <5>2. n - 1 \in Nat /\ \A q \in DOMAIN slots : q <= n - 1
          BY <1>1, <2>2, <5>1
        <5>3. n - 1 \in over
          BY <5>2
        <5> HIDE DEF over
        <5> QED BY <4>2, <5>1, <5>3
      <4> QED BY <4>2, <4>3
    <3>2. After(p) \notin DOMAIN slots
      BY <1>1, <3>1
    <3>3. After(p) \in 0 .. AreaSize - 1
      BY <1>1, <1>2 DEF AreaSize, MaxNumberOfDevices
    <3>4. After(p) \in Places
      BY <3>3, PlacesMet
    <3> QED BY <3>2, <3>3, <3>4
  <2> QED BY <2>1, <2>2
<1> DEFINE free == {p \in Places : ~Used(p)}
<1>4. free # {} /\ free \in SUBSET Nat
  <2>1. free # {}
    BY <1>3 DEF Used
  <2>2. \A p \in Places : p = 0 \/ \E q \in DOMAIN slots : After(q) = p
    BY DEF Places
  <2> QED BY <1>1, <2>1, <2>2
<1>5. FindFirstFree = Min(free)
  BY <1>4 DEF FindFirstFree
<1>6. Min(free) \in free
  <2> HIDE DEF free
  <2> QED BY <1>4, LeastIsIn
<1>7. \A p \in Places : p < AreaSize
  BY DEF Places
<1> QED BY <1>5, <1>6, <1>7 DEF AreaSize, End

---------------------------------------------------------------------------
(* The slots of the interfaces that the walk has passed.                    *)

\* Call f still comes to interface t; one of the calls does.
Visits(f, t) == f.pc \in Addressed /\ f.desc = t[1] /\ Comes(f, t[2], t[3])
Coming(t) == \E k \in DOMAIN stack : Visits(stack[k], t)

\* The interfaces that have a driver and that the walk has come by.
Passed == {t \in Served : t[1] \in Awake /\ ~Coming(t)}

\* Slot s has the endpoints of interface i that lie before place n: in each place of
\* the slot the last that belongs there.
Placed(s, c, i, n) ==
  \A k \in EndpointsAt(c, i) : k < n =>
    \A q \in EndpointPlaces(s.type, c[k]) :
      (\A l \in EndpointsAt(c, i) : k < l /\ l < n => q \notin EndpointPlaces(s.type, c[l]))
        => s.endpoints[q] = c[k].number % 8

\* Slot s is that of interface t, with the endpoints before place n.
Config(t) == wiring.configs[t[1]][t[2]]
Written(s, t, n) ==
  /\ s.address = at[t[1]] /\ s.number = Config(t)[t[3]].number
  /\ s.type = IdentifyClassDriver(Config(t)[t[3]]) /\ "endpoints" \in DOMAIN s
  /\ Placed(s, Config(t), t[3], n)

\* The innermost call is at the endpoints of an interface.
AtWork == phase = "enumerate" /\ Top.pc = "endpoint"
Work == <<Top.desc, Top.config + 1, Top.interface>>

LaidInv ==
  /\ Cardinality(DOMAIN slots) = Cardinality(Passed)
  /\ AtWork => IF Top.type \in SlotTypes
               THEN Top.slot \in DOMAIN slots /\ Written(slots[Top.slot], Work, Top.ptr)
               ELSE Top.slot = End
  /\ \A t \in Passed : \/ AtWork /\ t = Work
                       \/ \E p \in DOMAIN slots : /\ AtWork => p # Top.slot
                                                  /\ Written(slots[p], t, Len(Config(t)) + 1)
  /\ \A i \in DOMAIN stack : stack[i].pc \in AtHub => stack[i].slot = End

LEMMA ServedAre ==
  ASSUME NEW t \in Served
  PROVE  /\ t[1] \in Devices /\ t[2] \in DOMAIN wiring.configs[t[1]] /\ t[3] \in Interfaces(Config(t))
         /\ IdentifyClassDriver(Config(t)[t[3]]) \in SlotTypes /\ t = <<t[1], t[2], t[3]>>
<1>1. PICK d \in Devices : t \in UNION {ServedBy(d, n) : n \in DOMAIN wiring.configs[d]}
  BY DEF Served
<1>2. PICK n \in DOMAIN wiring.configs[d] : t \in ServedBy(d, n)
  BY <1>1
<1>3. PICK i \in Interfaces(wiring.configs[d][n]) :
        t = <<d, n, i>> /\ IdentifyClassDriver(wiring.configs[d][n][i]) \in SlotTypes
  BY <1>2 DEF ServedBy
<1> QED BY <1>3 DEF Config

LEMMA IsServed ==
  ASSUME NEW d \in Devices, NEW n \in DOMAIN wiring.configs[d], NEW i \in Interfaces(wiring.configs[d][n])
  PROVE  <<d, n, i>> \in Served <=> IdentifyClassDriver(wiring.configs[d][n][i]) \in SlotTypes
<1>1. IdentifyClassDriver(wiring.configs[d][n][i]) \in SlotTypes => <<d, n, i>> \in Served
  BY DEF Served, ServedBy
<1>2. ASSUME <<d, n, i>> \in Served PROVE IdentifyClassDriver(wiring.configs[d][n][i]) \in SlotTypes
  <2>1. PICK t \in Served : t = <<d, n, i>>
    BY <1>2
  <2>2. t[1] = d /\ t[2] = n /\ t[3] = i
    BY <2>1
  <2> QED BY <2>1, <2>2, ServedAre DEF Config
<1> QED BY <1>1, <1>2

\* Served interfaces stay what they are.
LEMMA ServedSame == UNCHANGED wiring => Served' = Served /\ \A t : Config(t)' = Config(t)
BY DEF Served, ServedBy, Devices, Config

\* What is written of a device that keeps its address.
LEMMA WrittenSame ==
  ASSUME UNCHANGED wiring, NEW t, at'[t[1]] = at[t[1]], NEW s, NEW n
  PROVE  Written(s, t, n)' <=> Written(s, t, n)
<1>1. \A c, i : Placed(s, c, i, n)' <=> Placed(s, c, i, n)
  BY DEF Placed
<1>2. Config(t)' = Config(t)
  BY ServedSame
<1> QED BY <1>1, <1>2 DEF Written

\* A step that comes by no interface with a driver.
LEMMA LaidKept ==
  ASSUME WalkInv, LaidInv, UNCHANGED <<wiring, slots>>, ~AtWork,
         \A t \in Served : (t[1] \in Awake' /\ ~Coming(t)') <=> (t[1] \in Awake /\ ~Coming(t)),
         \A d \in Awake : at'[d] = at[d],
         AtWork' => Top'.type \notin SlotTypes /\ Top'.slot = End,
         \A i \in DOMAIN stack' : stack'[i].pc \in AtHub => stack'[i].slot = End
  PROVE  LaidInv'
<1>1. Served' = Served /\ \A t : Config(t)' = Config(t)
  BY ServedSame
<1>2. Passed' = Passed
  BY <1>1 DEF Passed
<1>3. \A p \in DOMAIN slots : p # End
  BY DEF WalkInv, Chain, AreaSize, End
<1>4. ASSUME NEW t \in Passed
      PROVE  \E p \in DOMAIN slots' : /\ AtWork' => p # Top'.slot
                                      /\ Written(slots[p], t, Len(Config(t)) + 1)'
  <2>1. PICK p \in DOMAIN slots : Written(slots[p], t, Len(Config(t)) + 1)
    BY DEF LaidInv
  <2>2. PICK s, n : s = slots[p] /\ n = Len(Config(t)) + 1
    OBVIOUS
  <2>3. Written(s, t, n)'
    <3>1. at'[t[1]] = at[t[1]]
      BY DEF Passed
    <3> QED BY <2>1, <2>2, <3>1, WrittenSame
  <2>4. Written(slots[p], t, Len(Config(t)) + 1)'
    BY <1>1, <2>2, <2>3
  <2> QED BY <1>3, <2>4
<1>5. \A t \in Passed' : \E p \in DOMAIN slots' : /\ AtWork' => p # Top'.slot
                                                 /\ Written(slots[p], t, Len(Config(t)) + 1)'
  BY <1>2, <1>4
<1>6. Cardinality(DOMAIN slots') = Cardinality(Passed')
  BY <1>2 DEF LaidInv
<1>7. (AtWork => IF Top.type \in SlotTypes
               THEN Top.slot \in DOMAIN slots /\ Written(slots[Top.slot], Work, Top.ptr)
               ELSE Top.slot = End)'
  BY DEF SlotTypes, StructSize
<1> QED BY <1>5, <1>6, <1>7 DEF LaidInv

\* What the calls come to when the innermost is replaced by one that comes to the same.
LEMMA ComingReplaced ==
  ASSUME Calls(stack), stack # << >>, NEW g, Replaced(g), NEW t, Visits(g, t) <=> Visits(Top, t)
  PROVE  Coming(t)' <=> Coming(t)
<1>1. /\ DOMAIN stack' = DOMAIN stack /\ stack'[1] = g /\ Top = stack[1]
      /\ \A i \in DOMAIN stack : i = 1 \/ (i > 1 /\ stack'[i] = stack[i])
  BY ReplacedIs
<1>2. \A i \in DOMAIN stack : Visits(stack'[i], t) <=> Visits(stack[i], t)
  BY <1>1
<1>3. \A f : Visits(f, t)' <=> Visits(f, t)
  BY DEF Visits
<1> QED BY <1>1, <1>2, <1>3 DEF Coming

\* A step of the innermost call that comes by no interface with a driver.
LEMMA LaidReplaced ==
  ASSUME AddressInv, WalkInv, LaidInv, UNCHANGED <<wiring, slots>>, NEW pc, Running(pc), pc # "endpoint",
         NEW g, Replaced(g), \A t \in Served : Visits(g, t) <=> Visits(Top, t),
         Awake' = Awake, \A d \in Awake : at'[d] = at[d],
         g.pc = "endpoint" => g.type \notin SlotTypes /\ g.slot = End,
         g.pc \in AtHub => g.slot = End
  PROVE  LaidInv'
<1>1. Calls(stack) /\ stack # << >> /\ Top.pc = pc
  BY WalkIs
<1>2. /\ DOMAIN stack' = DOMAIN stack /\ stack'[1] = g /\ Top' = g
      /\ \A i \in DOMAIN stack : i = 1 \/ (i > 1 /\ stack'[i] = stack[i])
  BY <1>1, ReplacedIs
<1>3. \A t \in Served : (t[1] \in Awake' /\ ~Coming(t)') <=> (t[1] \in Awake /\ ~Coming(t))
  BY <1>1, ComingReplaced
<1>4. ~AtWork
  BY <1>1 DEF AtWork
<1>5. AtWork' => Top'.type \notin SlotTypes /\ Top'.slot = End
  BY <1>2 DEF AtWork
<1>6. \A i \in DOMAIN stack' : stack'[i].pc \in AtHub => stack'[i].slot = End
  BY <1>2 DEF LaidInv
<1> QED BY <1>3, <1>4, <1>5, <1>6, LaidKept

\* An interface of the innermost call's device, when another call is as far.
LEMMA SameVisits ==
  ASSUME NEW g, g.pc \in Addressed, Top.pc \in Addressed, g.desc = Top.desc, SameAhead(Top, g),
         NEW t \in Served
  PROVE  Visits(g, t) <=> Visits(Top, t)
<1>1. CASE t[1] = Top.desc
  <2>1. t[2] \in DOMAIN wiring.configs[Top.desc] /\ t[3] \in Interfaces(wiring.configs[Top.desc][t[2]])
    BY <1>1, ServedAre DEF Config
  <2>2. Comes(g, t[2], t[3]) <=> Comes(Top, t[2], t[3])
    BY <2>1 DEF SameAhead
  <2> QED BY <2>2 DEF Visits
<1>2. CASE t[1] # Top.desc
  BY <1>2 DEF Visits
<1> QED BY <1>1, <1>2

\* A call at a hub has no slot, and its interface no driver.
LEMMA HubHasNone ==
  ASSUME AddressInv, WalkInv, LaidInv, NEW f, NEW i \in DOMAIN stack, f = stack[i], f.pc \in AtHub
  PROVE  f.slot = End /\ f.type = "hub" /\ f.type \notin SlotTypes
<1>1. f.slot = End
  BY DEF LaidInv
<1>2. f.pc \in Addressed
  BY DEF AtHub, Addressed
<1>3. f.type = "hub"
  BY <1>2 DEF WalkInv, CallsRight, CallRight, Reads
<1> QED BY <1>1, <1>3, SizesAre

\* A step at the ports of a hub.
LEMMA MovedLaid ==
  ASSUME AddressInv, WalkInv, LaidInv, UNCHANGED <<wiring, slots>>, NEW pc \in AtHub, Running(pc),
         NEW g, Moved(g), g.pc \in AtHub \cup {"endpoint"}, Awake' = Awake, \A d \in Awake : at'[d] = at[d]
  PROVE  LaidInv'
<1>1. Top.pc = pc /\ Calls(stack) /\ stack # << >> /\ Replaced(g) /\ g.slot = Top.slot /\ g.type = Top.type
  BY WalkIs DEF Moved, SameCall
<1>2. Top.slot = End /\ Top.type \notin SlotTypes
  <2>1. 1 \in DOMAIN stack /\ Top = stack[1]
    BY <1>1, StackIs
  <2> QED BY <1>1, <2>1, HubHasNone
<1>3. ASSUME NEW t \in Served PROVE Visits(g, t) <=> Visits(Top, t)
  BY <1>1 DEF Visits, Comes, Moved, SameCall, AtHub, Addressed
<1>4. pc # "endpoint"
  BY DEF AtHub
<1> QED BY <1>1, <1>2, <1>3, <1>4, LaidReplaced

\* A step of a call towards an interface.
LEMMA OnwardLaid ==
  ASSUME AddressInv, WalkInv, LaidInv, UNCHANGED <<wiring, at, slots>>, NEW pc \in Addressed, pc # "endpoint",
         Running(pc), NEW g, Onward(g), g.pc \in {"interface", "configure"}, SameAhead(Top, g)
  PROVE  LaidInv'
<1>1. Top.pc = pc /\ Replaced(g) /\ g.pc \in Addressed /\ g.desc = Top.desc
  BY WalkIs DEF Onward
<1>2. \A t \in Served : Visits(g, t) <=> Visits(Top, t)
  BY <1>1, SameVisits
<1>3. Awake' = Awake
  BY DEF Awake, Devices
<1>4. g.pc # "endpoint" /\ g.pc \notin AtHub
  BY DEF AtHub
<1> QED BY <1>1, <1>2, <1>3, <1>4, LaidReplaced

\* A device gets an address: its interfaces are all to come.
LEMMA SetAddressLaid ==
  ASSUME AddressInv, WalkInv, CountInv, TreeInv, LaidInv, Smooth, Smooth', SetAddress
  PROVE  LaidInv'
<1>1. Running("address") /\ UNCHANGED <<wiring, slots>>
  BY DEF SetAddress, bootvars
<1>a. /\ Awake' = Awake \cup {Top.desc} /\ Top.desc \notin Awake
      /\ \A d \in Awake : at'[d] = at[d]
  BY SetAddressFound
<1>2. PICK g : Replaced(g) /\ g.pc = "config" /\ g.config = 0 /\ g.desc = Top.desc
  BY SetAddressFound
<1>3. /\ Calls(stack) /\ stack # << >> /\ Top.pc = "address" /\ wiring \in Wirings /\ Top.pc \notin Addressed
  BY <1>1, WalkIs DEF Addressed
<1>4. /\ DOMAIN stack' = DOMAIN stack /\ stack'[1] = g /\ Top' = g /\ Top = stack[1] /\ 1 \in DOMAIN stack
      /\ \A i \in DOMAIN stack : i = 1 \/ (i > 1 /\ stack'[i] = stack[i])
  BY <1>2, <1>3, ReplacedIs
<1>5. ASSUME NEW t \in Served
      PROVE  (t[1] \in Awake' /\ ~Coming(t)') <=> (t[1] \in Awake /\ ~Coming(t))
  <2>1. CASE t[1] = Top.desc
    <3>1. t[1] \in Devices /\ t[2] \in DOMAIN wiring.configs[t[1]]
      BY ServedAre
    <3>2. t[2] \in Nat /\ t[2] >= 1
      BY <1>3, <3>1, ConfigsAre
    <3>3. Visits(g, t)
      BY <1>2, <2>1, <3>2 DEF Visits, Comes, Addressed
    <3>4. Coming(t)'
      <4>1. Visits(g, t)'
        BY <3>3 DEF Visits
      <4> QED BY <1>4, <4>1 DEF Coming
    <3> QED BY <1>a, <2>1, <3>4
  <2>2. CASE t[1] # Top.desc
    <3>1. Visits(g, t) <=> Visits(Top, t)
      BY <1>2, <2>2 DEF Visits
    <3>2. Coming(t)' <=> Coming(t)
      BY <1>2, <1>3, <3>1, ComingReplaced
    <3> QED BY <1>a, <2>2, <3>2
  <2> QED BY <2>1, <2>2
<1>6. ~AtWork /\ ~AtWork'
  BY <1>2, <1>3, <1>4 DEF AtWork
<1>7. \A i \in DOMAIN stack' : stack'[i].pc \in AtHub => stack'[i].slot = End
  <2>1. g.pc \notin AtHub
    BY <1>2 DEF AtHub
  <2> QED BY <1>4, <2>1 DEF LaidInv
<1> QED BY <1>1, <1>a, <1>5, <1>6, <1>7, LaidKept

\* A call that has read all the configurations comes to no interface any more.
LEMMA AllConfigsReadLaid ==
  ASSUME AddressInv, WalkInv, CountInv, TreeInv, LaidInv, Smooth, Smooth', AllConfigsRead
  PROVE  LaidInv'
<1>1. Running("config") /\ UNCHANGED <<wiring, at, slots>> /\ "config" \in Addressed
  BY DEF AllConfigsRead, bootvars, Addressed
<1>2. PICK g : Replaced(g) /\ g.pc = "return" /\ Top.pc = "config" /\ Top.config = Len(wiring.configs[Top.desc])
  BY AllConfigsReadFound
<1>3. ASSUME NEW t \in Served PROVE Visits(g, t) <=> Visits(Top, t)
  <2>1. t[1] \in Devices /\ t[2] \in DOMAIN wiring.configs[t[1]] /\ wiring \in Wirings
    BY <1>1, WalkIs, ServedAre
  <2>2. t[2] <= Len(wiring.configs[t[1]]) /\ t[2] \in Nat /\ Len(wiring.configs[t[1]]) \in Nat
    BY <2>1, ConfigsAre
  <2>3. t[1] = Top.desc => ~(t[2] > Top.config + 1) /\ t[2] # Top.config + 1
    BY <1>2, <2>2
  <2>4. ~Visits(Top, t)
    BY <2>3 DEF Visits, Comes
  <2> QED BY <1>2, <2>4 DEF Visits, Addressed
<1>4. Awake' = Awake
  BY <1>1 DEF Awake, Devices
<1>5. g.pc # "endpoint" /\ g.pc \notin AtHub
  BY <1>2 DEF AtHub
<1> QED BY <1>1, <1>2, <1>3, <1>4, <1>5, LaidReplaced

LEMMA GetDescriptorLaid ==
  ASSUME AddressInv, WalkInv, CountInv, TreeInv, LaidInv, Smooth', GetDescriptor
  PROVE  LaidInv'
<1>1. Running("descriptor") /\ UNCHANGED <<wiring, at, slots>>
  BY DEF GetDescriptor, bootvars
<1>2. PICK g : Replaced(g) /\ g.pc = "address" /\ Top.pc = "descriptor"
  BY GetDescriptorFound
<1>3. \A t \in Served : Visits(g, t) <=> Visits(Top, t)
  BY <1>2 DEF Visits, Addressed
<1>4. Awake' = Awake
  BY <1>1 DEF Awake, Devices
<1>5. g.pc # "endpoint" /\ g.pc \notin AtHub
  BY <1>2 DEF AtHub
<1> QED BY <1>1, <1>2, <1>3, <1>4, <1>5, LaidReplaced

LEMMA PortConnectedLaid ==
  ASSUME AddressInv, WalkInv, CountInv, TreeInv, LaidInv, Smooth', PortConnected
  PROVE  LaidInv'
<1>1. Running("changes") /\ UNCHANGED <<wiring, at, slots>>
  BY DEF PortConnected, bootvars
<1>2. stack' = <<Call>> \o stack
  BY PortConnectedFound
<1>3. Calls(stack) /\ stack # << >> /\ Top.pc = "changes"
  BY <1>1, WalkIs
<1>4. PICK c : c = Call
  OBVIOUS
<1>5. c.pc = "descriptor" /\ c.pc \notin Addressed /\ c.pc \notin AtHub
  BY <1>4 DEF Call, Addressed, AtHub
<1>6. /\ Top' = c /\ DOMAIN stack' = 1 .. Len(stack) + 1 /\ stack'[1] = c
      /\ \A i \in DOMAIN stack : stack'[i + 1] = stack[i]
      /\ DOMAIN stack = 1 .. Len(stack) /\ Len(stack) \in Nat
  BY <1>2, <1>3, <1>4, StackIs DEF Top
<1>7. \A i \in DOMAIN stack : i + 1 \in DOMAIN stack'
  BY <1>6
<1>8. ASSUME NEW i \in DOMAIN stack', i # 1 PROVE \E k \in DOMAIN stack : stack'[i] = stack[k]
  <2>1. i - 1 \in DOMAIN stack /\ (i - 1) + 1 = i
    BY <1>6, <1>8
  <2>2. stack'[(i - 1) + 1] = stack[i - 1]
    BY <1>6, <2>1
  <2> QED BY <2>1, <2>2
<1>9. ASSUME NEW t PROVE Coming(t)' <=> Coming(t)
  <2>1. \A f : Visits(f, t)' <=> Visits(f, t)
    BY DEF Visits
  <2>2. ~Visits(c, t)
    BY <1>5 DEF Visits
  <2>3. (\E k \in DOMAIN stack' : Visits(stack'[k], t)) <=> (\E k \in DOMAIN stack : Visits(stack[k], t))
    <3>1. ASSUME NEW k \in DOMAIN stack', Visits(stack'[k], t) PROVE \E i \in DOMAIN stack : Visits(stack[i], t)
      <4>1. k # 1
        BY <1>6, <2>2, <3>1
      <4> QED BY <1>8, <3>1, <4>1
    <3>2. ASSUME NEW k \in DOMAIN stack, Visits(stack[k], t) PROVE \E i \in DOMAIN stack' : Visits(stack'[i], t)
      BY <1>6, <1>7, <3>2
    <3> QED BY <3>1, <3>2
  <2> QED BY <2>1, <2>3 DEF Coming
<1>10. Awake' = Awake
  BY <1>1 DEF Awake, Devices
<1>11. ~AtWork /\ ~AtWork'
  BY <1>3, <1>5, <1>6 DEF AtWork
<1>12. \A i \in DOMAIN stack' : stack'[i].pc \in AtHub => stack'[i].slot = End
  BY <1>5, <1>6, <1>8 DEF LaidInv
<1> QED BY <1>1, <1>9, <1>10, <1>11, <1>12, LaidKept

LEMMA ReturnToHubLaid ==
  ASSUME AddressInv, WalkInv, CountInv, TreeInv, LaidInv, ReturnToHub
  PROVE  LaidInv'
<1>1. Running("return") /\ UNCHANGED <<wiring, at, slots>>
  BY DEF ReturnToHub, bootvars
<1>2. PICK f : f = stack[2]
  OBVIOUS
<1>3. Top.pc = "return" /\ Len(stack) > 1 /\ f.pc = "changes"
  BY <1>2, ReturnToHubFound
<1>4. PICK g : /\ PortDone(f, g) /\ g.pc \in AtHub \cup {"endpoint"}
               /\ stack' = <<g>> \o SubSeq(stack, 3, Len(stack))
  BY <1>2, ReturnToHubFound
<1>5. /\ Top' = g /\ DOMAIN stack' = 1 .. Len(stack) - 1 /\ stack'[1] = g
      /\ \A i \in DOMAIN stack' : i > 1 => stack'[i] = stack[i + 1]
      /\ DOMAIN stack = 1 .. Len(stack) /\ Len(stack) \in Nat /\ Top = stack[1]
  BY <1>1, <1>3, <1>4, WalkIs, StackIs DEF Top
<1>6. 2 \in DOMAIN stack /\ 1 \in DOMAIN stack'
  BY <1>3, <1>5
<1>7. g.slot = End /\ g.type \notin SlotTypes
  <2>1. f.slot = End /\ f.type \notin SlotTypes
    BY <1>2, <1>3, <1>6, HubHasNone DEF AtHub
  <2> QED BY <1>4, <2>1 DEF PortDone, SameCall
<1>8. ASSUME NEW i \in DOMAIN stack', i # 1 PROVE i + 1 \in DOMAIN stack /\ stack'[i] = stack[i + 1]
  BY <1>5, <1>8
<1>9. ASSUME NEW t PROVE Coming(t)' <=> Coming(t)
  <2>1. \A h : Visits(h, t)' <=> Visits(h, t)
    BY DEF Visits
  <2>2. ~Visits(Top, t)
    BY <1>3 DEF Visits, Addressed
  <2>3. Visits(g, t) <=> Visits(f, t)
    BY <1>3, <1>4 DEF Visits, Comes, PortDone, SameCall, AtHub, Addressed
  <2>4. ASSUME NEW k \in DOMAIN stack', Visits(stack'[k], t) PROVE \E i \in DOMAIN stack : Visits(stack[i], t)
    <3>1. CASE k = 1
      BY <1>2, <1>5, <1>6, <2>3, <2>4, <3>1
    <3>2. CASE k # 1
      BY <1>8, <2>4, <3>2
    <3> QED BY <3>1, <3>2
  <2>5. ASSUME NEW k \in DOMAIN stack, Visits(stack[k], t) PROVE \E i \in DOMAIN stack' : Visits(stack'[i], t)
    <3>1. k # 1
      BY <1>5, <2>2, <2>5
    <3>2. CASE k = 2
      BY <1>2, <1>5, <1>6, <2>3, <2>5, <3>2
    <3>3. CASE k # 2
      <4>1. k - 1 \in DOMAIN stack' /\ k - 1 > 1 /\ (k - 1) + 1 = k
        BY <1>5, <3>1, <3>3
      <4>2. stack'[k - 1] = stack[k]
        BY <1>5, <4>1
      <4> QED BY <2>5, <4>1, <4>2
    <3> QED BY <3>2, <3>3
  <2>6. (\E k \in DOMAIN stack' : Visits(stack'[k], t)) <=> (\E k \in DOMAIN stack : Visits(stack[k], t))
    BY <2>4, <2>5
  <2> QED BY <2>1, <2>6 DEF Coming
<1>10. Awake' = Awake
  BY <1>1 DEF Awake, Devices
<1>11. ~AtWork
  BY <1>3 DEF AtWork
<1>12. AtWork' => Top'.type \notin SlotTypes /\ Top'.slot = End
  BY <1>5, <1>7
<1>13. \A i \in DOMAIN stack' : stack'[i].pc \in AtHub => stack'[i].slot = End
  BY <1>5, <1>7, <1>8 DEF LaidInv
<1> QED BY <1>1, <1>9, <1>10, <1>11, <1>12, <1>13, LaidKept

LEMMA ImageFinite ==
  ASSUME NEW f, IsFiniteSet(DOMAIN f)
  PROVE  IsFiniteSet({f[x] : x \in DOMAIN f})
<1> DEFINE S == DOMAIN f
           T == {f[x] : x \in DOMAIN f}
           h == [x \in S |-> f[x]]
<1>1. h \in Surjection(S, T)
  BY DEF Surjection
<1>2. IsFiniteSet(S)
  OBVIOUS
<1> HIDE DEF S, T, h
<1>3. IsFiniteSet(T)
  BY <1>1, <1>2, FS_Surjection
<1> QED BY <1>3 DEF T

\* There are finitely many interfaces.
LEMMA ServedFinite ==
  ASSUME wiring \in Wirings, IsFiniteSet(Devices)
  PROVE  IsFiniteSet(Served)
<1>1. ASSUME NEW d \in Devices, NEW n \in DOMAIN wiring.configs[d] PROVE IsFiniteSet(ServedBy(d, n))
  <2> DEFINE c == wiring.configs[d][n]
             f == [i \in DOMAIN c |-> <<d, n, i>>]
  <2>1. DOMAIN c = 1 .. Len(c) /\ Len(c) \in Nat
    BY ConfigsAre
  <2>2. IsFiniteSet(DOMAIN c)
    <3> HIDE DEF c
    <3> QED BY <2>1, FS_Interval
  <2>3. DOMAIN f = DOMAIN c
    OBVIOUS
  <2>4. ServedBy(d, n) \subseteq {f[i] : i \in DOMAIN f}
    BY DEF ServedBy, Interfaces
  <2> HIDE DEF c, f
  <2>5. IsFiniteSet({f[i] : i \in DOMAIN f})
    BY <2>2, <2>3, ImageFinite
  <2> QED BY <2>4, <2>5, FS_Subset
<1> DEFINE By(d) == UNION {ServedBy(d, n) : n \in DOMAIN wiring.configs[d]}
<1>2. ASSUME NEW d \in Devices PROVE IsFiniteSet(By(d))
  <2> DEFINE f == [n \in DOMAIN wiring.configs[d] |-> ServedBy(d, n)]
             all == {f[n] : n \in DOMAIN f}
  <2>1. IsFiniteSet(DOMAIN wiring.configs[d])
    <3>1. DOMAIN wiring.configs[d] = 1 .. Len(wiring.configs[d]) /\ Len(wiring.configs[d]) \in Nat
      BY ConfigsAre
    <3> QED BY <3>1, FS_Interval
  <2>2. DOMAIN f = DOMAIN wiring.configs[d]
    OBVIOUS
  <2>3. IsFiniteSet(all)
    <3> HIDE DEF f
    <3> QED BY <2>1, <2>2, ImageFinite
  <2>4. \A T \in all : IsFiniteSet(T)
    BY <1>1
  <2>5. all = {ServedBy(d, n) : n \in DOMAIN wiring.configs[d]}
    OBVIOUS
  <2>6. IsFiniteSet(UNION all)
    <3> HIDE DEF all
    <3> QED BY <2>3, <2>4, FS_UNION
  <2> HIDE DEF all
  <2> QED BY <2>5, <2>6
<1> HIDE DEF By
<1> DEFINE f == [d \in Devices |-> By(d)]
           all == {f[d] : d \in DOMAIN f}
<1>3. IsFiniteSet(all)
  <2>1. DOMAIN f = Devices
    OBVIOUS
  <2> HIDE DEF f
  <2> QED BY <2>1, ImageFinite
<1>4. \A T \in all : IsFiniteSet(T)
  BY <1>2
<1>5. all = {By(d) : d \in Devices}
  OBVIOUS
<1>6. IsFiniteSet(UNION all)
  <2> HIDE DEF all
  <2> QED BY <1>3, <1>4, FS_UNION
<1> HIDE DEF all
<1> QED BY <1>5, <1>6 DEF Served, By

\* The interface the innermost call is at.
LEMMA WorkIs ==
  ASSUME AddressInv, WalkInv, NEW pc \in Addressed \ {"config", "interface"}, Running(pc)
  PROVE  /\ Work[1] = Top.desc /\ Work[2] = Top.config + 1 /\ Work[3] = Top.interface
         /\ Config(Work) = Top.descs /\ Top.interface \in Interfaces(Top.descs)
         /\ Top.type = IdentifyClassDriver(Top.descs[Top.interface])
         /\ Work \in Served <=> Top.type \in SlotTypes
         /\ Top.desc \in Awake /\ at[Top.desc] = Top.address
<1>1. Work[1] = Top.desc /\ Work[2] = Top.config + 1 /\ Work[3] = Top.interface
  BY DEF Work
<1>2. /\ Top.config + 1 \in DOMAIN wiring.configs[Top.desc]
      /\ Top.descs = wiring.configs[Top.desc][Top.config + 1] /\ Top.desc \in Devices
  BY TopReads, TopSpeaks
<1>3. /\ Top.interface \in Interfaces(Top.descs)
      /\ Top.type = IdentifyClassDriver(Top.descs[Top.interface])
  BY TopSpeaks, WalkIs DEF Reads
<1>4. Config(Work) = Top.descs
  BY <1>1, <1>2 DEF Config
<1>5. Work \in Served <=> Top.type \in SlotTypes
  <2>1. PICK d, n, i : d = Top.desc /\ n = Top.config + 1 /\ i = Top.interface
    OBVIOUS
  <2>2. <<d, n, i>> \in Served <=> IdentifyClassDriver(wiring.configs[d][n][i]) \in SlotTypes
    BY <1>2, <1>3, <2>1, IsServed
  <2> QED BY <1>2, <1>3, <2>1, <2>2 DEF Work
<1>6. Top.desc \in Awake /\ at[Top.desc] = Top.address
  <2>1. at[Top.desc] \in 1 .. MaxAddress /\ at[Top.desc] = Top.address
    BY TopAddress, TopSpeaks DEF Speaks
  <2>2. at[Top.desc] \notin {0, Off}
    BY <2>1 DEF MaxAddress, Off
  <2> QED BY <1>2, <2>1, <2>2 DEF Awake
<1> QED BY <1>1, <1>2, <1>3, <1>4, <1>5, <1>6

\* No other call comes to an interface of its device.
LEMMA OnlyTop ==
  ASSUME AddressInv, WalkInv, NEW pc \in Addressed, Running(pc), NEW t, t[1] = Top.desc
  PROVE  \A i \in DOMAIN stack : i # 1 => ~Visits(stack[i], t)
<1> SUFFICES ASSUME NEW i \in DOMAIN stack, i # 1, Visits(stack[i], t) PROVE FALSE
  OBVIOUS
<1>1. 1 \in DOMAIN stack /\ Top = stack[1] /\ Top.pc \in Addressed
  BY WalkIs, StackIs
<1>2. stack[i].pc \in Addressed /\ stack[i].desc = stack[1].desc
  BY <1>1 DEF Visits
<1> QED BY <1>1, <1>2 DEF WalkInv, CallsRight

LEMMA PassedFinite ==
  ASSUME WalkInv, Smooth
  PROVE  IsFiniteSet(Served) /\ IsFiniteSet(Passed) /\ Passed \subseteq Served
<1>1. IsFiniteSet(Served)
  BY ServedFinite DEF WalkInv, EnumTyped, Smooth, Orderly, Ordinary, Devices
<1>2. Passed \subseteq Served
  BY DEF Passed
<1> QED BY <1>1, <1>2, FS_Subset

\* The slot of an interface that the walk has not passed is one of the first six.
LEMMA RoomForSlot ==
  ASSUME AddressInv, WalkInv, LaidInv, Smooth, Running("configure"), Top.type \in SlotTypes
  PROVE  FindFirstFree # End /\ Work \in Served \ Passed
<1>1. "configure" \in Addressed \ {"config", "interface"} /\ "configure" \in Addressed
  BY DEF Addressed
<1>2. /\ Work[1] = Top.desc /\ Work[2] = Top.config + 1 /\ Work[3] = Top.interface /\ Work \in Served
      /\ Top.interface \in Interfaces(Top.descs)
  BY <1>1, WorkIs
<1>3. Work \notin Passed
  <2>1. Top.pc = "configure" /\ Top = stack[1] /\ 1 \in DOMAIN stack
    BY WalkIs, StackIs
  <2>2. Top.interface \in Nat
    <3>1. DOMAIN Top.descs = 1 .. Len(Top.descs) /\ Len(Top.descs) \in Nat
      BY <1>1, TopReads
    <3> QED BY <1>2, <3>1 DEF Interfaces
  <2>3. Visits(Top, Work)
    BY <1>1, <1>2, <2>1, <2>2 DEF Visits, Comes
  <2>4. Coming(Work)
    BY <2>1, <2>3 DEF Coming
  <2> QED BY <2>4 DEF Passed
<1>4. Cardinality(Passed) < Cardinality(Served)
  <2>1. IsFiniteSet(Served) /\ Passed \subseteq Served /\ Passed # Served
    BY <1>2, <1>3, PassedFinite
  <2>2. Cardinality(Passed) <= Cardinality(Served) /\ Cardinality(Passed) # Cardinality(Served)
    BY <2>1, FS_Subset
  <2>3. Cardinality(Passed) \in Nat /\ Cardinality(Served) \in Nat
    BY <2>1, PassedFinite, FS_CardinalityType
  <2> QED BY <2>2, <2>3
<1>5. Cardinality(DOMAIN slots) < MaxNumberOfDevices
  <2>1. Cardinality(Served) <= MaxNumberOfDevices
    BY DEF Smooth, Orderly, Fits
  <2>2. Cardinality(Passed) \in Nat /\ Cardinality(Served) \in Nat
    BY PassedFinite, FS_CardinalityType
  <2> QED BY <1>4, <2>1, <2>2 DEF LaidInv, MaxNumberOfDevices
<1> QED BY <1>2, <1>3, <1>5, FreePlace DEF WalkInv

\* The addresses fit in the slots.
LEMMA AddressFits ==
  ASSUME WalkInv, TreeInv, Smooth
  PROVE  nextAddress < 16
<1>1. IsFiniteSet(Devices) /\ Cardinality(Devices) < 16 /\ Awake \subseteq Devices
  BY DEF Smooth, Orderly, Ordinary, Devices, Awake
<1>2. Cardinality(Awake) <= Cardinality(Devices) /\ Cardinality(Devices) \in Nat /\ Cardinality(Awake) \in Nat
  BY <1>1, FS_Subset, FS_CardinalityType
<1> QED BY <1>1, <1>2 DEF TreeInv

\* An interface without a driver leaves no trace.
LEMMA NoSlotLaid ==
  ASSUME AddressInv, WalkInv, LaidInv, UNCHANGED <<wiring, at, slots>>, Running("configure"),
         Top.type \notin SlotTypes, NEW g, Configured(g)
  PROVE  LaidInv'
<1>1. "configure" \in Addressed \ {"config", "interface"} /\ "configure" \in Addressed /\ Top.pc = "configure"
  BY WalkIs DEF Addressed
<1>2. /\ Replaced(g) /\ SameCall(Top, g) /\ g.slot = End
      /\ g.pc \in {"hub", "endpoint"}
  BY DEF Configured
<1>3. ASSUME NEW t \in Served PROVE Visits(g, t) <=> Visits(Top, t)
  <2>1. t[1] = Top.desc /\ t[2] = Top.config + 1 => t[3] # Top.interface
    <3> SUFFICES ASSUME t[1] = Top.desc, t[2] = Top.config + 1, t[3] = Top.interface PROVE FALSE
      OBVIOUS
    <3>1. t = Work
      BY ServedAre DEF Work
    <3> QED BY <1>1, <3>1, WorkIs
  <2>2. t[1] = Top.desc /\ t[2] = Top.config + 1 => t[3] \in Nat /\ Top.interface \in Nat
    <3> SUFFICES ASSUME t[1] = Top.desc, t[2] = Top.config + 1 PROVE t[3] \in Nat /\ Top.interface \in Nat
      OBVIOUS
    <3>1. DOMAIN Top.descs = 1 .. Len(Top.descs) /\ Len(Top.descs) \in Nat
          /\ Top.descs = wiring.configs[Top.desc][Top.config + 1]
      BY <1>1, TopReads
    <3>2. Top.interface \in Interfaces(Top.descs)
      BY <1>1, WorkIs
    <3>3. t[3] \in Interfaces(Top.descs)
      BY <3>1, ServedAre DEF Config
    <3>4. t[3] \in DOMAIN Top.descs /\ Top.interface \in DOMAIN Top.descs
      BY <3>2, <3>3 DEF Interfaces
    <3> QED BY <3>1, <3>4
  <2>3. g.pc \in AtHub \cup {"endpoint"} /\ g.pc \in Addressed
    BY <1>2 DEF AtHub, Addressed
  <2>4. t[1] = Top.desc => (Comes(g, t[2], t[3]) <=> Comes(Top, t[2], t[3]))
    <3>1. CASE t[2] = Top.config + 1
      <4>1. t[1] = Top.desc => (t[3] >= Top.interface <=> t[3] > Top.interface)
        BY <2>1, <2>2, <3>1
      <4>2. Comes(g, t[2], t[3]) <=> t[2] > Top.config + 1 \/ t[3] > Top.interface
        BY <1>2, <2>3, <3>1 DEF Comes, SameCall, AtHub
      <4>3. Comes(Top, t[2], t[3]) <=> t[2] > Top.config + 1 \/ t[3] >= Top.interface
        BY <1>1, <3>1 DEF Comes, AtHub
      <4> QED BY <4>1, <4>2, <4>3
    <3>2. CASE t[2] # Top.config + 1
      BY <1>2, <3>2 DEF Comes, SameCall
    <3> QED BY <3>1, <3>2
  <2> QED BY <1>1, <1>2, <2>3, <2>4 DEF Visits, SameCall
<1>4. Awake' = Awake
  BY DEF Awake, Devices
<1>5. g.type \notin SlotTypes
  BY <1>2 DEF SameCall
<1> QED BY <1>1, <1>2, <1>3, <1>4, <1>5, LaidReplaced

\* A new slot is that of its interface, with no endpoints yet.
LEMMA NewSlotWritten ==
  ASSUME AddressInv, WalkInv, CountInv, TreeInv, Smooth, UNCHANGED <<wiring, at>>, Running("configure"),
         NEW s, s = NewSlot(Top)
  PROVE  Written(s, Work, Top.ptr)
<1>1. "configure" \in Addressed \ {"config", "interface"} /\ "configure" \in Addressed
  BY DEF Addressed
<1>2. /\ Work[1] = Top.desc /\ Work[2] = Top.config + 1 /\ Work[3] = Top.interface
      /\ Config(Work) = Top.descs /\ Top.interface \in Interfaces(Top.descs)
      /\ Top.type = IdentifyClassDriver(Top.descs[Top.interface])
      /\ Top.desc \in Awake /\ at[Top.desc] = Top.address
  BY <1>1, WorkIs
<1>3. s.type = Top.type /\ s.address = Top.address % 16 /\ s.number = Top.descs[Top.interface].number
      /\ "endpoints" \in DOMAIN s
  BY DEF NewSlot
<1>4. Top.address % 16 = Top.address
  <2>1. Top.address \in 1 .. nextAddress /\ nextAddress < 16 /\ nextAddress \in Nat
    BY <1>1, TopSpeaks, AddressFits DEF Speaks, AddressInv
  <2> QED BY <2>1
<1>5. Placed(s, Top.descs, Top.interface, Top.ptr)
  <2>1. \A k \in EndpointsAt(Top.descs, Top.interface) : k >= Top.ptr
    BY <1>1, TopInterface DEF Smooth
  <2>2. \A k \in EndpointsAt(Top.descs, Top.interface) : k \in Nat /\ Top.ptr \in Nat
    <3>1. DOMAIN Top.descs = 1 .. Len(Top.descs) /\ Len(Top.descs) \in Nat /\ Top.ptr \in DOMAIN Top.descs
      BY <1>1, TopReads
    <3> QED BY <3>1 DEF EndpointsAt
  <2>3. \A k \in EndpointsAt(Top.descs, Top.interface) : ~(k < Top.ptr)
    BY <2>1, <2>2
  <2> QED BY <2>3 DEF Placed
<1> QED BY <1>2, <1>3, <1>4, <1>5 DEF Written

\* An interface with a driver gets its slot.
LEMMA SlotIsLaid ==
  ASSUME AddressInv, WalkInv, CountInv, TreeInv, LaidInv, Smooth, UNCHANGED <<wiring, at, phase>>,
         Running("configure"), Top.type \in SlotTypes, slots' = SlotLaid(FindFirstFree, NewSlot(Top)),
         NEW g, Configured(g)
  PROVE  LaidInv'
<1>1. "configure" \in Addressed \ {"config", "interface"} /\ "configure" \in Addressed /\ Top.pc = "configure"
  BY WalkIs DEF Addressed
<1>2. FindFirstFree # End /\ Work \in Served \ Passed
  BY RoomForSlot
<1>3. PICK F, s, w, n : F = FindFirstFree /\ s = NewSlot(Top) /\ w = Work /\ n = Top.ptr
  OBVIOUS
<1>4. /\ DOMAIN slots' = DOMAIN slots \cup {F} /\ slots'[F] = s /\ F \notin DOMAIN slots
      /\ \A p \in DOMAIN slots : slots'[p] = slots[p] /\ p # F
      /\ IsFiniteSet(DOMAIN slots)
  <2>1. s.type \in SlotTypes
    BY <1>3 DEF NewSlot
  <2>2. Chain
    BY DEF WalkInv
  <2> QED BY <1>2, <1>3, <2>1, <2>2, SlotAdded, FreeIs DEF Chain
<1>5. /\ Calls(stack) /\ stack # << >> /\ Replaced(g) /\ SameCall(Top, g) /\ g.slot = F
      /\ g.pc = "endpoint" /\ phase' = "enumerate"
  <2>1. "hub" \notin SlotTypes
    BY SizesAre
  <2> QED BY <1>3, <2>1, WalkIs, PhaseIs DEF Configured
<1>6. /\ DOMAIN stack' = DOMAIN stack /\ stack'[1] = g /\ Top' = g /\ Top = stack[1] /\ 1 \in DOMAIN stack
      /\ \A i \in DOMAIN stack : i = 1 \/ (i > 1 /\ stack'[i] = stack[i])
  BY <1>5, ReplacedIs
<1>7. AtWork' /\ Work' = w
  BY <1>3, <1>5, <1>6 DEF AtWork, Work, SameCall
<1>8. Written(s, w, n)'
  <2>1. Written(s, w, n)
    BY <1>3, NewSlotWritten
  <2>2. at'[w[1]] = at[w[1]]
    OBVIOUS
  <2> QED BY <2>1, <2>2, WrittenSame
<1>9. Served' = Served /\ (\A t : Config(t)' = Config(t)) /\ Awake' = Awake
  BY ServedSame DEF Awake, Devices
<1>10. ASSUME NEW t \in Served PROVE Coming(t)' <=> Coming(t) /\ t # w
  <2>1. \A f : Visits(f, t)' <=> Visits(f, t)
    BY DEF Visits
  <2>2. CASE t = w
    <3>1. t[1] = Top.desc /\ t[3] = Top.interface /\ t[2] = Top.config + 1
      BY <1>1, <1>3, <2>2, WorkIs
    <3>2. \A i \in DOMAIN stack : i # 1 => ~Visits(stack[i], t)
      BY <1>1, <3>1, OnlyTop
    <3>3. Top.interface \in Nat /\ Top.config \in Nat
      <4>1. DOMAIN Top.descs = 1 .. Len(Top.descs) /\ Len(Top.descs) \in Nat
        BY <1>1, TopReads
      <4>2. Top.interface \in Interfaces(Top.descs)
        BY <1>1, WorkIs
      <4> QED BY <1>1, <4>1, <4>2, TopSpeaks DEF Interfaces
    <3>4. ~Visits(g, t)
      BY <1>5, <3>1, <3>3 DEF Visits, Comes, SameCall
    <3>5. \A i \in DOMAIN stack' : ~Visits(stack'[i], t)
      BY <1>6, <3>2, <3>4
    <3> QED BY <2>1, <2>2, <3>5 DEF Coming
  <2>3. CASE t # w
    <3>1. Visits(g, t) <=> Visits(Top, t)
      <4>1. CASE t[1] = Top.desc /\ t[2] = Top.config + 1
        <5>1. t[3] # Top.interface
          BY <1>3, <2>3, <4>1, ServedAre DEF Work
        <5>2. DOMAIN Top.descs = 1 .. Len(Top.descs) /\ Len(Top.descs) \in Nat
              /\ Top.descs = wiring.configs[Top.desc][Top.config + 1]
          BY <1>1, TopReads
        <5>3. Top.interface \in Interfaces(Top.descs) /\ t[3] \in Interfaces(Top.descs)
          BY <1>1, <4>1, <5>2, WorkIs, ServedAre DEF Config
        <5>4. t[3] \in Nat /\ Top.interface \in Nat
          <6>1. t[3] \in DOMAIN Top.descs /\ Top.interface \in DOMAIN Top.descs
            BY <5>3 DEF Interfaces
          <6> QED BY <5>2, <6>1
        <5>5. t[3] >= Top.interface <=> t[3] > Top.interface
          BY <5>1, <5>4
        <5>6. Comes(g, t[2], t[3]) <=> t[2] > Top.config + 1 \/ t[3] > Top.interface
          BY <1>5, <4>1 DEF Comes, SameCall
        <5>7. Comes(Top, t[2], t[3]) <=> t[2] > Top.config + 1 \/ t[3] >= Top.interface
          BY <1>1, <4>1 DEF Comes, AtHub
        <5> QED BY <1>1, <1>5, <4>1, <5>5, <5>6, <5>7 DEF Visits, SameCall, Addressed
      <4>2. CASE t[1] = Top.desc /\ t[2] # Top.config + 1
        BY <1>1, <1>5, <4>2 DEF Visits, Comes, SameCall, Addressed
      <4>3. CASE t[1] # Top.desc
        BY <1>5, <4>3 DEF Visits, SameCall
      <4> QED BY <4>1, <4>2, <4>3
    <3> QED BY <1>5, <2>3, <3>1, ComingReplaced
  <2> QED BY <2>2, <2>3
<1>11. Passed' = Passed \cup {w}
  <2>1. w[1] \in Awake /\ w \in Served
    BY <1>1, <1>2, <1>3, WorkIs
  <2>2. Passed' = {t \in Served : t[1] \in Awake /\ ~Coming(t)'}
    BY <1>9 DEF Passed
  <2> QED BY <1>10, <2>1, <2>2 DEF Passed
<1>12. Cardinality(DOMAIN slots') = Cardinality(Passed')
  <2>1. Cardinality(DOMAIN slots') = Cardinality(DOMAIN slots) + 1
    BY <1>4, FS_AddElement
  <2>2. Cardinality(Passed') = Cardinality(Passed) + 1
    BY <1>2, <1>3, <1>11, PassedFinite, FS_AddElement
  <2> QED BY <2>1, <2>2 DEF LaidInv
<1>13. (AtWork => IF Top.type \in SlotTypes
                  THEN Top.slot \in DOMAIN slots /\ Written(slots[Top.slot], Work, Top.ptr)
                  ELSE Top.slot = End)'
  <2>1. g.slot \in DOMAIN slots' /\ slots'[g.slot] = s /\ g.ptr = n
    BY <1>3, <1>4, <1>5 DEF SameCall
  <2>2. Written(slots[Top.slot], Work, Top.ptr)'
    BY <1>6, <1>7, <1>8, <2>1
  <2>3. g.type \in SlotTypes'
    BY <1>5 DEF SameCall, SlotTypes, StructSize
  <2> QED BY <1>6, <2>1, <2>2, <2>3
<1>14. ASSUME NEW t \in Passed', t # w
       PROVE  \E p \in DOMAIN slots' : p # F /\ Written(slots[p], t, Len(Config(t)) + 1)'
  <2>1. t \in Passed /\ t[1] \in Awake
    BY <1>11, <1>14 DEF Passed
  <2>2. PICK p \in DOMAIN slots : Written(slots[p], t, Len(Config(t)) + 1)
    BY <1>1, <2>1 DEF LaidInv, AtWork
  <2>3. PICK r, m : r = slots[p] /\ m = Len(Config(t)) + 1
    OBVIOUS
  <2>4. Written(r, t, m)'
    BY <2>2, <2>3, WrittenSame
  <2>5. Written(slots[p], t, Len(Config(t)) + 1)'
    BY <1>4, <1>9, <2>2, <2>3, <2>4
  <2> QED BY <1>4, <2>2, <2>5
<1>15. (\A t \in Passed : \/ AtWork /\ t = Work
                          \/ \E p \in DOMAIN slots : /\ AtWork => p # Top.slot
                                                     /\ Written(slots[p], t, Len(Config(t)) + 1))'
  <2>1. \A t \in Passed' : t = w \/ \E p \in DOMAIN slots' : p # Top'.slot /\ Written(slots[p], t, Len(Config(t)) + 1)'
    BY <1>5, <1>6, <1>14
  <2> QED BY <1>7, <2>1
<1>16. \A i \in DOMAIN stack' : stack'[i].pc \in AtHub => stack'[i].slot = End
  <2>1. g.pc \notin AtHub
    BY <1>5 DEF AtHub
  <2> QED BY <1>6, <2>1 DEF LaidInv
<1> QED BY <1>12, <1>13, <1>15, <1>16 DEF LaidInv

LEMMA PlacesFit ==
  ASSUME NEW type, NEW e
  PROVE  EndpointPlaces(type, e) \subseteq DOMAIN NoEndpoints
<1>1. DOMAIN NoEndpoints = {"bulkOut", "bulkIn", "interruptIn"}
  BY DEF NoEndpoints
<1> QED BY <1>1 DEF EndpointPlaces

\* Between one endpoint and the next there is none to write.
LEMMA PlacedOn ==
  ASSUME NEW s, NEW c, NEW i, NEW m, NEW n, Placed(s, c, i, m),
         \A k \in EndpointsAt(c, i) : k < m <=> k < n
  PROVE  Placed(s, c, i, n)
BY DEF Placed

\* The slot with endpoint p written.
Put(s, e) ==
  [s EXCEPT !.endpoints = [q \in DOMAIN NoEndpoints |->
                             IF q \in EndpointPlaces(s.type, e) THEN e.number % 8 ELSE @[q]]]

LEMMA PlacedNext ==
  ASSUME NEW c, Len(c) \in Nat, DOMAIN c = 1 .. Len(c), NEW i, NEW p \in EndpointsAt(c, i),
         NEW s, Placed(s, c, i, p), NEW t, t.type = s.type,
         \A q \in DOMAIN NoEndpoints :
           t.endpoints[q] = IF q \in EndpointPlaces(s.type, c[p]) THEN c[p].number % 8 ELSE s.endpoints[q]
  PROVE  Placed(t, c, i, p + 1)
<1>1. \A k \in EndpointsAt(c, i) : k \in Nat
  BY DEF EndpointsAt
<1> SUFFICES ASSUME NEW k \in EndpointsAt(c, i), k < p + 1, NEW q \in EndpointPlaces(s.type, c[k]),
                    \A l \in EndpointsAt(c, i) : k < l /\ l < p + 1 => q \notin EndpointPlaces(s.type, c[l])
             PROVE  t.endpoints[q] = c[k].number % 8
  BY DEF Placed
<1>2. q \in DOMAIN NoEndpoints
  BY PlacesFit
<1>3. CASE k = p
  BY <1>2, <1>3
<1>4. CASE k # p
  <2>1. k < p /\ p < p + 1
    BY <1>1, <1>4
  <2>2. q \notin EndpointPlaces(s.type, c[p])
    BY <2>1
  <2>3. \A l \in EndpointsAt(c, i) : k < l /\ l < p => q \notin EndpointPlaces(s.type, c[l])
    BY <1>1
  <2>4. s.endpoints[q] = c[k].number % 8
    BY <2>1, <2>3 DEF Placed
  <2> QED BY <1>2, <2>2, <2>4
<1> QED BY <1>3, <1>4

\* The endpoint is in its slot.
LEMMA EndpointWritten ==
  ASSUME AddressInv, WalkInv, CountInv, TreeInv, LaidInv, Smooth, ParseEndpoint, Top.type \in SlotTypes
  PROVE  /\ DOMAIN slots' = DOMAIN slots /\ Top.slot \in DOMAIN slots
         /\ \A p \in DOMAIN slots : p # Top.slot => slots'[p] = slots[p]
         /\ \E s : s = slots'[Top.slot] /\ Written(s, Work, Top.ptr + 1)
<1>1. /\ Running("endpoint") /\ "endpoint" \in Addressed \ {"config", "interface"}
      /\ Top.pc = "endpoint" /\ phase = "enumerate"
  BY WalkIs, PhaseIs DEF ParseEndpoint, Addressed
<1>2. PICK P, w, n, c, i : P = Top.slot /\ w = Work /\ n = Top.ptr /\ c = Top.descs /\ i = Top.interface
  OBVIOUS
<1>3. PICK s : s = slots[P]
  OBVIOUS
<1>4. P \in DOMAIN slots /\ Written(s, w, n)
  BY <1>1, <1>2, <1>3 DEF LaidInv, AtWork
<1>5. /\ w[3] = i /\ Config(w) = c /\ i \in Interfaces(c)
      /\ Top.type = IdentifyClassDriver(c[i])
  BY <1>1, <1>2, WorkIs
<1>6. /\ Len(c) \in Nat /\ DOMAIN c = 1 .. Len(c) /\ n \in DOMAIN c /\ i \in DOMAIN c
      /\ IF EndpointsAt(c, i) = {} THEN n = i ELSE n \in EndpointsAt(c, i)
  BY <1>1, <1>2, TopReads, TopInterface DEF Smooth
<1>7. s.type = Top.type /\ Placed(s, c, i, n) /\ "endpoints" \in DOMAIN s
  BY <1>4, <1>5 DEF Written
<1>8. slots' = IF c[n].type # "endpoint" THEN slots ELSE [slots EXCEPT ![P] = Put(s, c[n])]
  <2>1. PICK e : e = c[n]
    OBVIOUS
  <2>2. slots' = IF e.type # "endpoint" THEN slots
                 ELSE [slots EXCEPT ![P].endpoints =
                          [p \in DOMAIN NoEndpoints |->
                             IF p \in EndpointPlaces(Top.type, e) THEN e.number % 8 ELSE @[p]]]
    BY <1>2, <1>4, <2>1 DEF ParseEndpoint, Used
  <2>3. [slots EXCEPT ![P].endpoints =
                          [p \in DOMAIN NoEndpoints |->
                             IF p \in EndpointPlaces(Top.type, e) THEN e.number % 8 ELSE @[p]]]
          = [slots EXCEPT ![P] = Put(s, e)]
    BY <1>3, <1>7 DEF Put
  <2> QED BY <2>1, <2>2, <2>3
<1>9. CASE c[n].type # "endpoint"
  <2>1. EndpointsAt(c, i) = {}
    BY <1>6, <1>9 DEF EndpointsAt
  <2>2. Placed(s, c, i, n + 1)
    BY <2>1 DEF Placed
  <2>3. Written(s, w, n + 1)
    BY <1>4, <1>5, <2>2 DEF Written
  <2> QED BY <1>2, <1>3, <1>4, <1>8, <1>9, <2>3
<1>10. CASE c[n].type = "endpoint"
  <2>1. n \in EndpointsAt(c, i)
    <3>1. c[i].type = "interface"
      BY <1>5 DEF Interfaces
    <3> QED BY <1>6, <1>10, <3>1
  <2>2. PICK t : t = Put(s, c[n])
    OBVIOUS
  <2>3. DOMAIN slots' = DOMAIN slots /\ slots'[P] = t /\ \A p \in DOMAIN slots : p # P => slots'[p] = slots[p]
    BY <1>4, <1>8, <1>10, <2>2
  <2>4. /\ t.type = s.type /\ t.address = s.address /\ t.number = s.number
        /\ "endpoints" \in DOMAIN t
        /\ \A q \in DOMAIN NoEndpoints :
           t.endpoints[q] = IF q \in EndpointPlaces(s.type, c[n]) THEN c[n].number % 8 ELSE s.endpoints[q]
    BY <1>7, <2>2 DEF Put
  <2>5. Placed(t, c, i, n + 1)
    BY <1>6, <1>7, <2>1, <2>4, PlacedNext
  <2>6. Written(t, w, n + 1)
    BY <1>4, <1>5, <2>4, <2>5 DEF Written
  <2> QED BY <1>2, <1>4, <2>3, <2>6
<1> QED BY <1>9, <1>10

\* An interface of a device that keeps its address, when the slots change.
LEMMA WrittenKept ==
  ASSUME UNCHANGED wiring, NEW t, at'[t[1]] = at[t[1]], NEW p, slots'[p] = slots[p],
         Written(slots[p], t, Len(Config(t)) + 1)
  PROVE  Written(slots[p], t, Len(Config(t)) + 1)'
<1>1. PICK s, n : s = slots[p] /\ n = Len(Config(t)) + 1
  OBVIOUS
<1>2. Written(s, t, n)'
  BY <1>1, WrittenSame
<1>3. Config(t)' = Config(t)
  BY ServedSame
<1> QED BY <1>1, <1>2, <1>3

\* An endpoint of an interface without a driver leaves no trace.
LEMMA EndpointPassed ==
  ASSUME AddressInv, WalkInv, LaidInv, UNCHANGED <<wiring, at, slots>>, Running("endpoint"),
         Top.type \notin SlotTypes, NEW g, Replaced(g), Passed' = Passed,
         g.pc = "endpoint" => g.slot = Top.slot /\ g.type = Top.type, g.pc \notin AtHub
  PROVE  LaidInv'
<1>1. "endpoint" \in Addressed \ {"config", "interface"} /\ Top.pc = "endpoint" /\ phase = "enumerate"
      /\ Calls(stack) /\ stack # << >>
  BY WalkIs, PhaseIs DEF Addressed
<1>2. /\ DOMAIN stack' = DOMAIN stack /\ stack'[1] = g /\ Top' = g
      /\ \A i \in DOMAIN stack : i = 1 \/ (i > 1 /\ stack'[i] = stack[i])
  BY <1>1, ReplacedIs
<1>3. Top.slot = End
  BY <1>1 DEF LaidInv, AtWork
<1>4. \A p \in DOMAIN slots : p # End
  BY DEF WalkInv, Chain, AreaSize, End
<1>5. AtWork' => Top'.slot = End /\ Top'.type \notin SlotTypes
  BY <1>2, <1>3 DEF AtWork
<1>6. ASSUME NEW t \in Passed
      PROVE  \E p \in DOMAIN slots' : p # End /\ Written(slots[p], t, Len(Config(t)) + 1)'
  <2>1. t # Work
    BY <1>1, WorkIs DEF Passed
  <2>2. PICK p \in DOMAIN slots : Written(slots[p], t, Len(Config(t)) + 1)
    BY <2>1 DEF LaidInv
  <2> QED BY <1>4, <2>2, WrittenKept
<1>7. (\A t \in Passed : \/ AtWork /\ t = Work
                         \/ \E p \in DOMAIN slots : /\ AtWork => p # Top.slot
                                                    /\ Written(slots[p], t, Len(Config(t)) + 1))'
  <2>1. \A t \in Passed' : \E p \in DOMAIN slots' : /\ AtWork' => p # Top'.slot
                                                   /\ Written(slots[p], t, Len(Config(t)) + 1)'
    BY <1>5, <1>6
  <2> QED BY <2>1
<1>8. (AtWork => IF Top.type \in SlotTypes
               THEN Top.slot \in DOMAIN slots /\ Written(slots[Top.slot], Work, Top.ptr)
               ELSE Top.slot = End)'
  BY <1>5 DEF SlotTypes, StructSize
<1>9. Cardinality(DOMAIN slots') = Cardinality(Passed')
  BY DEF LaidInv
<1>10. \A i \in DOMAIN stack' : stack'[i].pc \in AtHub => stack'[i].slot = End
  BY <1>2 DEF LaidInv
<1> QED BY <1>7, <1>8, <1>9, <1>10 DEF LaidInv

\* The slot of an interface is written as far as the next endpoint, or to the end.
LEMMA WrittenOn ==
  ASSUME AddressInv, WalkInv, CountInv, TreeInv, LaidInv, Smooth, Running("endpoint"),
         NEW s, Written(s, Work, Top.ptr + 1), NEW g, NextOf(g)
  PROVE  IF g.pc = "endpoint" THEN Written(s, Work, g.ptr)
                              ELSE Written(s, Work, Len(Config(Work)) + 1)
<1>1. "endpoint" \in Addressed \ {"config", "interface"} /\ "endpoint" \in Addressed
  BY DEF Addressed
<1>2. PICK c, i, n : c = Top.descs /\ i = Top.interface /\ n = Top.ptr
  OBVIOUS
<1>3. Config(Work) = c /\ Work[3] = i
  BY <1>1, <1>2, WorkIs
<1>4. Len(c) \in Nat /\ DOMAIN c = 1 .. Len(c) /\ n \in DOMAIN c
  BY <1>1, <1>2, TopReads
<1>5. \A k \in EndpointsAt(c, i) : k \in Nat /\ k <= Len(c)
  BY <1>4 DEF EndpointsAt
<1>6. Placed(s, c, i, n + 1)
  BY <1>2, <1>3 DEF Written
<1>7. CASE g.pc = "endpoint"
  <2>1. g.ptr \in Nat /\ g.ptr > n /\ \A k \in EndpointsAt(c, i) : k > n => g.ptr <= k
    BY <1>2, <1>5, <1>7 DEF NextOf
  <2>2. \A k \in EndpointsAt(c, i) : k < n + 1 <=> k < g.ptr
    BY <1>4, <1>5, <2>1
  <2>3. Placed(s, c, i, g.ptr)
    BY <1>6, <2>2, PlacedOn
  <2> QED BY <1>3, <1>7, <2>3 DEF Written
<1>8. CASE g.pc # "endpoint"
  <2>1. \A k \in EndpointsAt(c, i) : k <= n
    BY <1>2, <1>8 DEF NextOf
  <2>2. \A k \in EndpointsAt(c, i) : k < n + 1 <=> k < Len(c) + 1
    BY <1>4, <1>5, <2>1
  <2>3. Placed(s, c, i, Len(c) + 1)
    BY <1>6, <2>2, PlacedOn
  <2> QED BY <1>3, <1>8, <2>3 DEF Written
<1> QED BY <1>7, <1>8

LEMMA ParseEndpointLaid ==
  ASSUME AddressInv, WalkInv, CountInv, TreeInv, LaidInv, Smooth, Smooth', ParseEndpoint
  PROVE  LaidInv'
<1>1. /\ Running("endpoint") /\ "endpoint" \in Addressed \ {"config", "interface"} /\ "endpoint" \in Addressed
      /\ UNCHANGED <<wiring, phase>>
  BY DEF ParseEndpoint, Addressed, bootvars
<1>2. PICK g : Onward(g) /\ Top.pc = "endpoint" /\ SameAhead(Top, g) /\ NextOf(g)
  BY ParseEndpointFound
<1>3. UNCHANGED at /\ Calls(stack) /\ stack # << >> /\ phase = "enumerate"
  BY <1>1, ParseEndpointFound, WalkIs, PhaseIs
<1>4. /\ DOMAIN stack' = DOMAIN stack /\ stack'[1] = g /\ Top' = g
      /\ \A i \in DOMAIN stack : i = 1 \/ (i > 1 /\ stack'[i] = stack[i])
  BY <1>2, <1>3, ReplacedIs DEF Onward
<1>5. Replaced(g) /\ g.pc \in Addressed /\ g.desc = Top.desc /\ g.pc \notin AtHub
  BY <1>2 DEF Onward, NextOf, AtHub
<1>6. Passed' = Passed
  <2>1. \A t \in Served : Coming(t)' <=> Coming(t)
    BY <1>1, <1>2, <1>3, <1>5, SameVisits, ComingReplaced
  <2>2. Served' = Served /\ Awake' = Awake
    BY <1>1, <1>3, ServedSame DEF Awake, Devices
  <2> QED BY <2>1, <2>2 DEF Passed
<1>7. g.pc = "endpoint" => g.slot = Top.slot /\ g.type = Top.type /\ Work' = Work
  BY <1>2, <1>4, <1>5 DEF NextOf, Work
<1>8. CASE Top.type \notin SlotTypes
  <2>1. Top.slot = End
    BY <1>2, <1>3, <1>8 DEF LaidInv, AtWork
  <2>2. slots' = slots
    BY <2>1 DEF ParseEndpoint, Used, WalkInv, Chain, AreaSize, End
  <2> QED BY <1>1, <1>3, <1>5, <1>6, <1>7, <1>8, <2>2, EndpointPassed
<1>9. CASE Top.type \in SlotTypes
  <2>1. PICK P, w, s : P = Top.slot /\ w = Work /\ s = slots'[Top.slot] /\ Written(s, w, Top.ptr + 1)
    BY <1>9, EndpointWritten
  <2>2. /\ DOMAIN slots' = DOMAIN slots /\ P \in DOMAIN slots /\ slots'[P] = s
        /\ \A p \in DOMAIN slots : p # P => slots'[p] = slots[p]
    BY <1>9, <2>1, EndpointWritten
  <2>3. Cardinality(DOMAIN slots') = Cardinality(Passed')
    BY <1>6, <2>2 DEF LaidInv
  <2>4. \A i \in DOMAIN stack' : stack'[i].pc \in AtHub => stack'[i].slot = End
    BY <1>4, <1>5 DEF LaidInv
  <2>5. ASSUME NEW t \in Passed, t # w
        PROVE  \E p \in DOMAIN slots' : p # P /\ Written(slots[p], t, Len(Config(t)) + 1)'
    <3>1. PICK p \in DOMAIN slots : p # P /\ Written(slots[p], t, Len(Config(t)) + 1)
      BY <1>2, <1>3, <2>1, <2>5 DEF LaidInv, AtWork
    <3>2. slots'[p] = slots[p]
      BY <2>2, <3>1
    <3>3. Written(slots[p], t, Len(Config(t)) + 1)'
      BY <1>1, <1>3, <3>1, <3>2, WrittenKept
    <3> QED BY <2>2, <3>1, <3>3
  <2>6. CASE g.pc = "endpoint"
    <3>1. AtWork' /\ Work' = w /\ Top'.slot = P /\ Top'.type = Top.type
      BY <1>1, <1>3, <1>4, <1>7, <2>1, <2>6 DEF AtWork
    <3>2. PICK n : n = g.ptr
      OBVIOUS
    <3>3. Written(s, w, n)
      BY <1>1, <1>2, <2>1, <2>6, <3>2, WrittenOn
    <3>4. Written(s, w, n)'
      BY <1>1, <1>3, <3>3, WrittenSame
    <3>5. Written(slots[Top.slot], Work, Top.ptr)'
      BY <1>4, <2>2, <3>1, <3>2, <3>4
    <3>6. (AtWork => IF Top.type \in SlotTypes
                     THEN Top.slot \in DOMAIN slots /\ Written(slots[Top.slot], Work, Top.ptr)
                     ELSE Top.slot = End)'
      <4>1. Top'.slot \in DOMAIN slots' /\ Top'.type \in SlotTypes'
        BY <1>9, <2>2, <3>1 DEF SlotTypes, StructSize
      <4> QED BY <3>5, <4>1
    <3>7. (\A t \in Passed : \/ AtWork /\ t = Work
                             \/ \E p \in DOMAIN slots : /\ AtWork => p # Top.slot
                                                        /\ Written(slots[p], t, Len(Config(t)) + 1))'
      <4>1. \A t \in Passed' : t = w \/ \E p \in DOMAIN slots' : p # Top'.slot /\ Written(slots[p], t, Len(Config(t)) + 1)'
        BY <1>6, <2>5, <3>1
      <4> QED BY <3>1, <4>1
    <3> QED BY <2>3, <2>4, <3>6, <3>7 DEF LaidInv
  <2>7. CASE g.pc # "endpoint"
    <3>1. ~AtWork'
      BY <1>4, <2>7 DEF AtWork
    <3>2. PICK n : n = Len(Config(w)) + 1
      OBVIOUS
    <3>3. Written(s, w, n)
      BY <1>1, <1>2, <2>1, <2>7, <3>2, WrittenOn
    <3>4. Written(s, w, n)'
      BY <1>1, <1>3, <3>3, WrittenSame
    <3>5. Written(slots[P], w, Len(Config(w)) + 1)'
      <4>1. Config(w)' = Config(w)
        BY <1>1, ServedSame
      <4> QED BY <2>2, <3>2, <3>4, <4>1
    <3>6. \A t \in Passed' : \E p \in DOMAIN slots' : Written(slots[p], t, Len(Config(t)) + 1)'
      <4>1. ASSUME NEW t \in Passed
            PROVE  \E p \in DOMAIN slots' : Written(slots[p], t, Len(Config(t)) + 1)'
        <5>1. CASE t = w
          BY <2>2, <3>5, <5>1
        <5>2. CASE t # w
          BY <2>5, <5>2
        <5> QED BY <5>1, <5>2
      <4> QED BY <1>6, <4>1
    <3>7. (\A t \in Passed : \/ AtWork /\ t = Work
                             \/ \E p \in DOMAIN slots : /\ AtWork => p # Top.slot
                                                        /\ Written(slots[p], t, Len(Config(t)) + 1))'
      <4>1. \A t \in Passed' : \E p \in DOMAIN slots' : /\ AtWork' => p # Top'.slot
                                                        /\ Written(slots[p], t, Len(Config(t)) + 1)'
        BY <3>1, <3>6
      <4> QED BY <4>1
    <3> QED BY <2>3, <2>4, <3>1, <3>7 DEF LaidInv
  <2> QED BY <2>6, <2>7
<1> QED BY <1>8, <1>9

LEMMA EnumeratedLaid ==
  ASSUME AddressInv, WalkInv, CountInv, TreeInv, LaidInv, Smooth, Enumerated
  PROVE  LaidInv'
<1>1. Running("return") /\ UNCHANGED wiring
  BY DEF Enumerated
<1>2. Top.pc = "return" /\ Len(stack) = 1 /\ Calls(stack) /\ stack # << >>
  BY <1>1, EnumeratedFound, WalkIs
<1>3. CASE stack' = << >> /\ UNCHANGED <<at, slots>>
  <2>1. DOMAIN stack' = {} /\ phase' # "enumerate"
    BY <1>1, <1>2, <1>3 DEF Enumerated
  <2>2. \A i \in DOMAIN stack : stack[i].pc = "return"
    <3>1. DOMAIN stack = 1 .. 1 /\ Top = stack[1]
      BY <1>2, StackIs
    <3> QED BY <1>2, <3>1
  <2>3. \A t : ~Coming(t) /\ ~Coming(t)'
    BY <2>1, <2>2 DEF Coming, Visits, Addressed
  <2>4. Awake' = Awake
    BY <1>1, <1>3 DEF Awake, Devices
  <2>5. ~AtWork /\ ~AtWork'
    BY <1>2, <2>1 DEF AtWork
  <2> QED BY <1>1, <1>3, <2>1, <2>3, <2>4, <2>5, LaidKept
<1>4. CASE stack' = <<Call>> /\ slots' = << >> /\ Awake' = {}
  <2>1. PICK c : c = Call
    OBVIOUS
  <2>2. c.pc = "descriptor" /\ c.pc \notin AtHub
    BY <2>1 DEF Call, AtHub
  <2>3. DOMAIN stack' = {1} /\ stack'[1] = c /\ Top' = c
    BY <1>4, <2>1 DEF Top
  <2>4. Passed' = {} /\ DOMAIN slots' = {}
    BY <1>4 DEF Passed
  <2>5. ~AtWork' /\ \A i \in DOMAIN stack' : stack'[i].pc \notin AtHub
    BY <2>2, <2>3 DEF AtWork
  <2> QED BY <2>4, <2>5 DEF LaidInv
<1> QED BY <1>3, <1>4, EnumeratedFound

\* What the drivers do, and a step that does nothing.
LEMMA FoundKept ==
  ASSUME CountInv, TreeInv, LaidInv, UNCHANGED <<wiring, at, stack, slots, result, nextAddress>>,
         phase' = phase \/ (phase # "enumerate" /\ phase' # "enumerate")
  PROVE  CountInv' /\ TreeInv' /\ LaidInv'
<1>1. CountInv'
  BY DEF CountInv
<1>2. Awake' = Awake /\ Devices' = Devices /\ Top' = Top
  BY DEF Awake, Devices, Top
<1>3. (\A d, n : PortsLit(d, n)' <=> PortsLit(d, n)) /\ \A d : OpenAt(d)' <=> OpenAt(d)
  BY DEF PortsLit, OpenAt
<1>4. \A f : Lit(f)' <=> Lit(f)
  <2>1. \A f : Ahead(f)' = Ahead(f)
    BY DEF Ahead
  <2> QED BY <1>3, <2>1 DEF Lit
<1>5. TopFinds' <=> TopFinds
  BY <1>2 DEF TopFinds, Answering, Child
<1>6. (phase' = "enumerate") <=> (phase = "enumerate")
  OBVIOUS
<1>7. TreeInv'
  BY <1>2, <1>3, <1>4, <1>5, <1>6 DEF TreeInv
<1>8. (\A t : Coming(t)' <=> Coming(t)) /\ Served' = Served /\ \A t : Config(t)' = Config(t)
  BY ServedSame DEF Coming, Visits
<1>9. Passed' = Passed
  BY <1>2, <1>8 DEF Passed
<1>10. (AtWork' <=> AtWork) /\ Work' = Work
  BY <1>2, <1>6 DEF AtWork, Work
<1>11. \A s, t, n : Written(s, t, n)' <=> Written(s, t, n)
  BY WrittenSame
<1>12. (AtWork => IF Top.type \in SlotTypes
                  THEN Top.slot \in DOMAIN slots /\ Written(slots[Top.slot], Work, Top.ptr)
                  ELSE Top.slot = End)'
  <2>1. PICK s, w, n : s = slots[Top.slot] /\ w = Work /\ n = Top.ptr
    OBVIOUS
  <2>2. Written(slots[Top.slot], Work, Top.ptr)' <=> Written(s, w, n)
    BY <1>2, <1>10, <1>11, <2>1
  <2> QED BY <1>2, <1>10, <2>1, <2>2 DEF LaidInv, SlotTypes, StructSize
<1>13. (\A t \in Passed : \/ AtWork /\ t = Work
                          \/ \E p \in DOMAIN slots : /\ AtWork => p # Top.slot
                                                     /\ Written(slots[p], t, Len(Config(t)) + 1))'
  <2>1. ASSUME NEW t \in Passed, ~(AtWork /\ t = Work)
        PROVE  \E p \in DOMAIN slots' : /\ AtWork' => p # Top'.slot
                                        /\ Written(slots[p], t, Len(Config(t)) + 1)'
    <3>1. PICK p \in DOMAIN slots : /\ AtWork => p # Top.slot
                                    /\ Written(slots[p], t, Len(Config(t)) + 1)
      BY <2>1 DEF LaidInv
    <3>2. Written(slots[p], t, Len(Config(t)) + 1)'
      BY <3>1, WrittenKept
    <3> QED BY <1>2, <1>10, <3>1, <3>2
  <2> QED BY <1>9, <1>10, <2>1
<1>14. LaidInv'
  BY <1>9, <1>12, <1>13 DEF LaidInv
<1> QED BY <1>1, <1>7, <1>14

\* The invariant of a walk on which nothing fails, next to AddressInv and WalkInv.
FoundInv == Smooth => CountInv /\ TreeInv /\ LaidInv

LEMMA FoundAtInit == EnumInit => FoundInv
<1> SUFFICES ASSUME EnumInit PROVE CountInv /\ TreeInv /\ LaidInv
  BY DEF FoundInv
<1>1. stack = <<Call>> /\ slots = << >> /\ at = AfterBusReset(wiring) /\ CountInv /\ TreeInv
  BY FoundInit DEF EnumInit
<1>2. PICK c : c = Call
  OBVIOUS
<1>3. c.pc = "descriptor" /\ c.pc \notin AtHub
  BY <1>2 DEF Call, AtHub
<1>4. DOMAIN stack = {1} /\ stack[1] = c /\ Top = c
  BY <1>1, <1>2 DEF Top
<1>5. Passed = {} /\ DOMAIN slots = {}
  BY <1>1 DEF Passed, Awake, AfterBusReset, Devices
<1>6. ~AtWork /\ \A i \in DOMAIN stack : stack[i].pc \notin AtHub
  BY <1>3, <1>4 DEF AtWork
<1> QED BY <1>1, <1>5, <1>6 DEF LaidInv

\* The steps of a call at its device.
LEMMA ReadStepsLaid ==
  ASSUME AddressInv, WalkInv, CountInv, TreeInv, LaidInv, Smooth, Smooth', UNCHANGED wiring,
         \/ GetDescriptor \/ SetAddress \/ GetCfgDesc \/ AllConfigsRead \/ IdClassDrv
         \/ CapDrvIntf \/ ParseEndpoint
  PROVE  CountInv' /\ TreeInv' /\ LaidInv'
<1>1. CASE GetDescriptor \/ SetAddress \/ AllConfigsRead \/ ParseEndpoint
  BY <1>1, GetDescriptorFound, GetDescriptorLaid, SetAddressFound, SetAddressLaid, AllConfigsReadFound,
     AllConfigsReadLaid, ParseEndpointFound, ParseEndpointLaid
<1>2. CASE GetCfgDesc
  <2>1. Running("config") /\ "config" \in Addressed
    BY <1>2 DEF GetCfgDesc, Addressed
  <2>2. PICK g : Onward(g) /\ g.pc = "interface" /\ SameAhead(Top, g)
    BY <1>2, GetCfgDescFound
  <2>3. CountInv' /\ TreeInv' /\ UNCHANGED <<at, slots>>
    BY <1>2, GetCfgDescFound
  <2> QED BY <2>1, <2>2, <2>3, OnwardLaid
<1>3. CASE IdClassDrv
  <2>1. Running("interface") /\ "interface" \in Addressed
    BY <1>3 DEF IdClassDrv, Addressed
  <2>2. PICK g : Onward(g) /\ g.pc = "configure" /\ SameAhead(Top, g)
    BY <1>3, IdClassDrvFound
  <2>3. CountInv' /\ TreeInv' /\ UNCHANGED <<at, slots>>
    BY <1>3, IdClassDrvFound
  <2> QED BY <2>1, <2>2, <2>3, OnwardLaid
<1>4. CASE CapDrvIntf
  <2>1. Running("configure") /\ UNCHANGED phase
    BY <1>4 DEF CapDrvIntf, bootvars
  <2>2. Top.type \in SlotTypes => FindFirstFree # End
    BY <2>1, RoomForSlot
  <2>3. CountInv' /\ TreeInv' /\ UNCHANGED at
    BY <1>4, <2>2, CapDrvIntfFound
  <2>4. PICK g : Configured(g)
    BY <1>4, <2>2, CapDrvIntfFound
  <2>5. IF Top.type \in SlotTypes
        THEN slots' = SlotLaid(FindFirstFree, NewSlot(Top)) ELSE slots' = slots
    BY <1>4, <2>2, CapDrvIntfFound
  <2>6. LaidInv'
    <3>1. CASE Top.type \in SlotTypes
      BY <2>1, <2>3, <2>4, <2>5, <3>1, SlotIsLaid
    <3>2. CASE Top.type \notin SlotTypes
      BY <2>1, <2>3, <2>4, <2>5, <3>2, NoSlotLaid
    <3> QED BY <3>1, <3>2
  <2> QED BY <2>3, <2>6
<1> QED BY <1>1, <1>2, <1>3, <1>4

\* The steps at the ports of a hub.
LEMMA HubStepsLaid ==
  ASSUME AddressInv, WalkInv, CountInv, TreeInv, LaidInv, Smooth, Smooth', UNCHANGED wiring,
         \/ HubGetDescriptor \/ PortPower \/ PortReset \/ PortStatus \/ PortEmpty
         \/ PortConnected \/ ReturnToHub
  PROVE  CountInv' /\ TreeInv' /\ LaidInv'
<1>1. CASE PortConnected \/ ReturnToHub
  BY <1>1, PortConnectedFound, PortConnectedLaid, ReturnToHubFound, ReturnToHubLaid
<1>2. CASE HubGetDescriptor \/ PortPower \/ PortReset \/ PortStatus \/ PortEmpty
  <2>1. PICK pc \in AtHub : Running(pc)
    BY <1>2 DEF HubGetDescriptor, PortPower, PortReset, PortStatus, PortEmpty, AtHub
  <2>2. /\ CountInv' /\ TreeInv' /\ UNCHANGED slots
        /\ \E g : Moved(g) /\ g.pc \in AtHub \cup {"endpoint"}
    BY <1>2, HubGetDescriptorFound, PortPowerFound, PortResetFound, PortStatusFound, PortEmptyFound
  <2>3. Awake' = Awake /\ \A d \in Awake : at'[d] = at[d]
    <3>1. UNCHANGED at => Awake' = Awake /\ \A d \in Awake : at'[d] = at[d]
      BY DEF Awake, Devices
    <3> QED BY <1>2, <3>1, HubGetDescriptorFound, PortPowerFound, PortResetFound, PortStatusFound,
               PortEmptyFound
  <2> QED BY <2>1, <2>2, <2>3, MovedLaid
<1> QED BY <1>1, <1>2

LEMMA FoundStepRight ==
  AddressInv /\ WalkInv /\ FoundInv /\ [EnumNext]_enumvars => FoundInv'
<1> SUFFICES ASSUME AddressInv, WalkInv, FoundInv, [EnumNext]_enumvars, Smooth'
             PROVE  CountInv' /\ TreeInv' /\ LaidInv'
  BY DEF FoundInv
<1>1. Smooth /\ UNCHANGED wiring /\ CountInv /\ TreeInv /\ LaidInv
  BY StepsSmooth DEF FoundInv
<1>2. CASE \/ GetDescriptor \/ SetAddress \/ GetCfgDesc \/ AllConfigsRead \/ IdClassDrv
           \/ CapDrvIntf \/ ParseEndpoint
  BY <1>1, <1>2, ReadStepsLaid
<1>3. CASE \/ HubGetDescriptor \/ PortPower \/ PortReset \/ PortStatus \/ PortEmpty
           \/ PortConnected \/ ReturnToHub
  BY <1>1, <1>3, HubStepsLaid
<1>4. CASE Enumerated
  BY <1>1, <1>4, EnumeratedFound, EnumeratedLaid
<1>5. CASE ChscsiInit \/ ChufiInit \/ KeyboardInit \/ UNCHANGED enumvars
  <2>1. /\ UNCHANGED <<wiring, at, stack, slots, result, nextAddress>>
        /\ phase' = phase \/ (phase # "enumerate" /\ phase' # "enumerate")
    BY <1>5 DEF ChscsiInit, ChufiInit, KeyboardInit, NextIndex, enumvars
  <2> QED BY <1>1, <2>1, FoundKept
<1> QED BY <1>2, <1>3, <1>4, <1>5 DEF EnumNext

LEMMA NumberFits == ASSUME NEW n \in 0 .. 255, n < 8 PROVE n % 8 = n
OBVIOUS

\* The endpoints of an interface that is as USB has it get their places.
LEMMA WrittenRight ==
  ASSUME wiring \in Wirings, Orderly, NEW t \in Served, NEW s, Written(s, t, Len(Config(t)) + 1)
  PROVE  RightSlot(s, t[1], Config(t), t[3])
<1>1. PICK c, i, type : c = Config(t) /\ i = t[3] /\ type = s.type
  OBVIOUS
<1>2. /\ t[1] \in Devices /\ t[2] \in DOMAIN wiring.configs[t[1]] /\ i \in Interfaces(c)
      /\ type = IdentifyClassDriver(c[i]) /\ type \in SlotTypes
      /\ s.address = at[t[1]] /\ s.number = c[i].number
  BY <1>1, ServedAre DEF Written
<1>3. /\ DOMAIN c = 1 .. Len(c) /\ Len(c) \in Nat /\ LegalConfig(c)
  BY <1>1, <1>2, ConfigsAre DEF Config
<1>4. WellFormedInterface(c, i)
  BY <1>1, <1>2, ConfigOrderly DEF Config, WellFormed
<1>5. \A k \in EndpointsAt(c, i) : k \in DOMAIN c /\ c[k].number % 8 = c[k].number /\ k \in Nat /\ k < Len(c) + 1
  <2> SUFFICES ASSUME NEW k \in EndpointsAt(c, i)
               PROVE  k \in DOMAIN c /\ c[k].number % 8 = c[k].number /\ k \in Nat /\ k < Len(c) + 1
    OBVIOUS
  <2>1. k \in DOMAIN c /\ c[k].type = "endpoint"
    BY DEF EndpointsAt
  <2>2. c[k].number \in 0 .. 255
    BY <1>3, <2>1 DEF LegalConfig
  <2>3. c[k].number < 8
    BY <1>4 DEF WellFormedInterface
  <2>4. c[k].number % 8 = c[k].number
    BY <2>2, <2>3, NumberFits
  <2> QED BY <1>3, <2>1, <2>4
<1>6. ASSUME NEW k \in EndpointsAt(c, i), NEW q \in EndpointPlaces(type, c[k]),
             \A l \in EndpointsAt(c, i) : k < l => q \notin EndpointPlaces(type, c[l])
      PROVE  s.endpoints[q] = c[k].number
  <2>1. Placed(s, c, i, Len(c) + 1) /\ k < Len(c) + 1 /\ c[k].number % 8 = c[k].number
    BY <1>1, <1>5 DEF Written
  <2> QED BY <1>1, <1>6, <2>1 DEF Placed
<1>7. type \in {"floppy", "storage", "cdc", "keyboard"}
  BY <1>2 DEF SlotTypes, StructSize
<1>8. CASE type = "keyboard"
  <2>1. PICK k \in EndpointsAt(c, i) : c[k].in /\ \A l \in EndpointsAt(c, i) : l <= k
    BY <1>2, <1>4, <1>8 DEF WellFormedInterface
  <2>2. \A l \in EndpointsAt(c, i) : ~(k < l)
    BY <1>5, <2>1
  <2>3. s.endpoints["bulkOut"] = c[k].number
    <3>1. "bulkOut" \in EndpointPlaces(type, c[k])
      BY <1>8 DEF EndpointPlaces
    <3> QED BY <1>6, <2>2, <3>1
  <2> QED BY <1>1, <1>2, <1>8, <2>1, <2>3 DEF RightSlot
<1>9. CASE type = "cdc"
  BY <1>1, <1>2, <1>9 DEF RightSlot
<1>10. CASE type \in {"floppy", "storage"}
  <2> DEFINE Place(e) == IF e.kind = "interrupt" THEN "interruptIn"
                         ELSE IF e.in THEN "bulkIn" ELSE "bulkOut"
  <2>1. ASSUME NEW k \in EndpointsAt(c, i) PROVE s.endpoints[Place(c[k])] = c[k].number
    <3>1. \A l \in EndpointsAt(c, i) : c[l].kind = "bulk" \/ (c[l].kind = "interrupt" /\ c[l].in)
      BY <1>2, <1>4, <1>10 DEF WellFormedInterface
    <3>2. \A l \in EndpointsAt(c, i) : c[k].kind = c[l].kind /\ (c[k].in <=> c[l].in) => k = l
      BY <1>2, <1>4, <1>10 DEF WellFormedInterface
    <3>3. \A l \in EndpointsAt(c, i) : EndpointPlaces(type, c[l]) = {Place(c[l])}
      BY <1>10, <3>1 DEF EndpointPlaces
    <3>4. ASSUME NEW l \in EndpointsAt(c, i), k < l PROVE Place(c[k]) # Place(c[l])
      BY <1>5, <3>1, <3>2, <3>4
    <3>5. \A l \in EndpointsAt(c, i) : k < l => Place(c[k]) \notin EndpointPlaces(type, c[l])
      BY <3>3, <3>4
    <3>6. Place(c[k]) \in EndpointPlaces(type, c[k])
      BY <3>3
    <3> HIDE DEF Place
    <3> QED BY <1>6, <3>5, <3>6
  <2>2. type # "keyboard" /\ type # "cdc"
    BY <1>10
  <2> QED BY <1>1, <1>2, <2>1, <2>2 DEF RightSlot
<1> QED BY <1>7, <1>8, <1>9, <1>10

LEMMA FoundIsEverything ==
  ASSUME AddressInv, WalkInv, FoundInv, Ordinary(wiring)
  PROVE  EverythingFound
<1> SUFFICES ASSUME phase # "enumerate", faults = Faults, Fits
             PROVE  /\ Cardinality(DOMAIN slots) = Cardinality(Served)
                    /\ \A t \in Served : \E p \in DOMAIN slots :
                         RightSlot(slots[p], t[1], wiring.configs[t[1]][t[2]], t[3])
  BY DEF EverythingFound
<1>1. Smooth /\ Orderly /\ TreeInv /\ LaidInv /\ wiring \in Wirings
  BY DEF Smooth, Orderly, FoundInv, WalkInv, EnumTyped
<1>2. stack = << >> /\ DOMAIN stack = {}
  BY DEF WalkInv, EnumTyped
<1>3. Passed = Served /\ ~AtWork
  <2>1. \A t : ~Coming(t)
    BY <1>2 DEF Coming
  <2>2. Awake = Devices
    BY <1>1 DEF TreeInv
  <2> QED BY <2>1, <2>2, ServedAre DEF Passed, AtWork
<1>4. ASSUME NEW t \in Served
      PROVE  \E p \in DOMAIN slots : RightSlot(slots[p], t[1], wiring.configs[t[1]][t[2]], t[3])
  <2>1. PICK p \in DOMAIN slots : Written(slots[p], t, Len(Config(t)) + 1)
    BY <1>1, <1>3 DEF LaidInv
  <2> QED BY <1>1, <2>1, WrittenRight DEF Config
<1> QED BY <1>1, <1>3, <1>4 DEF LaidInv

\* For any tree of hubs and devices as USB has it, of whatever size, with any
\* number of interfaces and configurations: if nothing has failed and everything
\* fits, the walk of read_all_configs comes to every device behind every hub,
\* and has laid out for each interface that has a driver one slot with the address
\* of its device and the endpoints of its descriptors, and no other.
THEOREM EverythingIsFound == EnumSpec => [](Ordinary(wiring) => EverythingFound)
<1>1. AddressInv /\ WalkInv /\ FoundInv => (Ordinary(wiring) => EverythingFound)
  BY FoundIsEverything
<1>2. AddressInv /\ WalkInv /\ FoundInv /\ [EnumNext]_enumvars => FoundInv'
  BY FoundStepRight
<1> QED BY <1>1, <1>2, FoundAtInit, WalkAlways, PTL DEF EnumSpec
=============================================================================
