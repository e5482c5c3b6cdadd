------------------------------ MODULE UsbHost -------------------------------
(***************************************************************************)
(* The keyboard and the disks on one CH376: the program calls either       *)
(* driver, and the timer interrupt (CHUKB_TICK, usb_kyb_tick) polls the    *)
(* keyboard through the same chip, unless the program is in the critical   *)
(* section.                                                                *)
(***************************************************************************)
EXTENDS UsbKeyboard, UsbDisk

vars == <<kbdvars, diskvars>>

Init == KbdInit /\ DiskInit

\* Bug: the tick does not ask.
InCriticalSectionNever == FALSE
\* is_in_critical_section()
InCriticalSection == crit # 0

\* Bug: a poll that fails leaves the retries off.
PollNoRestore == /\ addr' = "kbd"
                 /\ retry' \in {"3s", "off"}
                 /\ UNCHANGED <<crit, open>>
\* The transfer of the tick, with retries off: whatever comes of it, they are
\* on again, and the chip is left with the keyboard's address.
Poll == /\ addr' = "kbd"
        /\ retry' = "3s"
        /\ UNCHANGED <<crit, open>>

\* usb_kyb_tick as far as the report, if one comes that is news.
TickPoll ==
  /\ ~InCriticalSection /\ indx = 0
  /\ Poll
  /\ (\E r \in Report : TickReport(r)) \/ UNCHANGED kbdvars
  /\ UNCHANGED <<hbios, ufi, next_tag, pc, res, device>>

\* The rest of the tick, during which the program stands still.
TickPut == KeyboardBufPut /\ UNCHANGED diskvars

ProgramKeyboard == pc = "idle" /\ KbdCall /\ UNCHANGED diskvars

ProgramDisk == /\ indx = 0 /\ ~reading
               /\ DiskNext
               /\ UNCHANGED kbdvars

Next == TickPoll \/ TickPut \/ ProgramKeyboard \/ ProgramDisk

Spec == Init /\ [][Next]_vars

\* A tick ends, and ticks leave the program time to go on.
Fairness == /\ WF_vars(TickPut)
            /\ SF_vars(indx = 0 /\ ~reading /\ Work /\ UNCHANGED kbdvars)
FairSpec == Spec /\ Fairness

---------------------------------------------------------------------------
\* Types: the variables of the keyboard driver and those of the disk drivers keep
\* their types, however ticks and calls alternate.
HostTypeOK == KbdTypeOK /\ DiskTypeOK

\* Every call of a disk returns: the loops of wait_for_device_ready and of
\* HB_DSKIO end whatever the devices do and however many ticks come between.
CallsReturn == pc # "idle" ~> pc = "idle"
=============================================================================
