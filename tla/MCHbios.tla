------------------------------ MODULE MCHbios ------------------------------
(***************************************************************************)
(* The heap and the switches of one HBIOS: a cold start, by SYSRESET or by *)
(* the power, loads HBIOS anew and so concerns both.                       *)
(***************************************************************************)
EXTENDS Heap, Switches

\* Two bits: 0, 1, 'W' and one other value.
TwoBits == {0, 1}
Signature == {0, 1}
Present == {0}
AsBuilt == [i \in All |-> IF i = 1 THEN {1} ELSE {}]
Factory == [i \in Data |-> IF i = 0 THEN {0, 1} ELSE IF i = 1 THEN {1} ELSE {}]
VersionSum == {1}

MCInit == HeapInit /\ Init
MCNext == \/ ColdStart /\ Boot
          \/ /\ SetCurb \/ Release \/ \E n \in Addr : Alloc(n)
             /\ UNCHANGED vars
          \/ /\ booted
             /\ \/ \E d \in Data, lo \in Byte, hi \in Byte : SetSwitch(d, lo, hi)
                \/ Reset \/ WriteByte \/ WriteFails
             /\ UNCHANGED heapvars
MCSpec == MCInit /\ [][MCNext]_<<heapvars, vars>>

\* Bound: a heap in use is looked at with one content of the NVRAM only.
OneAtATime == blocks # {} => nv = [i \in All |-> {}] /\ at = Idle
=============================================================================
