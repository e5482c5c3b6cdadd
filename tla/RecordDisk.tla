---------------------------- MODULE RecordDisk ----------------------------
(***************************************************************************)
(* What a CP/M BIOS promises the BDOS about its disks, with no buffer, no   *)
(* sectors and no tracking: a store of records.  A record is Undef when    *)
(* nothing is promised about it, because it belongs to space nothing was   *)
(* written to since it was allocated or because a call that touched it     *)
(* reported an error.                                                      *)
(***************************************************************************)
EXTENDS Naturals

CONSTANTS Rec,      \* the records of all the drives
          Val,      \* what a record can hold
          Undef     \* not in Val: "nothing is promised"

VARIABLES store,    \* [Rec -> Val \cup {Undef}]
          dma,      \* the caller's buffer
          ok        \* the last call reported no error

vars == <<store, dma, ok>>

Init == /\ store \in [Rec -> {Undef} \cup Val]
        /\ dma \in Val
        /\ ok = TRUE

\* A read that succeeds delivers the record, if there is a promise about it.
Read(r) == /\ ok' = TRUE
           /\ dma' \in IF store[r] = Undef THEN Val ELSE {store[r]}
           /\ UNCHANGED store

\* A write that succeeds replaces one record and no other.
Write(r) == /\ ok' = TRUE
            /\ dma' \in Val
            /\ store' = [store EXCEPT ![r] = dma']

\* The store keeps every promise or drops it: it never changes a record.
Voided == /\ store' \in [Rec -> Val \cup {Undef}]
          /\ \A r \in Rec : store'[r] \in {store[r], Undef}

\* Only a call that reports an error may drop promises.
Fail == /\ ok' = FALSE
        /\ dma' \in Val
        /\ Voided

\* The caller gives space back.
Release == /\ Voided
           /\ UNCHANGED <<dma, ok>>

\* A call that moves no data.
Control == /\ ok' = TRUE
           /\ UNCHANGED <<store, dma>>

Next == \/ \E r \in Rec : Read(r) \/ Write(r)
        \/ Fail
        \/ Release
        \/ Control

Spec == Init /\ [][Next]_vars
============================================================================
