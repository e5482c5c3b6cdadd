---------------------------- MODULE MCHbxProxy ----------------------------
EXTENDS HbxProxy
CONSTANTS sys, usr, app, rom
RomBanks == {rom}
\* The number of the ROM bank is, to MPCL_RAM, that of an application bank.
RomShadow == [r \in RomBanks |-> app]

\* What later steps can depend on: a cell counts from the step that fills it
\* to the last one that reads it.
Invoked == pc \in InBios \cup InPeek \cup {"inv_sel", "inv_back", "inv_ret"}
           \/ (pc \in InCopy /\ back # "user")
View == <<pc, sub, hardware, sp, iff, src, dst, frames, isr,
          IF isr THEN intsp ELSE {},
          IF Invoked THEN <<inv, invsp>> ELSE <<>>,
          IF pc \in InCopy THEN <<copying, bounce>> ELSE <<>>,
          IF pc \in InPeek THEN peeking ELSE <<>>,
          IF pc \in InPeek \cup InCopy THEN pint ELSE FALSE,
          IF pc \in {"pp_sel", "pp_acc", "bnksel", "call_sel", "call_back"}
            THEN <<arg>> ELSE <<>>,
          IF pc \in {"inv_back", "inv_ret"} THEN bounce.hi ELSE Junk,
          IF pc = "user" THEN <<>> ELSE <<home>> >>
============================================================================
