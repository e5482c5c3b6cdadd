-------------------------------- MODULE Heap --------------------------------
(***************************************************************************)
(* The heap of the HBIOS bank (src/Source/HBIOS/hbios.asm): it grows from  *)
(* the end of the HBIOS code to the end of the bank, is extended by        *)
(* SYSALLOC, and is cut back by SYSRESET to the curb, the top it had when  *)
(* HBIOS had initialised itself.  No driver of this HBIOS takes memory     *)
(* from it; programs do.  Addresses are words: sums wrap around.           *)
(***************************************************************************)
EXTENDS Naturals

CONSTANTS Word,     \* 2^16
          HbEnd     \* HB_END

Bank == Word \div 2                     \* 32 KB: bit 7 of H is set from here on
Header == 4

ASSUME HeapAssumption == Word \in Nat /\ HbEnd \in Nat /\ HbEnd < Bank

VARIABLES top,      \* CB_HEAPTOP
          curb,     \* HEAPCURB
          booted,   \* HBIOS is initialised, programs run
          blocks    \* what was handed out and not released

heapvars == <<top, curb, booted, blocks>>

Addr == 0..Word - 1
Block == [at : Addr, size : Addr]

HeapTypeOK == /\ top \in HbEnd..Bank - 1 /\ curb \in 0..Bank - 1
          /\ booted \in BOOLEAN
          /\ blocks \subseteq Block

HeapInit == top = HbEnd /\ curb = 0 /\ booted = FALSE /\ blocks = {}

\* Bugs: the carry of the first, of the second addition is not looked at.
RefusedNoCarry1(n) ==
  LET sum == (n + Header) % Word
  IN top + sum >= Word \/ (top + sum) % Word >= Bank
RefusedNoCarry2(n) ==
  LET sum == (n + Header) % Word
  IN n + Header >= Word \/ (top + sum) % Word >= Bank
\* Two 16-bit additions, each of which may carry, and the test of bit 15.
Refused(n) ==
  LET sum == (n + Header) % Word
  IN \/ n + Header >= Word
     \/ top + sum >= Word
     \/ (top + sum) % Word >= Bank

\* Bug: the block starts where its header does.
AllocAtHeader(n) ==
  /\ booted /\ ~Refused(n)
  /\ top' = (top + n + Header) % Word
  /\ blocks' = blocks \cup {[at |-> top, size |-> n]}
  /\ UNCHANGED <<curb, booted>>
\* HB_ALLOC: a header with the size, then the block.  A refusal changes nothing.
Alloc(n) ==
  /\ booted /\ ~Refused(n)
  /\ top' = (top + n + Header) % Word
  /\ blocks' = blocks \cup {[at |-> top + Header, size |-> n]}
  /\ UNCHANGED <<curb, booted>>

\* The end of the initialisation of HBIOS, then the boot loader.
SetCurb == /\ ~booted
           /\ curb' = top /\ booted' = TRUE
           /\ UNCHANGED <<top, blocks>>

\* SYS_RESINT and SYS_RESWARM: what programs had is released.
Release == /\ booted
         /\ top' = curb
         /\ blocks' = {}
         /\ UNCHANGED <<curb, booted>>

\* SYS_RESCOLD: HBIOS is loaded and initialised anew.
ColdStart == top' = HbEnd /\ curb' = 0 /\ booted' = FALSE /\ blocks' = {}

HeapNext == (\E n \in Addr : Alloc(n)) \/ SetCurb \/ Release \/ ColdStart

HeapSpec == HeapInit /\ [][HeapNext]_heapvars

---------------------------------------------------------------------------
Apart(b, c) == b.at + b.size <= c.at - Header \/ c.at + c.size <= b.at - Header

\* Blocks lie between HBIOS and the end of the bank, and neither they nor
\* the headers in front of them overlap, for any sizes asked for, among them
\* those that make the sums wrap, and whatever resets come between.
BlocksApart ==
  \A b \in blocks : /\ HbEnd + Header <= b.at /\ b.at + b.size < Bank
                    /\ \A c \in blocks : b = c \/ Apart(b, c)

\* A request is refused exactly when the block and its header do not fit
\* below the last byte of the bank: the arithmetic of words finds out the same
\* as that of numbers.
RefusalExact == \A n \in Addr : Refused(n) <=> top + Header + n >= Bank
============================================================================
