----------------------------- MODULE HbxProxy -----------------------------
(***************************************************************************)
(* The HBIOS proxy in common memory (src/Source/HBIOS/hbios.asm): how the  *)
(* one CPU crosses between 32 KB banks while interrupts may strike after   *)
(* any instruction.  Modelled for the SBC memory manager, which takes two  *)
(* OUT instructions to change bank, in interrupt modes 1 and 2.            *)
(*                                                                         *)
(* Instructions between which an interrupt makes no difference are one     *)
(* step.  HBX_BNKSEL is called from many places; sub counts its three      *)
(* instructions within the step pc.                                        *)
(***************************************************************************)
EXTENDS Naturals, Sequences

CONSTANTS Bank,       \* banks of the lower 32 KB
          Rom,        \* those in ROM (bit 7 of the bank id clear)
          BIOS,       \* BID_BIOS
          Shadow,     \* RAM bank a ROM bank's number means to MPCL_RAM
          Prepared,   \* banks whose page zero has the IM1 vector
          IM,         \* INTMODE: 1 or 2
          H8P,        \* H8PENABLE: the interrupt handler itself uses HBX_PEEK
          Chunks,     \* most 64-byte pieces of an interbank copy
          Depth,      \* bound: nested HBX_BNKCALLs
          Common, Junk, ResultAF

ASSUME ProxyAssumption ==
  /\ Rom \subseteq Bank /\ BIOS \in Bank \ Rom
  /\ Shadow \in [Rom -> Bank \ Rom]
  /\ Prepared \subseteq Bank /\ BIOS \in Prepared
  /\ IM \in {1, 2} /\ H8P \in BOOLEAN
  /\ H8P => IM = 1              \* cfg_HEATH.asm:72
  /\ Chunks \in Nat /\ Depth \in Nat
  /\ Common \notin Bank
  /\ Junk # ResultAF /\ {Junk, ResultAF} \cap (Bank \X Nat) = {}

VARIABLES
  pc, sub,        \* where the program is
  cur,            \* HB_CURBNK
  ramsel, romsel, \* the page selectors of the hardware
  sp,             \* the stack in use: [area, bnk]
  iff,            \* interrupts are enabled
  inv, invsp,     \* HB_INVBNK, HBX_INVSP
  src, dst,       \* HB_SRCBNK, HB_DSTBNK
  bounce,         \* HBX_BUF, its upper and its lower half
  left, back,     \* BC of HBX_BNKCPY, and where it returns
  bcsp, bcbnk,    \* HBX_BC_SP, the bank HBX_BNKCPY pushed
  arg,            \* bank register D of PEEK, POKE; A of BNKSEL, BNKCALL
  ppsp, ppbnk,    \* HBX_PPSP, the bank HBX_PEEK pushed
  pint,           \* what HB_PUSHINT saved
  frames,         \* the banks HBX_BNKCALL pushed on the user's stack
  isr, intsp,     \* in the interrupt handler; HBX_INT_SP
  home            \* what the user had when it called, and wants back

hardware == <<cur, ramsel, romsel>>
copying == <<left, back, bcsp, bcbnk>>
peeking == <<ppsp, ppbnk>>
vars == <<pc, sub, hardware, sp, iff, inv, invsp, src, dst, bounce, copying,
          arg, peeking, pint, frames, isr, intsp, home>>

At(a, b) == [area |-> a, bnk |-> b]
Stacks == {At(a, Common) : a \in {"high", "buf", "result", "mid", "tmp", "int"}}
          \cup {At("low", b) : b \in Bank} \cup {At("hbios", BIOS)}
High == At("high", Common)       \* the user's, in common memory
BufStk == At("buf", Common)      \* HBX_BUF_END
ResultStk == At("result", Common) \* the same with the result AF pushed
\* Bug: the stack of PEEK and POKE where that of HBX_INVOKE is.
MidStkShared == At("buf", Common)
MidStk == At("mid", Common)      \* HBX_BUF_END - $20
\* Bug: HBX_BNKCPY too borrows HBX_BUF for its stack.
TmpStkInBuf == At("buf", Common)
TmpStk == At("tmp", Common)      \* HBX_TMPSTK
IntStk == At("int", Common)      \* HBX_INTSTK
BiosStk == At("hbios", BIOS)     \* HB_STACK

InBios == {"inv_stk", "fn", "disk", "inv_out"}
InPeek == {"pp_sel", "pp_acc", "pp_back", "pp_ret"}
InCopy == {"bc_src", "bc_read", "bc_dst", "bc_write", "bc_back", "bc_ret"}
PCs == {"user", "inv_sel", "inv_back", "inv_ret", "call_sel", "call_back",
        "bnksel"} \cup InBios \cup InPeek \cup InCopy
Bounced == (Bank \X (1..Chunks)) \cup {Junk, ResultAF}
Homes == [bnk : Bank, sp : Stacks, iff : BOOLEAN]

TypeOK ==
  /\ pc \in PCs /\ sub \in 0..2
  /\ cur \in Bank /\ ramsel \in Bank \ Rom /\ romsel \in Bank
  /\ sp \in Stacks /\ iff \in BOOLEAN
  /\ inv \in Bank /\ invsp \in Stacks
  /\ src \in Bank /\ dst \in Bank
  /\ bounce \in [hi : Bounced, lo : Bounced]
  /\ left \in 0..Chunks /\ back \in {"disk", "inv_out", "user"}
  /\ bcsp \in Stacks /\ bcbnk \in Bank
  /\ arg \in Bank /\ ppsp \in Stacks /\ ppbnk \in Bank
  /\ pint \in BOOLEAN
  /\ frames \in Seq(Bank)
  /\ isr \in BOOLEAN /\ intsp \in Stacks
  /\ home \in Homes

---------------------------------------------------------------------------
\* The bank the CPU sees: the ROM selector decides, and gives way to the RAM
\* selector when it holds the number of a RAM bank.
Mapped == IF romsel \in Rom THEN romsel ELSE ramsel

\* Bugs: MPCL_RAM written for a ROM bank too; the test of bit 7 inverted.
RamSelAlways(a) == IF a \in Rom THEN Shadow[a] ELSE a
RamSelInverted(a) == IF IM = 1 /\ a \notin Rom THEN ramsel ELSE RamSelAlways(a)
\* MPCL_RAM after HBX_BNKSEL_INT wrote a: mode 1 skips it for a ROM bank.
RamSel(a) == IF a \in Rom THEN IF IM = 1 THEN ramsel ELSE Shadow[a] ELSE a

\* What a push on stack s leaves in HBX_BUF.
Pushed(s) == CASE s = BufStk -> [bounce EXCEPT !.hi = Junk]
               [] s = MidStk -> [bounce EXCEPT !.lo = Junk]
               [] OTHER      -> bounce

\* Interrupts must not be enabled where page zero does not expect them.
Handled(b) == IM = 1 => b \in Prepared

Run(p) == ~isr /\ pc = p

\* Bug: HB_CURBNK is set after the selectors.
BnkSelLate(p, a, q) ==
  /\ Run(p)
  /\ \/ sub = 0 /\ sub' = 1 /\ ramsel' = RamSel(a) /\ UNCHANGED <<pc, cur, romsel>>
     \/ sub = 1 /\ sub' = 2 /\ romsel' = a /\ UNCHANGED <<pc, cur, ramsel>>
     \/ sub = 2 /\ sub' = 0 /\ cur' = a /\ pc' = q /\ UNCHANGED <<ramsel, romsel>>
  /\ UNCHANGED <<sp, iff, inv, invsp, src, dst, bounce, copying, arg, peeking,
                 pint, frames, isr, intsp, home>>

\* HBX_BNKSEL of bank a, called at p, going on at q: HB_CURBNK comes first.
BnkSel(p, a, q) ==
  /\ Run(p)
  /\ \/ /\ sub = 0 /\ sub' = 1
        /\ cur' = a
        /\ UNCHANGED <<pc, ramsel, romsel>>
     \/ /\ sub = 1 /\ sub' = 2
        /\ ramsel' = RamSel(a)
        /\ UNCHANGED <<pc, cur, romsel>>
     \/ /\ sub = 2 /\ sub' = 0
        /\ romsel' = a
        /\ pc' = q
        /\ UNCHANGED <<cur, ramsel>>
  /\ UNCHANGED <<sp, iff, inv, invsp, src, dst, bounce, copying, arg, peeking,
                 pint, frames, isr, intsp, home>>
---------------------------------------------------------------------------
\* The user program.  It may keep its stack in its own bank or above it.
UserStack == /\ Run("user")
             /\ sp' \in {High, At("low", cur)}
             /\ UNCHANGED <<pc, sub, hardware, iff, inv, invsp, src, dst,
                            bounce, copying, arg, peeking, pint, frames, isr,
                            intsp, home>>

\* EI and DI.
UserInt == /\ Run("user")
           /\ iff \/ Handled(cur)
           /\ iff' = ~iff
           /\ UNCHANGED <<pc, sub, hardware, sp, inv, invsp, src, dst, bounce,
                          copying, arg, peeking, pint, frames, isr, intsp, home>>

\* Bug: HB_INVBNK is not set.
UserInvokeNoBank ==
  /\ Run("user")
  /\ home' = [bnk |-> cur, sp |-> sp, iff |-> iff]
  /\ invsp' = sp /\ sp' = BufStk /\ bounce' = Pushed(BufStk)
  /\ pc' = "inv_sel"
  /\ UNCHANGED <<sub, hardware, iff, inv, src, dst, copying, arg, peeking, pint,
                 frames, isr, intsp>>

\* RST 08, HBX_INVOKE up to the first bank switch.
UserInvoke == /\ Run("user")
              /\ home' = [bnk |-> cur, sp |-> sp, iff |-> iff]
              /\ invsp' = sp /\ sp' = BufStk
              /\ inv' = cur
              /\ bounce' = Pushed(BufStk)
              /\ pc' = "inv_sel"
              /\ UNCHANGED <<sub, hardware, iff, src, dst, copying, arg,
                             peeking, pint, frames, isr, intsp>>

\* HB_BNKSEL called directly, for which the stack has to be in high memory.
UserSelect == /\ Run("user") /\ sp = High
              /\ \E b \in Bank : (iff => Handled(b)) /\ arg' = b
              /\ pc' = "bnksel"
              /\ UNCHANGED <<sub, hardware, sp, iff, inv, invsp, src, dst,
                             bounce, copying, peeking, pint, frames, isr,
                             intsp, home>>

\* HBX_BNKCALL up to its bank switch.
UserCall == /\ Run("user") /\ sp = High
            /\ Len(frames) < Depth
            /\ \E b \in Bank : (iff => Handled(b)) /\ arg' = b
            /\ frames' = Append(frames, cur)
            /\ pc' = "call_sel"
            /\ UNCHANGED <<sub, hardware, sp, iff, inv, invsp, src, dst, bounce,
                           copying, peeking, pint, isr, intsp, home>>

\* The routine called returns: HBX_BNKCALL after its CALL.
UserReturn == /\ Run("user") /\ sp = High
              /\ frames # <<>>
              /\ arg' = frames[Len(frames)]
              /\ iff => Handled(frames[Len(frames)])
              /\ frames' = SubSeq(frames, 1, Len(frames) - 1)
              /\ pc' = "call_back"
              /\ UNCHANGED <<sub, hardware, sp, iff, inv, invsp, src, dst,
                             bounce, copying, peeking, pint, isr, intsp, home>>

SwitchUser == \/ BnkSel("bnksel", arg, "user")
              \/ BnkSel("call_sel", arg, "user")
              \/ BnkSel("call_back", arg, "user")
---------------------------------------------------------------------------
\* Bug: no HB_PUSHINT.
CopyEnterUnmasked(n, r) ==
  /\ bcsp' = sp /\ sp' = TmpStk
  /\ bcbnk' = cur
  /\ left' = n /\ back' = r
  /\ pc' = IF n = 0 THEN "bc_back" ELSE "bc_src"
  /\ UNCHANGED <<sub, hardware, iff, inv, invsp, bounce, arg, peeking, pint,
                 frames, isr, intsp>>

\* HBX_BNKCPY of n pieces, returning to r: interrupts are masked in mode 1
\* only (HB_PUSHINT), the stack goes to HBX_TMPSTK and keeps HB_CURBNK.
CopyEnter(n, r) ==
  /\ pint' = IF IM = 1 THEN iff ELSE pint
  /\ iff' = (IM # 1 /\ iff)
  /\ bcsp' = sp /\ sp' = TmpStk
  /\ bcbnk' = cur
  /\ left' = n /\ back' = r
  /\ pc' = IF n = 0 THEN "bc_back" ELSE "bc_src"
  /\ UNCHANGED <<sub, hardware, inv, invsp, bounce, arg, peeking, frames, isr,
                 intsp>>

\* HBX_BC_ITER, first half: LDIR from the source bank to HBX_BUF.
CopyRead ==
  /\ Run("bc_read")
  /\ bounce' = [hi |-> <<Mapped, left>>, lo |-> <<Mapped, left>>]
  /\ pc' = "bc_dst"
  /\ UNCHANGED <<sub, hardware, sp, iff, inv, invsp, src, dst, copying, arg,
                 peeking, pint, frames, isr, intsp, home>>

\* Bug: the count is left as it was.
CopyWriteForever ==
  /\ Run("bc_write")
  /\ pc' = "bc_src"
  /\ UNCHANGED <<sub, hardware, sp, iff, inv, invsp, src, dst, bounce, copying,
                 arg, peeking, pint, frames, isr, intsp, home>>

\* HBX_BC_ITER, second half: LDIR from HBX_BUF to the bank mapped.
CopyWrite ==
  /\ Run("bc_write")
  /\ left' = left - 1
  /\ pc' = IF left = 1 THEN "bc_back" ELSE "bc_src"
  /\ UNCHANGED <<sub, hardware, sp, iff, inv, invsp, src, dst, bounce, back,
                 bcsp, bcbnk, arg, peeking, pint, frames, isr, intsp, home>>

\* HBX_BNKCPY from HBX_BC_SP on; HB_POPINT.
CopyReturn ==
  /\ Run("bc_ret")
  /\ sp' = bcsp
  /\ iff' = (iff \/ (IM = 1 /\ pint))
  /\ pc' = back
  /\ UNCHANGED <<sub, hardware, inv, invsp, src, dst, bounce, copying, arg,
                 peeking, pint, frames, isr, intsp, home>>

\* HB_BNKCPY called by the user, who sets HB_SRCBNK and HB_DSTBNK.
UserCopy == /\ Run("user")
            /\ \E s, d \in Bank : src' = s /\ dst' = d
            /\ home' = [bnk |-> cur, sp |-> sp, iff |-> iff]
            /\ \E n \in 0..Chunks : CopyEnter(n, "user")

Copy == \/ BnkSel("bc_src", src, "bc_read")
        \/ CopyRead
        \/ BnkSel("bc_dst", dst, "bc_write")
        \/ CopyWrite
        \/ BnkSel("bc_back", bcbnk, "bc_ret")
        \/ CopyReturn
---------------------------------------------------------------------------
\* LD SP,HB_STACK once the BIOS bank is selected.
FnEnter == /\ Run("inv_stk")
           /\ sp' = BiosStk
           /\ pc' = "fn"
           /\ UNCHANGED <<sub, hardware, iff, inv, invsp, src, dst, bounce,
                          copying, arg, peeking, pint, frames, isr, intsp, home>>

\* SYS_SETCPY.
FnSetCopy == /\ Run("fn")
             /\ \E s, d \in Bank : src' = s /\ dst' = d
             /\ pc' = "inv_out"
             /\ UNCHANGED <<sub, hardware, sp, iff, inv, invsp, bounce, copying,
                            arg, peeking, pint, frames, isr, intsp, home>>

\* SYS_BNKCPY.
FnBankCopy == /\ Run("fn")
              /\ \E n \in 0..Chunks : CopyEnter(n, "inv_out")
              /\ UNCHANGED <<src, dst, home>>

\* HB_DSKREAD, HB_DSKWRITE with a buffer in low memory of bank b: a copy of
\* 512 bytes to or from HB_WRKBUF for each sector.
FnDisk == /\ Run("fn")
          /\ \E b \in Bank \ {BIOS} :
               \/ src' = BIOS /\ dst' = b
               \/ src' = b /\ dst' = BIOS
          /\ CopyEnter(Chunks, "disk")
          /\ UNCHANGED home

DiskNext == /\ Run("disk")
            /\ CopyEnter(Chunks, "disk")
            /\ UNCHANGED <<src, dst, home>>

\* SYS_SETBNK: where HBX_INVOKE goes back to, with a stack above the banks.
FnSetBank == /\ Run("fn") /\ invsp = High
             /\ \E b \in Bank : /\ iff => Handled(b)
                                /\ inv' = b
                                /\ home' = [home EXCEPT !.bnk = b]
             /\ pc' = "inv_out"
             /\ UNCHANGED <<sub, hardware, sp, iff, invsp, src, dst, bounce,
                            copying, arg, peeking, pint, frames, isr, intsp>>

\* SYS_PEEK, SYS_POKE and HBX_PEEK, HBX_POKE up to their bank switch.
FnPeek == /\ Run("fn")
          /\ \E b \in Bank : arg' = b
          /\ pint' = IF IM = 1 THEN iff ELSE pint
          /\ iff' = (IM # 1 /\ iff)
          /\ ppsp' = sp /\ sp' = MidStk
          /\ ppbnk' = cur /\ bounce' = Pushed(MidStk)
          /\ pc' = "pp_sel"
          /\ UNCHANGED <<sub, hardware, inv, invsp, src, dst, copying, frames,
                         isr, intsp, home>>

\* The access itself, to whichever bank is mapped.
PeekAccess == /\ Run("pp_acc")
              /\ pc' = "pp_back"
              /\ UNCHANGED <<sub, hardware, sp, iff, inv, invsp, src, dst,
                             bounce, copying, arg, peeking, pint, frames, isr,
                             intsp, home>>

\* HBX_PPRET from HBX_PPSP on; HB_POPINT.
PeekReturn == /\ Run("pp_ret")
              /\ sp' = ppsp
              /\ iff' = (iff \/ (IM = 1 /\ pint))
              /\ pc' = "inv_out"
              /\ UNCHANGED <<sub, hardware, inv, invsp, src, dst, bounce,
                             copying, arg, peeking, pint, frames, isr, intsp,
                             home>>

Peek == \/ BnkSel("pp_sel", arg, "pp_acc")
        \/ PeekAccess
        \/ BnkSel("pp_back", ppbnk, "pp_ret")
        \/ PeekReturn

\* Any other function, and a driver that is done.
FnDone == /\ Run("fn") \/ Run("disk")
          /\ pc' = "inv_out"
          /\ UNCHANGED <<sub, hardware, sp, iff, inv, invsp, src, dst, bounce,
                         copying, arg, peeking, pint, frames, isr, intsp, home>>

\* The function returned: LD SP,HBX_BUF_END, PUSH AF.
FnReturn == /\ Run("inv_out")
            /\ sp' = ResultStk
            /\ bounce' = [bounce EXCEPT !.hi = ResultAF]
            /\ pc' = "inv_back"
            /\ UNCHANGED <<sub, hardware, iff, inv, invsp, src, dst, copying,
                           arg, peeking, pint, frames, isr, intsp, home>>

\* POP AF, LD SP,(HBX_INVSP), RET.
InvokeReturn == /\ Run("inv_ret")
                /\ sp' = invsp
                /\ pc' = "user"
                /\ UNCHANGED <<sub, hardware, iff, inv, invsp, src, dst, bounce,
                               copying, arg, peeking, pint, frames, isr, intsp,
                               home>>

Invoke == \/ BnkSel("inv_sel", BIOS, "inv_stk")
          \/ FnEnter \/ FnSetCopy \/ FnBankCopy \/ FnDisk \/ DiskNext
          \/ FnSetBank \/ FnPeek \/ FnDone \/ FnReturn
          \/ BnkSel("inv_back", inv, "inv_ret")
          \/ InvokeReturn
---------------------------------------------------------------------------
\* An interrupt is accepted: its return address, HL on the stack in use, then
\* HBX_INT up to the handler.  HBX_BNKSEL_INT leaves HB_CURBNK alone.
IntAccept == /\ ~isr /\ iff
             /\ isr' = TRUE /\ iff' = FALSE
             /\ bounce' = Pushed(sp)
             /\ intsp' = sp /\ sp' = IntStk
             /\ ramsel' = RamSel(BIOS) /\ romsel' = BIOS
             /\ UNCHANGED <<pc, sub, cur, inv, invsp, src, dst, copying, arg,
                            peeking, pint, frames, home>>

\* The front panel handler reads the interrupted stack with HBX_PEEK.  It
\* makes HB_CURBNK its own bank meanwhile, so that HBX_PPRET comes back.
IntPeek == /\ isr /\ H8P
           /\ ppsp' = sp /\ ppbnk' = BIOS
           /\ bounce' = Pushed(MidStk)
           /\ UNCHANGED <<pc, sub, hardware, sp, iff, inv, invsp, src, dst,
                          copying, arg, pint, frames, isr, intsp, home>>

\* HBX_INT after the handler, to EI, RETI.
IntReturn == /\ isr
             /\ isr' = FALSE /\ iff' = TRUE
             /\ ramsel' = RamSel(cur) /\ romsel' = cur
             /\ sp' = intsp
             /\ UNCHANGED <<pc, sub, cur, inv, invsp, src, dst, bounce, copying,
                            arg, peeking, pint, frames, intsp, home>>
---------------------------------------------------------------------------
Init == \E b \in Bank :
  /\ pc = "user" /\ sub = 0
  /\ cur = b /\ romsel = b
  /\ ramsel = IF b \in Rom THEN BIOS ELSE b
  /\ sp = High /\ iff = FALSE
  /\ inv = b /\ invsp = High
  /\ src = b /\ dst = b
  /\ bounce = [hi |-> Junk, lo |-> Junk]
  /\ left = 0 /\ back = "user" /\ bcsp = High /\ bcbnk = b
  /\ arg = b /\ ppsp = High /\ ppbnk = b
  /\ pint = FALSE /\ frames = <<>>
  /\ isr = FALSE /\ intsp = High
  /\ home = [bnk |-> b, sp |-> High, iff |-> FALSE]

System == SwitchUser \/ Copy \/ Peek \/ Invoke
User == \/ UserStack \/ UserInt \/ UserInvoke \/ UserSelect \/ UserCall
        \/ UserReturn \/ UserCopy
Next == System \/ User \/ IntAccept \/ IntPeek \/ IntReturn

Spec == Init /\ [][Next]_vars

\* A handler ends, a function of a driver ends, and interrupts do not come
\* so fast that the program never gets to its next instruction.
Fairness == WF_vars(IntReturn) /\ SF_vars(System) /\ SF_vars(FnDone)
FairSpec == Spec /\ Fairness
---------------------------------------------------------------------------
\* Whatever runs finds itself and its stack in memory that is mapped, and
\* PEEK and POKE reach the bank asked for, wherever interrupts struck.
RightBank ==
  /\ isr => Mapped = BIOS
  /\ ~isr => /\ sp.bnk \in {Common, Mapped}
             /\ pc \in InBios => Mapped = BIOS
             /\ pc = "pp_acc" => Mapped = arg
             /\ pc = "user" => Mapped = cur

\* HBX_BUF serves as bounce buffer, as the stack of HBX_INVOKE and as the
\* stack of HBX_PEEK: each piece HBX_BNKCPY stores is still whole, and goes
\* where it was asked to.
CopyExact ==
  pc = "bc_write" /\ ~isr =>
    /\ Mapped = dst
    /\ bounce = [hi |-> <<src, left>>, lo |-> <<src, left>>]

\* In mode 1 the bank mapped has an interrupt vector whenever an interrupt
\* may come, in the middle of HBX_BNKSEL included.
VectorReady == IM = 1 /\ iff => Mapped \in Prepared

\* A call gives the user back its bank, its stack and its interrupt state,
\* and HBX_INVOKE the function's result from the stack it borrowed.
CallReturns ==
  [][/\ InvokeReturn => bounce.hi = ResultAF
     /\ InvokeReturn \/ (CopyReturn /\ back = "user") =>
          /\ cur' = home.bnk /\ Mapped' = home.bnk
          /\ sp' = home.sp /\ iff' = home.iff]_vars

\* Every call returns, however interrupts fall.
EveryCallReturns == pc # "user" ~> pc = "user"
============================================================================
