-------------------------- MODULE HbxProxyProofs --------------------------
(***************************************************************************)
(* For any banks, copy sizes and nesting of bank calls: wherever an        *)
(* interrupt strikes, code and stacks stay mapped, copies are exact and    *)
(* calls give back what they took.                                         *)
(***************************************************************************)
EXTENDS HbxProxy, TLAPS

\* The program apart from the handler that may be running: are interrupts
\* enabled for it, on which stack is it, did the user call it.
On == iff \/ isr
Stk == IF isr THEN intsp ELSE sp
InCall == PCs \ {"user", "bnksel", "call_sel", "call_back"}
Direct == pc \in InCopy /\ back = "user"
Selecting == {"inv_sel", "inv_back", "pp_sel", "pp_back", "bc_src", "bc_dst",
              "bc_back", "call_sel", "call_back", "bnksel"}

\* What the page selectors hold: HBX_BNKSEL done means HB_CURBNK is mapped.
SelectorsRight ==
  /\ isr => romsel = BIOS /\ ramsel = BIOS
  /\ ~isr /\ sub = 0 => romsel = cur
  /\ ~isr /\ sub # 1 /\ cur \notin Rom => ramsel = cur
  /\ sub # 0 => pc \in Selecting

\* Which bank HB_CURBNK names between bank switches.
BanksRight ==
  /\ pc \in InBios => cur = BIOS
  /\ pc = "pp_acc" => cur = arg
  /\ pc = "pp_ret" => cur = BIOS
  /\ pc = "bc_read" => cur = src
  /\ pc = "bc_write" => cur = dst
  /\ pc = "bc_ret" => cur = bcbnk
  /\ pc = "inv_ret" => cur = inv

\* Which bank is being selected, once HB_CURBNK has been set.
SwitchRight ==
  sub # 0 => /\ pc = "inv_sel" => cur = BIOS
             /\ pc = "inv_back" => cur = inv
             /\ pc \in {"pp_sel", "bnksel", "call_sel", "call_back"} => cur = arg
             /\ pc = "pp_back" => cur = ppbnk
             /\ pc = "bc_src" => cur = src
             /\ pc = "bc_dst" => cur = dst
             /\ pc = "bc_back" => cur = bcbnk

\* Which stack the program is on.
StackRight ==
  /\ isr => sp = IntStk
  /\ pc = "user" => Stk \in {High, At("low", cur)}
  /\ pc \in {"bnksel", "call_sel", "call_back"} => Stk = High
  /\ pc \in {"inv_sel", "inv_stk"} => Stk = BufStk
  /\ pc \in {"fn", "disk", "inv_out"} => Stk = BiosStk
  /\ pc \in {"inv_back", "inv_ret"} => Stk = ResultStk
  /\ pc \in InPeek => Stk = MidStk
  /\ pc \in InCopy => Stk = TmpStk

\* What the saved cells hold while they matter.
SavedRight ==
  /\ pc \in InCall => home.sp \in {High, At("low", home.bnk)}
  /\ pc \in InCall /\ ~Direct => inv = home.bnk /\ invsp = home.sp
  /\ pc \in InPeek => ppbnk = BIOS /\ ppsp = BiosStk
  /\ pc \in InCopy => IF back = "user" THEN bcbnk = home.bnk /\ bcsp = home.sp
                                       ELSE bcbnk = BIOS /\ bcsp = BiosStk

\* Interrupts are masked in mode 1 where the bank mapped may not expect them.
MaskRight ==
  /\ isr => ~iff
  /\ IM = 1 /\ pc \in InPeek \cup InCopy => ~iff /\ ~isr /\ pint = home.iff
  /\ pc \in InCall /\ ~(IM = 1 /\ pc \in InPeek \cup InCopy)
       => (On <=> home.iff)

\* An interrupt that comes finds its vector.
VectorRight ==
  /\ pc \in InCall /\ home.iff => Handled(home.bnk)
  /\ On => Handled(cur)
  /\ On /\ pc \in {"bnksel", "call_sel", "call_back"} => Handled(arg)
  /\ iff => Handled(Mapped)

\* A piece is still to be copied.
LeftRight == pc \in {"bc_src", "bc_read", "bc_dst", "bc_write"} => left >= 1

\* What HBX_BUF holds while it matters.
BufferRight ==
  /\ pc \in {"bc_dst", "bc_write"} =>
       bounce = [hi |-> <<src, left>>, lo |-> <<src, left>>]
  /\ pc \in {"inv_back", "inv_ret"} => bounce.hi = ResultAF

Proper == /\ SelectorsRight /\ BanksRight /\ SwitchRight /\ StackRight
          /\ SavedRight /\ MaskRight /\ VectorRight /\ BufferRight

IInv == TypeOK /\ LeftRight /\ Proper
---------------------------------------------------------------------------
\* The stacks are different, and only two lie below the proxy.
LEMMA StackFacts ==
  /\ {High, BufStk, ResultStk, MidStk, TmpStk, IntStk, BiosStk} \subseteq Stacks
  /\ \A b \in Bank : At("low", b) \in Stacks /\ At("low", b).bnk = b
  /\ High.bnk = Common /\ BufStk.bnk = Common /\ ResultStk.bnk = Common
  /\ MidStk.bnk = Common /\ TmpStk.bnk = Common /\ IntStk.bnk = Common
  /\ BiosStk.bnk = BIOS
  /\ \A s \in {High, ResultStk, TmpStk, IntStk, BiosStk} :
       s # BufStk /\ s # MidStk
  /\ MidStk # BufStk
  /\ \A b \in Bank : At("low", b) \notin {BufStk, MidStk}
<1> USE DEF High, BufStk, ResultStk, MidStk, TmpStk, IntStk, BiosStk
<1>1. \A a, b : At(a, b).area = a /\ At(a, b).bnk = b
  BY DEF At
<1>2. /\ {High, BufStk, ResultStk, MidStk, TmpStk, IntStk, BiosStk} \subseteq Stacks
      /\ \A b \in Bank : At("low", b) \in Stacks
  BY DEF Stacks
<1> QED BY <1>1, <1>2

\* A push leaves bytes in HBX_BUF.
LEMMA PushedType ==
  ASSUME TypeOK, NEW s PROVE Pushed(s) \in [hi : Bounced, lo : Bounced]
BY DEF TypeOK, Pushed, Bounced

\* MPCL_RAM only ever gets the number of a RAM bank.
LEMMA RamSelType ==
  ASSUME TypeOK, NEW a \in Bank PROVE RamSel(a) \in Bank \ Rom
BY ProxyAssumption DEF TypeOK, RamSel

\* The CPU sees a bank of the machine.
LEMMA MappedType == TypeOK => Mapped \in Bank
BY DEF TypeOK, Mapped

\* HBX_BNKSEL keeps the types, and does not matter to the count of pieces
\* when it is called within a piece or outside of the copy.
LEMMA BnkSelType ==
  ASSUME TypeOK, LeftRight, NEW p \in PCs, NEW a \in Bank, NEW q \in PCs,
         BnkSel(p, a, q),
         q \in {"bc_src", "bc_read", "bc_dst", "bc_write"} => p \in {"bc_src", "bc_dst"}
  PROVE  TypeOK' /\ LeftRight'
<1>1. RamSel(a) \in Bank \ Rom
  BY RamSelType
<1> QED
  BY <1>1 DEF BnkSel, TypeOK, LeftRight, Run, copying, peeking

\* HBX_BNKCPY starts with its cells typed.
LEMMA CopyEnterType ==
  ASSUME TypeOK, NEW n \in 0..Chunks, NEW r \in {"disk", "inv_out", "user"},
         CopyEnter(n, r), src' \in Bank, dst' \in Bank, home' \in Homes
  PROVE  TypeOK' /\ LeftRight'
BY StackFacts DEF CopyEnter, TypeOK, LeftRight, PCs, InCopy, hardware, peeking

\* Every step keeps the types, and a copy under way has pieces left.
LEMMA TypeNext == TypeOK /\ LeftRight /\ [Next]_vars => TypeOK' /\ LeftRight'
<1> SUFFICES ASSUME TypeOK, LeftRight, [Next]_vars PROVE TypeOK' /\ LeftRight'
  OBVIOUS
<1> USE DEF PCs, InBios, InPeek, InCopy
<1>1. CASE System
  <2>1. CASE SwitchUser
    BY <2>1, BnkSelType DEF SwitchUser, TypeOK, LeftRight
  <2>2. CASE Copy
    <3>1. CASE CopyRead
      <4>1. Mapped \in Bank /\ left \in 1..Chunks
        BY <3>1, MappedType, ProxyAssumption DEF TypeOK, LeftRight, CopyRead, Run
      <4> QED BY <3>1, <4>1 DEF CopyRead, TypeOK, LeftRight, Bounced, Run,
              hardware, copying, peeking
    <3>2. CASE CopyWrite
      BY <3>2, ProxyAssumption DEF CopyWrite, TypeOK, LeftRight, Run, hardware, copying, peeking
    <3>3. CASE CopyReturn
      BY <3>3 DEF CopyReturn, TypeOK, LeftRight, Run, hardware, copying, peeking
    <3> QED BY <2>2, <3>1, <3>2, <3>3, BnkSelType DEF Copy, TypeOK, LeftRight
  <2>3. CASE Peek
    <3>1. CASE PeekAccess \/ PeekReturn
      BY <3>1 DEF PeekAccess, PeekReturn, TypeOK, LeftRight, Run, hardware, copying, peeking
    <3> QED BY <2>3, <3>1, BnkSelType DEF Peek, TypeOK, LeftRight
  <2>4. CASE Invoke
    <3>1. CASE FnEnter \/ FnSetCopy \/ FnSetBank \/ FnDone \/ InvokeReturn
      BY <3>1, StackFacts DEF FnEnter, FnSetCopy, FnSetBank, FnDone, InvokeReturn,
         TypeOK, LeftRight, Homes, Run, hardware, copying, peeking
    <3>2. CASE FnReturn
      BY <3>2, StackFacts DEF FnReturn, TypeOK, LeftRight, Bounced, Run, hardware, copying, peeking
    <3>3. CASE FnPeek
      BY <3>3, StackFacts, PushedType DEF FnPeek, TypeOK, LeftRight, Run, hardware, copying
    <3>4. CASE FnBankCopy \/ FnDisk \/ DiskNext
      BY <3>4, CopyEnterType, ProxyAssumption DEF FnBankCopy, FnDisk, DiskNext, TypeOK, LeftRight
    <3> QED BY <2>4, <3>1, <3>2, <3>3, <3>4, BnkSelType, ProxyAssumption
            DEF Invoke, TypeOK, LeftRight
  <2> QED BY <1>1, <2>1, <2>2, <2>3, <2>4 DEF System
<1>2. CASE User
  <2>1. CASE UserStack \/ UserInt \/ UserSelect
    BY <2>1, StackFacts DEF UserStack, UserInt, UserSelect, TypeOK, LeftRight, Run, hardware,
       copying, peeking
  <2>2. CASE UserInvoke
    BY <2>2, StackFacts, PushedType DEF UserInvoke, TypeOK, LeftRight, Homes, Run, hardware,
       copying, peeking
  <2>3. CASE UserCall
    BY <2>3 DEF UserCall, TypeOK, LeftRight, Run, hardware, copying, peeking
  <2>4. CASE UserReturn
    <3>1. frames[Len(frames)] \in Bank
          /\ SubSeq(frames, 1, Len(frames) - 1) \in Seq(Bank)
      BY <2>4 DEF UserReturn, TypeOK, LeftRight
    <3> QED BY <2>4, <3>1 DEF UserReturn, TypeOK, LeftRight, Run, hardware, copying, peeking
  <2>5. CASE UserCopy
    <3>1. home' \in Homes /\ src' \in Bank /\ dst' \in Bank
      BY <2>5 DEF UserCopy, Homes, TypeOK, LeftRight
    <3> QED BY <2>5, <3>1, CopyEnterType DEF UserCopy
  <2> QED BY <1>2, <2>1, <2>2, <2>3, <2>4, <2>5 DEF User
<1>3. CASE IntAccept
  BY <1>3, StackFacts, PushedType, RamSelType, ProxyAssumption
  DEF IntAccept, TypeOK, LeftRight, copying, peeking
<1>4. CASE IntPeek
  BY <1>4, StackFacts, PushedType, ProxyAssumption
  DEF IntPeek, TypeOK, LeftRight, hardware, copying
<1>5. CASE IntReturn
  BY <1>5, RamSelType DEF IntReturn, TypeOK, LeftRight, copying, peeking
<1>6. CASE UNCHANGED vars
  BY <1>6 DEF vars, TypeOK, LeftRight, hardware, copying, peeking
<1> QED BY <1>1, <1>2, <1>3, <1>4, <1>5, <1>6 DEF Next

\* The initial cells have their types.
LEMMA TypeInit == Init => TypeOK /\ LeftRight
<1> SUFFICES ASSUME Init PROVE TypeOK /\ LeftRight
  OBVIOUS
<1>1. frames \in Seq(Bank)
  BY DEF Init
<1>2. romsel \in Bank /\ ramsel \in Bank \ Rom
  BY ProxyAssumption DEF Init
<1>3. bounce \in [hi : Bounced, lo : Bounced] /\ home \in Homes
  BY StackFacts DEF Init, Bounced, Homes
<1>4. PICK b \in Bank : /\ cur = b /\ inv = b /\ src = b /\ dst = b
                        /\ bcbnk = b /\ arg = b /\ ppbnk = b
  BY DEF Init
<1>5. /\ pc = "user" /\ sub = 0 /\ left = 0 /\ back = "user"
      /\ sp = High /\ invsp = High /\ bcsp = High /\ ppsp = High /\ intsp = High
  BY DEF Init
<1>6. High \in Stacks /\ Chunks \in Nat
  BY StackFacts, ProxyAssumption
<1>7. iff \in BOOLEAN /\ pint \in BOOLEAN /\ isr \in BOOLEAN
  BY DEF Init
<1> QED
  BY <1>1, <1>2, <1>3, <1>4, <1>5, <1>6, <1>7 DEF TypeOK, LeftRight, PCs
---------------------------------------------------------------------------
\* The three instructions of HBX_BNKSEL, whatever the bank and the caller.
LEMMA BnkSelSelectors ==
  ASSUME TypeOK, SelectorsRight, VectorRight, NEW p \in Selecting,
         NEW a \in Bank, NEW q \in PCs, BnkSel(p, a, q), On => Handled(a),
         sub # 0 => cur = a
  PROVE  /\ SelectorsRight'
         /\ (On => Handled(cur))' /\ (iff => Handled(Mapped))'
<1>1. ~isr /\ isr' = isr /\ iff' = iff /\ pc = p
  BY DEF BnkSel, Run
<1>2. CASE sub = 0
  BY <1>1, <1>2 DEF BnkSel, TypeOK, SelectorsRight, VectorRight, Mapped, On, Handled
<1>3. CASE sub = 1
  BY <1>1, <1>3 DEF BnkSel, TypeOK, SelectorsRight, VectorRight, Mapped, On,
     Handled, RamSel
<1>4. CASE sub = 2
  BY <1>1, <1>4 DEF BnkSel, TypeOK, SelectorsRight, VectorRight, Mapped, On, Handled
<1> QED BY <1>2, <1>3, <1>4 DEF TypeOK

\* The rest of the invariant while HBX_BNKSEL runs.
LEMMA BnkSelSame ==
  ASSUME IInv, NEW p, NEW a \in Bank, NEW q, BnkSel(p, a, q), sub # 2,
         p \in Selecting
  PROVE  /\ BanksRight' /\ StackRight' /\ SavedRight' /\ MaskRight'
         /\ BufferRight' /\ pc' = p
         /\ (pc \in InCall /\ home.iff => Handled(home.bnk))'
         /\ (On /\ pc \in {"bnksel", "call_sel", "call_back"} => Handled(arg))'
<1>1. /\ pc = p /\ pc' = pc
      /\ UNCHANGED <<sp, iff, inv, invsp, src, dst, bounce, copying, arg, peeking,
                     pint, frames, isr, intsp, home>>
      /\ ~isr
  BY DEF BnkSel, Run, IInv, Proper, TypeOK
<1>2. BanksRight'
  BY <1>1 DEF IInv, Proper, BanksRight, Selecting, InBios
<1>3. StackRight'
  BY <1>1 DEF IInv, Proper, StackRight, Selecting, Stk
<1>4. SavedRight' /\ BufferRight'
  BY <1>1 DEF IInv, Proper, SavedRight, BufferRight, Direct, copying, peeking
<1>5. MaskRight'
  BY <1>1 DEF IInv, Proper, MaskRight, On
<1> QED BY <1>1, <1>2, <1>3, <1>4, <1>5 DEF IInv, Proper, VectorRight, On

\* HBX_BNKSEL called from p for bank a, with what is known of p.
LEMMA BnkSelKeeps ==
  ASSUME IInv, NEW p \in Selecting, NEW a \in Bank, NEW q \in PCs,
         BnkSel(p, a, q), On => Handled(a), sub # 0 => cur = a,
         sub' # 0 => SwitchRight',
         sub = 2 => /\ BanksRight' /\ StackRight' /\ SavedRight' /\ MaskRight'
                    /\ BufferRight'
                    /\ (pc \in InCall /\ home.iff => Handled(home.bnk))'
                    /\ (On /\ pc \in {"bnksel", "call_sel", "call_back"}
                          => Handled(arg))'
  PROVE  Proper'
<1>1. /\ SelectorsRight'
      /\ (On => Handled(cur))' /\ (iff => Handled(Mapped))'
  BY BnkSelSelectors DEF IInv, Proper
<1>2. /\ BanksRight' /\ StackRight' /\ SavedRight' /\ MaskRight' /\ BufferRight'
      /\ (pc \in InCall /\ home.iff => Handled(home.bnk))'
      /\ (On /\ pc \in {"bnksel", "call_sel", "call_back"} => Handled(arg))'
  BY BnkSelSame
<1>3. SwitchRight'
  BY DEF SwitchRight
<1> QED BY <1>1, <1>2, <1>3 DEF Proper, VectorRight

\* Every call of HBX_BNKSEL.
LEMMA EveryBnkSel ==
  ASSUME IInv
  PROVE  /\ BnkSel("inv_sel", BIOS, "inv_stk") => Proper'
         /\ BnkSel("inv_back", inv, "inv_ret") => Proper'
         /\ BnkSel("pp_sel", arg, "pp_acc") => Proper'
         /\ BnkSel("pp_back", ppbnk, "pp_ret") => Proper'
         /\ BnkSel("bc_src", src, "bc_read") => Proper'
         /\ BnkSel("bc_dst", dst, "bc_write") => Proper'
         /\ BnkSel("bc_back", bcbnk, "bc_ret") => Proper'
         /\ BnkSel("bnksel", arg, "user") => Proper'
         /\ BnkSel("call_sel", arg, "user") => Proper'
         /\ BnkSel("call_back", arg, "user") => Proper'
<1> USE DEF PCs, InBios, InPeek, InCopy, Selecting, InCall
<1>1. ASSUME BnkSel("inv_sel", BIOS, "inv_stk") PROVE Proper'
  <2>1. /\ ~isr /\ pc = "inv_sel" /\ BIOS \in Bank
        /\ UNCHANGED <<sp, iff, inv, invsp, src, dst, bounce, copying, arg, peeking,
                       pint, frames, isr, intsp, home>>
    BY <1>1, ProxyAssumption DEF BnkSel, Run, IInv, TypeOK
  <2>2. (On => Handled(BIOS)) /\ (sub # 0 => cur = BIOS)
    BY <2>1, ProxyAssumption DEF IInv, Proper, VectorRight, MaskRight, SwitchRight,
       SavedRight, On, Handled, Direct
  <2>3. sub' # 0 => SwitchRight'
    BY <1>1, <2>1, <2>2 DEF BnkSel, SwitchRight, copying, peeking, IInv, TypeOK
  <2>4. CASE sub = 2
    <3>1. pc' = "inv_stk" /\ cur' = BIOS
      BY <1>1, <2>2, <2>4 DEF BnkSel
    <3>2. /\ BanksRight' /\ StackRight' /\ SavedRight' /\ MaskRight' /\ BufferRight'
          /\ (pc \in InCall /\ home.iff => Handled(home.bnk))'
          /\ (On /\ pc \in {"bnksel", "call_sel", "call_back"} => Handled(arg))'
      BY <2>1, <3>1 DEF IInv, Proper, BanksRight, StackRight, SavedRight, MaskRight,
         VectorRight, BufferRight, Stk, Direct, On, Handled, copying, peeking
    <3> QED BY <2>1, <2>2, <2>3, <2>4, <1>1, <3>2, BnkSelKeeps
  <2> QED BY <2>1, <2>2, <2>3, <2>4, <1>1, BnkSelKeeps
<1>2. ASSUME BnkSel("inv_back", inv, "inv_ret") PROVE Proper'
  <2>1. /\ ~isr /\ pc = "inv_back" /\ inv \in Bank
        /\ UNCHANGED <<sp, iff, inv, invsp, src, dst, bounce, copying, arg, peeking,
                       pint, frames, isr, intsp, home>>
    BY <1>2, ProxyAssumption DEF BnkSel, Run, IInv, TypeOK
  <2>2. (On => Handled(inv)) /\ (sub # 0 => cur = inv)
    BY <2>1, ProxyAssumption DEF IInv, Proper, VectorRight, MaskRight, SwitchRight,
       SavedRight, On, Handled, Direct
  <2>3. sub' # 0 => SwitchRight'
    BY <1>2, <2>1, <2>2 DEF BnkSel, SwitchRight, copying, peeking, IInv, TypeOK
  <2>4. CASE sub = 2
    <3>1. pc' = "inv_ret" /\ cur' = inv
      BY <1>2, <2>2, <2>4 DEF BnkSel
    <3>2. /\ BanksRight' /\ StackRight' /\ SavedRight' /\ MaskRight' /\ BufferRight'
          /\ (pc \in InCall /\ home.iff => Handled(home.bnk))'
          /\ (On /\ pc \in {"bnksel", "call_sel", "call_back"} => Handled(arg))'
      BY <2>1, <3>1 DEF IInv, Proper, BanksRight, StackRight, SavedRight, MaskRight,
         VectorRight, BufferRight, Stk, Direct, On, Handled, copying, peeking
    <3> QED BY <2>1, <2>2, <2>3, <2>4, <1>2, <3>2, BnkSelKeeps
  <2> QED BY <2>1, <2>2, <2>3, <2>4, <1>2, BnkSelKeeps
<1>3. ASSUME BnkSel("pp_sel", arg, "pp_acc") PROVE Proper'
  <2>1. /\ ~isr /\ pc = "pp_sel" /\ arg \in Bank
        /\ UNCHANGED <<sp, iff, inv, invsp, src, dst, bounce, copying, arg, peeking,
                       pint, frames, isr, intsp, home>>
    BY <1>3, ProxyAssumption DEF BnkSel, Run, IInv, TypeOK
  <2>2. (On => Handled(arg)) /\ (sub # 0 => cur = arg)
    BY <2>1, ProxyAssumption DEF IInv, Proper, VectorRight, MaskRight, SwitchRight,
       SavedRight, On, Handled, Direct
  <2>3. sub' # 0 => SwitchRight'
    BY <1>3, <2>1, <2>2 DEF BnkSel, SwitchRight, copying, peeking, IInv, TypeOK
  <2>4. CASE sub = 2
    <3>1. pc' = "pp_acc" /\ cur' = arg
      BY <1>3, <2>2, <2>4 DEF BnkSel
    <3>2. /\ BanksRight' /\ StackRight' /\ SavedRight' /\ MaskRight' /\ BufferRight'
          /\ (pc \in InCall /\ home.iff => Handled(home.bnk))'
          /\ (On /\ pc \in {"bnksel", "call_sel", "call_back"} => Handled(arg))'
      BY <2>1, <3>1 DEF IInv, Proper, BanksRight, StackRight, SavedRight, MaskRight,
         VectorRight, BufferRight, Stk, Direct, On, Handled, copying, peeking
    <3> QED BY <2>1, <2>2, <2>3, <2>4, <1>3, <3>2, BnkSelKeeps
  <2> QED BY <2>1, <2>2, <2>3, <2>4, <1>3, BnkSelKeeps
<1>4. ASSUME BnkSel("pp_back", ppbnk, "pp_ret") PROVE Proper'
  <2>1. /\ ~isr /\ pc = "pp_back" /\ ppbnk \in Bank
        /\ UNCHANGED <<sp, iff, inv, invsp, src, dst, bounce, copying, arg, peeking,
                       pint, frames, isr, intsp, home>>
    BY <1>4, ProxyAssumption DEF BnkSel, Run, IInv, TypeOK
  <2>2. (On => Handled(ppbnk)) /\ (sub # 0 => cur = ppbnk)
    BY <2>1, ProxyAssumption DEF IInv, Proper, VectorRight, MaskRight, SwitchRight,
       SavedRight, On, Handled, Direct
  <2>3. sub' # 0 => SwitchRight'
    BY <1>4, <2>1, <2>2 DEF BnkSel, SwitchRight, copying, peeking, IInv, TypeOK
  <2>4. CASE sub = 2
    <3>1. pc' = "pp_ret" /\ cur' = ppbnk
      BY <1>4, <2>2, <2>4 DEF BnkSel
    <3>2. /\ BanksRight' /\ StackRight' /\ SavedRight' /\ MaskRight' /\ BufferRight'
          /\ (pc \in InCall /\ home.iff => Handled(home.bnk))'
          /\ (On /\ pc \in {"bnksel", "call_sel", "call_back"} => Handled(arg))'
      BY <2>1, <3>1 DEF IInv, Proper, BanksRight, StackRight, SavedRight, MaskRight,
         VectorRight, BufferRight, Stk, Direct, On, Handled, copying, peeking
    <3> QED BY <2>1, <2>2, <2>3, <2>4, <1>4, <3>2, BnkSelKeeps
  <2> QED BY <2>1, <2>2, <2>3, <2>4, <1>4, BnkSelKeeps
<1>5. ASSUME BnkSel("bc_src", src, "bc_read") PROVE Proper'
  <2>1. /\ ~isr /\ pc = "bc_src" /\ src \in Bank
        /\ UNCHANGED <<sp, iff, inv, invsp, src, dst, bounce, copying, arg, peeking,
                       pint, frames, isr, intsp, home>>
    BY <1>5, ProxyAssumption DEF BnkSel, Run, IInv, TypeOK
  <2>2. (On => Handled(src)) /\ (sub # 0 => cur = src)
    BY <2>1, ProxyAssumption DEF IInv, Proper, VectorRight, MaskRight, SwitchRight,
       SavedRight, On, Handled, Direct
  <2>3. sub' # 0 => SwitchRight'
    BY <1>5, <2>1, <2>2 DEF BnkSel, SwitchRight, copying, peeking, IInv, TypeOK
  <2>4. CASE sub = 2
    <3>1. pc' = "bc_read" /\ cur' = src
      BY <1>5, <2>2, <2>4 DEF BnkSel
    <3>2. /\ BanksRight' /\ StackRight' /\ SavedRight' /\ MaskRight' /\ BufferRight'
          /\ (pc \in InCall /\ home.iff => Handled(home.bnk))'
          /\ (On /\ pc \in {"bnksel", "call_sel", "call_back"} => Handled(arg))'
      BY <2>1, <3>1 DEF IInv, Proper, BanksRight, StackRight, SavedRight, MaskRight,
         VectorRight, BufferRight, Stk, Direct, On, Handled, copying, peeking
    <3> QED BY <2>1, <2>2, <2>3, <2>4, <1>5, <3>2, BnkSelKeeps
  <2> QED BY <2>1, <2>2, <2>3, <2>4, <1>5, BnkSelKeeps
<1>6. ASSUME BnkSel("bc_dst", dst, "bc_write") PROVE Proper'
  <2>1. /\ ~isr /\ pc = "bc_dst" /\ dst \in Bank
        /\ UNCHANGED <<sp, iff, inv, invsp, src, dst, bounce, copying, arg, peeking,
                       pint, frames, isr, intsp, home>>
    BY <1>6, ProxyAssumption DEF BnkSel, Run, IInv, TypeOK
  <2>2. (On => Handled(dst)) /\ (sub # 0 => cur = dst)
    BY <2>1, ProxyAssumption DEF IInv, Proper, VectorRight, MaskRight, SwitchRight,
       SavedRight, On, Handled, Direct
  <2>3. sub' # 0 => SwitchRight'
    BY <1>6, <2>1, <2>2 DEF BnkSel, SwitchRight, copying, peeking, IInv, TypeOK
  <2>4. CASE sub = 2
    <3>1. pc' = "bc_write" /\ cur' = dst
      BY <1>6, <2>2, <2>4 DEF BnkSel
    <3>2. /\ BanksRight' /\ StackRight' /\ SavedRight' /\ MaskRight' /\ BufferRight'
          /\ (pc \in InCall /\ home.iff => Handled(home.bnk))'
          /\ (On /\ pc \in {"bnksel", "call_sel", "call_back"} => Handled(arg))'
      BY <2>1, <3>1 DEF IInv, Proper, BanksRight, StackRight, SavedRight, MaskRight,
         VectorRight, BufferRight, Stk, Direct, On, Handled, copying, peeking
    <3> QED BY <2>1, <2>2, <2>3, <2>4, <1>6, <3>2, BnkSelKeeps
  <2> QED BY <2>1, <2>2, <2>3, <2>4, <1>6, BnkSelKeeps
<1>7. ASSUME BnkSel("bc_back", bcbnk, "bc_ret") PROVE Proper'
  <2>1. /\ ~isr /\ pc = "bc_back" /\ bcbnk \in Bank
        /\ UNCHANGED <<sp, iff, inv, invsp, src, dst, bounce, copying, arg, peeking,
                       pint, frames, isr, intsp, home>>
    BY <1>7, ProxyAssumption DEF BnkSel, Run, IInv, TypeOK
  <2>2. (On => Handled(bcbnk)) /\ (sub # 0 => cur = bcbnk)
    BY <2>1, ProxyAssumption DEF IInv, Proper, VectorRight, MaskRight, SwitchRight,
       SavedRight, On, Handled, Direct
  <2>3. sub' # 0 => SwitchRight'
    BY <1>7, <2>1, <2>2 DEF BnkSel, SwitchRight, copying, peeking, IInv, TypeOK
  <2>4. CASE sub = 2
    <3>1. pc' = "bc_ret" /\ cur' = bcbnk
      BY <1>7, <2>2, <2>4 DEF BnkSel
    <3>2. /\ BanksRight' /\ StackRight' /\ SavedRight' /\ MaskRight' /\ BufferRight'
          /\ (pc \in InCall /\ home.iff => Handled(home.bnk))'
          /\ (On /\ pc \in {"bnksel", "call_sel", "call_back"} => Handled(arg))'
      BY <2>1, <3>1 DEF IInv, Proper, BanksRight, StackRight, SavedRight, MaskRight,
         VectorRight, BufferRight, Stk, Direct, On, Handled, copying, peeking
    <3> QED BY <2>1, <2>2, <2>3, <2>4, <1>7, <3>2, BnkSelKeeps
  <2> QED BY <2>1, <2>2, <2>3, <2>4, <1>7, BnkSelKeeps
<1>8. ASSUME BnkSel("bnksel", arg, "user") PROVE Proper'
  <2>1. /\ ~isr /\ pc = "bnksel" /\ arg \in Bank
        /\ UNCHANGED <<sp, iff, inv, invsp, src, dst, bounce, copying, arg, peeking,
                       pint, frames, isr, intsp, home>>
    BY <1>8, ProxyAssumption DEF BnkSel, Run, IInv, TypeOK
  <2>2. (On => Handled(arg)) /\ (sub # 0 => cur = arg)
    BY <2>1, ProxyAssumption DEF IInv, Proper, VectorRight, MaskRight, SwitchRight,
       SavedRight, On, Handled, Direct
  <2>3. sub' # 0 => SwitchRight'
    BY <1>8, <2>1, <2>2 DEF BnkSel, SwitchRight, copying, peeking, IInv, TypeOK
  <2>4. CASE sub = 2
    <3>1. pc' = "user" /\ cur' = arg
      BY <1>8, <2>2, <2>4 DEF BnkSel
    <3>2. /\ BanksRight' /\ StackRight' /\ SavedRight' /\ MaskRight' /\ BufferRight'
          /\ (pc \in InCall /\ home.iff => Handled(home.bnk))'
          /\ (On /\ pc \in {"bnksel", "call_sel", "call_back"} => Handled(arg))'
      BY <2>1, <3>1 DEF IInv, Proper, BanksRight, StackRight, SavedRight, MaskRight,
         VectorRight, BufferRight, Stk, Direct, On, Handled, copying, peeking
    <3> QED BY <2>1, <2>2, <2>3, <2>4, <1>8, <3>2, BnkSelKeeps
  <2> QED BY <2>1, <2>2, <2>3, <2>4, <1>8, BnkSelKeeps
<1>9. ASSUME BnkSel("call_sel", arg, "user") PROVE Proper'
  <2>1. /\ ~isr /\ pc = "call_sel" /\ arg \in Bank
        /\ UNCHANGED <<sp, iff, inv, invsp, src, dst, bounce, copying, arg, peeking,
                       pint, frames, isr, intsp, home>>
    BY <1>9, ProxyAssumption DEF BnkSel, Run, IInv, TypeOK
  <2>2. (On => Handled(arg)) /\ (sub # 0 => cur = arg)
    BY <2>1, ProxyAssumption DEF IInv, Proper, VectorRight, MaskRight, SwitchRight,
       SavedRight, On, Handled, Direct
  <2>3. sub' # 0 => SwitchRight'
    BY <1>9, <2>1, <2>2 DEF BnkSel, SwitchRight, copying, peeking, IInv, TypeOK
  <2>4. CASE sub = 2
    <3>1. pc' = "user" /\ cur' = arg
      BY <1>9, <2>2, <2>4 DEF BnkSel
    <3>2. /\ BanksRight' /\ StackRight' /\ SavedRight' /\ MaskRight' /\ BufferRight'
          /\ (pc \in InCall /\ home.iff => Handled(home.bnk))'
          /\ (On /\ pc \in {"bnksel", "call_sel", "call_back"} => Handled(arg))'
      BY <2>1, <3>1 DEF IInv, Proper, BanksRight, StackRight, SavedRight, MaskRight,
         VectorRight, BufferRight, Stk, Direct, On, Handled, copying, peeking
    <3> QED BY <2>1, <2>2, <2>3, <2>4, <1>9, <3>2, BnkSelKeeps
  <2> QED BY <2>1, <2>2, <2>3, <2>4, <1>9, BnkSelKeeps
<1>10. ASSUME BnkSel("call_back", arg, "user") PROVE Proper'
  <2>1. /\ ~isr /\ pc = "call_back" /\ arg \in Bank
        /\ UNCHANGED <<sp, iff, inv, invsp, src, dst, bounce, copying, arg, peeking,
                       pint, frames, isr, intsp, home>>
    BY <1>10, ProxyAssumption DEF BnkSel, Run, IInv, TypeOK
  <2>2. (On => Handled(arg)) /\ (sub # 0 => cur = arg)
    BY <2>1, ProxyAssumption DEF IInv, Proper, VectorRight, MaskRight, SwitchRight,
       SavedRight, On, Handled, Direct
  <2>3. sub' # 0 => SwitchRight'
    BY <1>10, <2>1, <2>2 DEF BnkSel, SwitchRight, copying, peeking, IInv, TypeOK
  <2>4. CASE sub = 2
    <3>1. pc' = "user" /\ cur' = arg
      BY <1>10, <2>2, <2>4 DEF BnkSel
    <3>2. /\ BanksRight' /\ StackRight' /\ SavedRight' /\ MaskRight' /\ BufferRight'
          /\ (pc \in InCall /\ home.iff => Handled(home.bnk))'
          /\ (On /\ pc \in {"bnksel", "call_sel", "call_back"} => Handled(arg))'
      BY <2>1, <3>1 DEF IInv, Proper, BanksRight, StackRight, SavedRight, MaskRight,
         VectorRight, BufferRight, Stk, Direct, On, Handled, copying, peeking
    <3> QED BY <2>1, <2>2, <2>3, <2>4, <1>10, <3>2, BnkSelKeeps
  <2> QED BY <2>1, <2>2, <2>3, <2>4, <1>10, BnkSelKeeps
<1> QED BY <1>1, <1>2, <1>3, <1>4, <1>5, <1>6, <1>7, <1>8, <1>9, <1>10
---------------------------------------------------------------------------
\* Between bank switches the bank of HB_CURBNK is the one mapped.
LEMMA Settled ==
  ASSUME IInv, ~isr, pc \notin Selecting
  PROVE  sub = 0 /\ Mapped = cur /\ (On <=> iff)
BY DEF IInv, Proper, TypeOK, SelectorsRight, Mapped, On

\* A step that is no bank switch leaves the selectors right.
LEMMA Calm ==
  ASSUME IInv, ~isr, ~isr', pc \notin Selecting, UNCHANGED <<sub, hardware>>
  PROVE  SelectorsRight' /\ SwitchRight' /\ Mapped' = Mapped /\ cur' = cur
BY Settled DEF IInv, Proper, SelectorsRight, SwitchRight, hardware, Mapped

\* The steps of the program that switch no bank.
Still ==
  UserStack \/
  UserInt \/ UserInvoke \/ UserSelect \/ UserCall \/ UserReturn \/ UserCopy \/
  CopyRead \/ CopyWrite \/ CopyReturn \/ FnEnter \/ FnSetCopy \/ FnSetBank \/
  PeekAccess \/ PeekReturn \/ FnDone \/ FnReturn \/ InvokeReturn \/
  FnBankCopy \/ FnDisk \/ DiskNext \/ FnPeek

\* The steps that switch no bank keep the invariant.
LEMMA StillKeeps == IInv /\ Still => Proper'
<1> SUFFICES ASSUME IInv, Still PROVE Proper'
  OBVIOUS
<1> USE DEF PCs, InBios, InPeek, InCopy, InCall, Run, copying, peeking, CopyEnter
<1>1. ~isr /\ ~isr' /\ pc \notin Selecting /\ UNCHANGED <<sub, hardware>>
  BY DEF Still, Selecting, UserStack, UserInt, UserInvoke, UserSelect, UserCall,
     UserReturn, UserCopy, CopyRead, CopyWrite, CopyReturn, FnEnter, FnSetCopy,
     FnSetBank, PeekAccess, PeekReturn, FnDone, FnReturn, InvokeReturn,
     FnBankCopy, FnDisk, DiskNext, FnPeek
<1>2. /\ SelectorsRight' /\ SwitchRight' /\ Mapped' = Mapped /\ cur' = cur
      /\ Mapped = cur /\ (On <=> iff)
  BY <1>1, Calm, Settled
<1> USE <1>1, <1>2 DEF IInv, Proper, TypeOK
<1>3. CASE UserStack
  BY <1>3, StackFacts, ProxyAssumption
  DEF UserStack, BanksRight, StackRight, SavedRight, MaskRight,
     VectorRight, BufferRight, Direct, Stk, On, Handled, LeftRight
<1>4. CASE UserInt
  BY <1>4, StackFacts, ProxyAssumption
  DEF UserInt, BanksRight, StackRight, SavedRight, MaskRight,
     VectorRight, BufferRight, Direct, Stk, On, Handled, LeftRight
<1>5. CASE UserInvoke
  BY <1>5, StackFacts, ProxyAssumption
  DEF UserInvoke, BanksRight, StackRight, SavedRight, MaskRight,
     VectorRight, BufferRight, Direct, Stk, On, Handled, LeftRight
<1>6. CASE UserSelect
  BY <1>6, StackFacts, ProxyAssumption
  DEF UserSelect, BanksRight, StackRight, SavedRight, MaskRight,
     VectorRight, BufferRight, Direct, Stk, On, Handled, LeftRight
<1>7. CASE UserCall
  BY <1>7, StackFacts, ProxyAssumption
  DEF UserCall, BanksRight, StackRight, SavedRight, MaskRight,
     VectorRight, BufferRight, Direct, Stk, On, Handled, LeftRight
<1>8. CASE UserReturn
  BY <1>8, StackFacts, ProxyAssumption
  DEF UserReturn, BanksRight, StackRight, SavedRight, MaskRight,
     VectorRight, BufferRight, Direct, Stk, On, Handled, LeftRight
<1>9. CASE UserCopy
  BY <1>9, StackFacts, ProxyAssumption
  DEF UserCopy, BanksRight, StackRight, SavedRight, MaskRight,
     VectorRight, BufferRight, Direct, Stk, On, Handled, LeftRight
<1>10. CASE CopyRead
  BY <1>10, StackFacts, ProxyAssumption
  DEF CopyRead, BanksRight, StackRight, SavedRight, MaskRight,
     VectorRight, BufferRight, Direct, Stk, On, Handled, LeftRight
<1>11. CASE CopyWrite
  BY <1>11, StackFacts, ProxyAssumption
  DEF CopyWrite, BanksRight, StackRight, SavedRight, MaskRight,
     VectorRight, BufferRight, Direct, Stk, On, Handled, LeftRight
<1>12. CASE CopyReturn
  BY <1>12, StackFacts, ProxyAssumption
  DEF CopyReturn, BanksRight, StackRight, SavedRight, MaskRight,
     VectorRight, BufferRight, Direct, Stk, On, Handled, LeftRight
<1>13. CASE FnEnter
  BY <1>13, StackFacts, ProxyAssumption
  DEF FnEnter, BanksRight, StackRight, SavedRight, MaskRight,
     VectorRight, BufferRight, Direct, Stk, On, Handled, LeftRight
<1>14. CASE FnSetCopy
  BY <1>14, StackFacts, ProxyAssumption
  DEF FnSetCopy, BanksRight, StackRight, SavedRight, MaskRight,
     VectorRight, BufferRight, Direct, Stk, On, Handled, LeftRight
<1>15. CASE FnSetBank
  BY <1>15, StackFacts, ProxyAssumption
  DEF FnSetBank, BanksRight, StackRight, SavedRight, MaskRight,
     VectorRight, BufferRight, Direct, Stk, On, Handled, LeftRight
<1>16. CASE PeekAccess
  BY <1>16, StackFacts, ProxyAssumption
  DEF PeekAccess, BanksRight, StackRight, SavedRight, MaskRight,
     VectorRight, BufferRight, Direct, Stk, On, Handled, LeftRight
<1>17. CASE PeekReturn
  BY <1>17, StackFacts, ProxyAssumption
  DEF PeekReturn, BanksRight, StackRight, SavedRight, MaskRight,
     VectorRight, BufferRight, Direct, Stk, On, Handled, LeftRight
<1>18. CASE FnDone
  BY <1>18, StackFacts, ProxyAssumption
  DEF FnDone, BanksRight, StackRight, SavedRight, MaskRight,
     VectorRight, BufferRight, Direct, Stk, On, Handled, LeftRight
<1>19. CASE FnReturn
  BY <1>19, StackFacts, ProxyAssumption
  DEF FnReturn, BanksRight, StackRight, SavedRight, MaskRight,
     VectorRight, BufferRight, Direct, Stk, On, Handled, LeftRight
<1>20. CASE InvokeReturn
  BY <1>20, StackFacts, ProxyAssumption
  DEF InvokeReturn, BanksRight, StackRight, SavedRight, MaskRight,
     VectorRight, BufferRight, Direct, Stk, On, Handled, LeftRight
<1>21. CASE FnBankCopy
  <2>1. MaskRight'
    <3>1. CASE IM = 1
      <4>1. /\ ~iff' /\ (pint' <=> iff) /\ (iff <=> home.iff) /\ home' = home
            /\ pint' \in BOOLEAN
        BY <1>21, <3>1 DEF FnBankCopy, MaskRight, On
      <4>2. pint' = home.iff
        BY <4>1 DEF Homes
      <4> QED BY <1>21, <3>1, <4>1, <4>2 DEF FnBankCopy, MaskRight, On
    <3>2. CASE IM # 1
      BY <1>21, <3>2 DEF FnBankCopy, MaskRight, On
    <3> QED BY <3>1, <3>2
  <2>2. /\ BanksRight' /\ StackRight' /\ SavedRight' /\ VectorRight'
        /\ BufferRight'
    BY <1>21, StackFacts, ProxyAssumption
    DEF FnBankCopy, BanksRight, StackRight, SavedRight, MaskRight, VectorRight,
        BufferRight, Direct, Stk, On, Handled
  <2> QED BY <2>1, <2>2
<1>22. CASE FnDisk
  <2>1. MaskRight'
    <3>1. CASE IM = 1
      <4>1. /\ ~iff' /\ (pint' <=> iff) /\ (iff <=> home.iff) /\ home' = home
            /\ pint' \in BOOLEAN
        BY <1>22, <3>1 DEF FnDisk, MaskRight, On
      <4>2. pint' = home.iff
        BY <4>1 DEF Homes
      <4> QED BY <1>22, <3>1, <4>1, <4>2 DEF FnDisk, MaskRight, On
    <3>2. CASE IM # 1
      BY <1>22, <3>2 DEF FnDisk, MaskRight, On
    <3> QED BY <3>1, <3>2
  <2>2. /\ BanksRight' /\ StackRight' /\ SavedRight' /\ VectorRight'
        /\ BufferRight'
    BY <1>22, StackFacts, ProxyAssumption
    DEF FnDisk, BanksRight, StackRight, SavedRight, MaskRight, VectorRight,
        BufferRight, Direct, Stk, On, Handled
  <2> QED BY <2>1, <2>2
<1>23. CASE DiskNext
  <2>1. MaskRight'
    <3>1. CASE IM = 1
      <4>1. /\ ~iff' /\ (pint' <=> iff) /\ (iff <=> home.iff) /\ home' = home
            /\ pint' \in BOOLEAN
        BY <1>23, <3>1 DEF DiskNext, MaskRight, On
      <4>2. pint' = home.iff
        BY <4>1 DEF Homes
      <4> QED BY <1>23, <3>1, <4>1, <4>2 DEF DiskNext, MaskRight, On
    <3>2. CASE IM # 1
      BY <1>23, <3>2 DEF DiskNext, MaskRight, On
    <3> QED BY <3>1, <3>2
  <2>2. /\ BanksRight' /\ StackRight' /\ SavedRight' /\ VectorRight'
        /\ BufferRight'
    BY <1>23, StackFacts, ProxyAssumption
    DEF DiskNext, BanksRight, StackRight, SavedRight, MaskRight, VectorRight,
        BufferRight, Direct, Stk, On, Handled
  <2> QED BY <2>1, <2>2
<1>24. CASE FnPeek
  <2>1. MaskRight'
    <3>1. CASE IM = 1
      <4>1. /\ ~iff' /\ (pint' <=> iff) /\ (iff <=> home.iff) /\ home' = home
            /\ pint' \in BOOLEAN
        BY <1>24, <3>1 DEF FnPeek, MaskRight, On
      <4>2. pint' = home.iff
        BY <4>1 DEF Homes
      <4> QED BY <1>24, <3>1, <4>1, <4>2 DEF FnPeek, MaskRight, On
    <3>2. CASE IM # 1
      BY <1>24, <3>2 DEF FnPeek, MaskRight, On
    <3> QED BY <3>1, <3>2
  <2>2. /\ BanksRight' /\ StackRight' /\ SavedRight' /\ VectorRight'
        /\ BufferRight'
    BY <1>24, StackFacts, ProxyAssumption
    DEF FnPeek, BanksRight, StackRight, SavedRight, MaskRight, VectorRight,
        BufferRight, Direct, Stk, On, Handled
  <2> QED BY <2>1, <2>2
<1> QED BY <1>3, <1>4, <1>5, <1>6, <1>7, <1>8, <1>9, <1>10, <1>11, <1>12, <1>13,
          <1>14, <1>15, <1>16, <1>17, <1>18, <1>19, <1>20, <1>21, <1>22, <1>23,
          <1>24 DEF Still

\* The handler starts.  What the program has is as it was.
LEMMA IntAcceptKeeps == IInv /\ IntAccept => Proper'
<1> SUFFICES ASSUME IInv, IntAccept PROVE Proper'
  OBVIOUS
<1> USE DEF IntAccept, copying, peeking, IInv, Proper, TypeOK
<1>1. SelectorsRight' /\ Mapped' = BIOS
  BY ProxyAssumption DEF SelectorsRight, RamSel, Mapped
<1>2. BanksRight' /\ SwitchRight'
  BY DEF BanksRight, SwitchRight
<1>3. StackRight'
  BY DEF StackRight, Stk
<1>4. SavedRight'
  BY DEF SavedRight, Direct
<1>5. MaskRight'
  BY DEF MaskRight, On
<1>6. VectorRight'
  BY DEF VectorRight, On, Handled
<1>7. BufferRight'
  BY StackFacts DEF BufferRight, StackRight, Stk, Pushed, InCopy
<1> QED BY <1>1, <1>2, <1>3, <1>4, <1>5, <1>6, <1>7

\* The handler's own HBX_PEEK: in mode 1, so that the program is neither
\* copying nor peeking.
LEMMA IntPeekKeeps == IInv /\ IntPeek => Proper'
<1> SUFFICES ASSUME IInv, IntPeek PROVE Proper'
  OBVIOUS
<1> USE DEF IntPeek, hardware, copying, IInv, Proper, TypeOK
<1>1. pc \notin InPeek \cup InCopy
  BY ProxyAssumption DEF MaskRight
<1>2. SelectorsRight' /\ BanksRight' /\ StackRight'
  BY DEF SelectorsRight, BanksRight, StackRight, Stk
<1>3. SwitchRight'
  BY <1>1 DEF SwitchRight, InPeek
<1>4. SavedRight'
  BY <1>1 DEF SavedRight, Direct
<1>5. MaskRight'
  BY DEF MaskRight, On
<1>6. VectorRight'
  BY DEF VectorRight, On, Mapped
<1>7. BufferRight'
  BY <1>1, StackFacts DEF BufferRight, Pushed, InCopy
<1> QED BY <1>2, <1>3, <1>4, <1>5, <1>6, <1>7

\* The handler returns to the bank HB_CURBNK names.
LEMMA IntReturnKeeps == IInv /\ IntReturn => Proper'
<1> SUFFICES ASSUME IInv, IntReturn PROVE Proper'
  OBVIOUS
<1> USE DEF IntReturn, copying, peeking, IInv, Proper, TypeOK
<1>1. SelectorsRight' /\ Mapped' = cur
  BY DEF SelectorsRight, RamSel, Mapped
<1>2. BanksRight' /\ SwitchRight'
  BY DEF BanksRight, SwitchRight
<1>3. StackRight'
  BY DEF StackRight, Stk
<1>4. SavedRight'
  BY DEF SavedRight, Direct
<1>5. MaskRight'
  BY DEF MaskRight, On
<1>6. VectorRight'
  BY <1>1 DEF VectorRight, On, Handled
<1>7. BufferRight'
  BY DEF BufferRight
<1> QED BY <1>1, <1>2, <1>3, <1>4, <1>5, <1>6, <1>7
---------------------------------------------------------------------------
\* The invariant holds before the first call.
LEMMA ProperInit == Init => Proper
<1> SUFFICES ASSUME Init PROVE Proper
  OBVIOUS
<1>1. /\ pc = "user" /\ sub = 0 /\ ~isr /\ ~iff /\ romsel = cur
      /\ (cur \notin Rom => ramsel = cur) /\ sp = High
  BY DEF Init
<1> QED
  BY <1>1 DEF Proper, SelectorsRight, BanksRight, SwitchRight, StackRight,
     SavedRight, MaskRight, VectorRight, BufferRight, Selecting, InCall, InBios,
     InPeek, InCopy, On, Stk

\* Every step keeps the invariant.
LEMMA ProperNext == IInv /\ [Next]_vars => Proper'
<1> SUFFICES ASSUME IInv, [Next]_vars PROVE Proper'
  OBVIOUS
<1>1. CASE SwitchUser
  BY <1>1, EveryBnkSel DEF SwitchUser
<1>2. CASE Copy
  BY <1>2, EveryBnkSel, StillKeeps DEF Copy, Still
<1>3. CASE Peek
  BY <1>3, EveryBnkSel, StillKeeps DEF Peek, Still
<1>4. CASE Invoke
  BY <1>4, EveryBnkSel, StillKeeps DEF Invoke, Still
<1>5. CASE User
  BY <1>5, StillKeeps DEF User, Still
<1>6. CASE IntAccept \/ IntPeek \/ IntReturn
  BY <1>6, IntAcceptKeeps, IntPeekKeeps, IntReturnKeeps
<1>7. CASE UNCHANGED vars
  BY <1>7 DEF vars, hardware, copying, peeking, IInv, Proper, SelectorsRight,
     BanksRight, SwitchRight, StackRight, SavedRight, MaskRight, VectorRight,
     BufferRight, On, Stk, Direct, Mapped
<1> QED BY <1>1, <1>2, <1>3, <1>4, <1>5, <1>6, <1>7 DEF Next, System

\* The inductive invariant: how far each bank switch, copy, peek and call has
\* got, and what the saved cells therefore hold.
THEOREM InvariantHolds == Spec => []IInv
<1>1. Init => IInv
  BY TypeInit, ProperInit DEF IInv
<1>2. IInv /\ [Next]_vars => IInv'
  BY TypeNext, ProperNext DEF IInv
<1> QED BY <1>1, <1>2, PTL DEF Spec
---------------------------------------------------------------------------
\* Every variable keeps its type.
THEOREM TypeCorrect == Spec => []TypeOK
<1>1. IInv => TypeOK
  BY DEF IInv
<1> QED BY <1>1, InvariantHolds, PTL

\* Code, stacks and the accesses of PEEK and POKE are always in the bank that
\* is mapped, wherever interrupts strike.
THEOREM AlwaysInTheRightBank == Spec => []RightBank
<1>1. IInv => RightBank
  <2> SUFFICES ASSUME IInv PROVE RightBank
    OBVIOUS
  <2> USE DEF IInv, Proper, TypeOK, PCs
  <2>1. isr => Mapped = BIOS
    BY ProxyAssumption DEF SelectorsRight, Mapped
  <2>2. ASSUME ~isr PROVE sp.bnk \in {Common, Mapped}
    <3>1. pc \in {"user", "fn", "disk", "inv_out"} => Mapped = cur
      BY <2>2 DEF SelectorsRight, Selecting, Mapped
    <3>2. pc \in {"fn", "disk", "inv_out"} => cur = BIOS
      BY DEF BanksRight, InBios
    <3> QED
      BY <2>2, <3>1, <3>2, StackFacts DEF StackRight, Stk, InBios
  <2>3. ASSUME ~isr, pc \in InBios \cup {"pp_acc", "user"} PROVE Mapped = cur
    BY <2>3 DEF SelectorsRight, Selecting, Mapped, InBios
  <2> QED BY <2>1, <2>2, <2>3 DEF RightBank, BanksRight
<1> QED BY <1>1, InvariantHolds, PTL

\* An interbank copy stores what it read, where it was asked to.
THEOREM CopiesAreExact == Spec => []CopyExact
<1>1. IInv => CopyExact
  BY DEF IInv, Proper, TypeOK, CopyExact, BufferRight, BanksRight, SelectorsRight,
     Selecting, Mapped
<1> QED BY <1>1, InvariantHolds, PTL

\* In mode 1 no interrupt can come while a bank without vector is mapped.
THEOREM VectorsAreReady == Spec => []VectorReady
<1>1. IInv => VectorReady
  BY DEF IInv, Proper, VectorRight, Handled, VectorReady
<1> QED BY <1>1, InvariantHolds, PTL

\* Calls give the user back what it had.
THEOREM CallsGiveBack == Spec => CallReturns
<1>1. ASSUME IInv, InvokeReturn
      PROVE  /\ bounce.hi = ResultAF
             /\ cur' = home.bnk /\ Mapped' = home.bnk
             /\ sp' = home.sp /\ iff' = home.iff
  <2>1. /\ pc = "inv_ret" /\ ~isr /\ pc \notin Selecting /\ pc \in InCall
        /\ ~Direct
    BY <1>1 DEF InvokeReturn, Run, Selecting, InCall, PCs, Direct, InCopy
  <2>2. Mapped = cur /\ (On <=> iff)
    BY <1>1, <2>1, Settled
  <2>3. iff = home.iff
    BY <1>1, <2>1, <2>2 DEF IInv, Proper, MaskRight, InPeek, InCopy, TypeOK, Homes
  <2> QED BY <1>1, <2>1, <2>2, <2>3 DEF InvokeReturn, IInv, Proper, BanksRight,
          SavedRight, BufferRight, hardware, Mapped
<1>2. ASSUME IInv, CopyReturn, back = "user"
      PROVE  /\ cur' = home.bnk /\ Mapped' = home.bnk
             /\ sp' = home.sp /\ iff' = home.iff
  <2>1. pc = "bc_ret" /\ ~isr /\ pc \notin Selecting /\ pc \in InCall
    BY <1>2 DEF CopyReturn, Run, Selecting, InCall, PCs, InCopy
  <2>2. Mapped = cur /\ (On <=> iff)
    BY <1>2, <2>1, Settled
  <2>3. iff' = home.iff
    <3>1. iff' = (iff \/ (IM = 1 /\ pint)) /\ iff \in BOOLEAN /\ pint \in BOOLEAN
          /\ home.iff \in BOOLEAN
      BY <1>2 DEF CopyReturn, IInv, TypeOK, Homes
    <3>2. IM = 1 => ~iff /\ (pint <=> home.iff)
      BY <1>2, <2>1 DEF IInv, Proper, MaskRight, InCopy
    <3>3. IM # 1 => (iff <=> home.iff)
      BY <1>2, <2>1, <2>2 DEF IInv, Proper, MaskRight
    <3> QED BY <3>1, <3>2, <3>3
  <2> QED BY <1>2, <2>1, <2>2, <2>3 DEF CopyReturn, IInv, Proper, BanksRight,
          SavedRight, InCopy, hardware, Mapped
<1>3. IInv /\ [Next]_vars =>
        [/\ InvokeReturn => bounce.hi = ResultAF
         /\ InvokeReturn \/ (CopyReturn /\ back = "user") =>
              /\ cur' = home.bnk /\ Mapped' = home.bnk
              /\ sp' = home.sp /\ iff' = home.iff]_vars
  BY <1>1, <1>2
<1> QED BY <1>3, InvariantHolds, PTL DEF Spec, CallReturns
============================================================================
