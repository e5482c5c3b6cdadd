----------------------------- MODULE HbiosProofs -----------------------------
(***************************************************************************)
(* The heap and the NVRAM switches of HBIOS.                               *)
(*                                                                         *)
(* For any size of a word and any end of HBIOS, blocks of the heap never   *)
(* overlap and never leave the bank.                                       *)
(*                                                                         *)
(* For bytes of any width, any defaults and any version, the switches      *)
(* survive power failures: a change of one switch changes one byte or two  *)
(* adjacent ones before the checksum, and the checksum tells when it got   *)
(* no further than the first.                                              *)
(***************************************************************************)
EXTENDS Heap, Switches, TLAPS

------------------------------------------------------------------------------
(* The heap.                                                                *)

\* Blocks end where the heap does, and it starts at the curb.
BelowTop == \A b \in blocks : b.at + b.size <= top
AboveCurb == /\ booted => curb = HbEnd
             /\ ~booted => top = HbEnd /\ blocks = {}

HeapInv == HeapTypeOK /\ BlocksApart /\ BelowTop /\ AboveCurb

\* Half of a word is a number, at most the word.
LEMMA BankSize == Bank \in Nat /\ 2 * Bank <= Word
BY HeapAssumption DEF Bank

\* The test with carries is the test one would make with numbers.
LEMMA RefusedMeans ==
  ASSUME top \in HbEnd..Bank - 1, NEW n \in Addr
  PROVE  Refused(n) <=> top + Header + n >= Bank
<1> USE HeapAssumption, BankSize DEF Addr, Header
<1>1. CASE n + Header >= Word
  BY <1>1 DEF Refused
<1>2. CASE n + Header < Word
  <2>1. (n + Header) % Word = n + Header
    BY <1>2
  <2>2. CASE top + (n + Header) >= Word
    BY <2>1, <2>2 DEF Refused
  <2>3. CASE top + (n + Header) < Word
    <3>1. (top + (n + Header)) % Word = top + (n + Header)
      BY <2>3
    <3> QED BY <1>2, <2>1, <2>3, <3>1 DEF Refused
  <2> QED BY <2>2, <2>3
<1> QED BY <1>1, <1>2

\* A block that is granted lies between the old top and the new one.
LEMMA AllocRight == ASSUME HeapInv, NEW n \in Addr, Alloc(n) PROVE HeapInv'
<1> USE HeapAssumption, BankSize DEF Addr, Header, HeapInv, Alloc
<1>1. top + Header + n < Bank
  BY RefusedMeans DEF HeapTypeOK
<1>2. top \in Nat /\ top' = top + Header + n
  BY <1>1 DEF HeapTypeOK
<1> DEFINE granted == [at |-> top + Header, size |-> n]
<1>3. blocks' = blocks \cup {granted} /\ granted \in Block
  BY <1>1, <1>2 DEF Block
<1>4. HeapTypeOK'
  BY <1>1, <1>2, <1>3 DEF HeapTypeOK
<1>5. \A b \in blocks : b.at \in Nat /\ b.size \in Nat /\ b.at + b.size <= top
  BY DEF BelowTop, HeapTypeOK, Block
<1>6. BlocksApart'
  <2>1. \A b \in blocks' : HbEnd + Header <= b.at /\ b.at + b.size < Bank
    BY <1>1, <1>2, <1>3 DEF BlocksApart, HeapTypeOK
  <2>2. \A b, c \in blocks : b = c \/ Apart(b, c)
    BY DEF BlocksApart
  <2>3. \A b \in blocks : Apart(b, granted) /\ Apart(granted, b)
    BY <1>2, <1>5 DEF Apart
  <2> HIDE DEF granted
  <2> QED BY <1>3, <2>1, <2>2, <2>3 DEF BlocksApart
<1>7. BelowTop'
  BY <1>2, <1>3, <1>5 DEF BelowTop
<1>8. AboveCurb'
  BY DEF AboveCurb, HeapTypeOK
<1> QED BY <1>4, <1>6, <1>7, <1>8

\* A reset keeps no block.
LEMMA ReleaseRight == ASSUME HeapInv, Release PROVE HeapInv'
<1> USE HeapAssumption, BankSize DEF HeapInv, Release
<1>1. HeapTypeOK'
  BY DEF HeapTypeOK, AboveCurb
<1>2. BlocksApart'
  BY DEF BlocksApart, HeapTypeOK
<1>3. BelowTop' /\ AboveCurb'
  BY DEF BelowTop, AboveCurb, HeapTypeOK
<1> QED BY <1>1, <1>2, <1>3

\* An empty heap is right.
LEMMA EmptyRight ==
  top = HbEnd /\ curb = 0 /\ booted = FALSE /\ blocks = {} => HeapInv
<1> SUFFICES ASSUME top = HbEnd, curb = 0, booted = FALSE, blocks = {} PROVE HeapInv
  OBVIOUS
<1>1. HbEnd \in HbEnd..Bank - 1 /\ 0 \in 0..Bank - 1
  BY HeapAssumption, BankSize
<1>2. HeapTypeOK
  BY <1>1 DEF HeapTypeOK
<1>3. BlocksApart /\ BelowTop /\ AboveCurb
  BY DEF BlocksApart, BelowTop, AboveCurb
<1> QED BY <1>2, <1>3 DEF HeapInv

\* No operation breaks the invariant.
LEMMA HeapStepRight == HeapInv /\ [HeapNext]_heapvars => HeapInv'
<1> SUFFICES ASSUME HeapInv, [HeapNext]_heapvars PROVE HeapInv'
  OBVIOUS
<1>1. CASE SetCurb
  BY <1>1, HeapAssumption, BankSize
  DEF SetCurb, HeapInv, HeapTypeOK, BlocksApart, Apart, BelowTop, AboveCurb
<1>2. CASE ColdStart
  <2>1. (top = HbEnd /\ curb = 0 /\ booted = FALSE /\ blocks = {} => HeapInv)'
    BY EmptyRight, PTL
  <2> QED BY <1>2, <2>1 DEF ColdStart
<1>3. CASE UNCHANGED heapvars
  BY <1>3 DEF heapvars, HeapInv, HeapTypeOK, BlocksApart, BelowTop, AboveCurb
<1> QED BY <1>1, <1>2, <1>3, AllocRight, ReleaseRight DEF HeapNext

\* The inductive invariant of the heap.
THEOREM HeapInvariantHolds == HeapSpec => []HeapInv
<1>1. HeapInit => HeapInv
  BY EmptyRight DEF HeapInit
<1> QED BY <1>1, HeapStepRight, PTL DEF HeapSpec

\* The top of the heap and the blocks stay in the bank of HBIOS.
THEOREM HeapTypesRight == HeapSpec => []HeapTypeOK
<1>1. HeapInv => HeapTypeOK
  BY DEF HeapInv
<1> QED BY <1>1, HeapInvariantHolds, PTL

\* No two blocks, nor their headers, ever overlap.
THEOREM BlocksNeverMeet == HeapSpec => []BlocksApart
<1>1. HeapInv => BlocksApart
  BY DEF HeapInv
<1> QED BY <1>1, HeapInvariantHolds, PTL

\* A request is refused exactly when it does not fit.
THEOREM RefusedWhenFull == HeapSpec => []RefusalExact
<1>1. HeapInv => RefusalExact
  BY RefusedMeans DEF HeapInv, HeapTypeOK, RefusalExact
<1> QED BY <1>1, HeapInvariantHolds, PTL

------------------------------------------------------------------------------
(* The switches.                                                            *)

\* So much of an update has reached the NVRAM.
Written(k) == \A i \in All : nv[i] = IF i < k THEN new[i] ELSE old[i]

\* While bytes are being written.
WritingRight ==
  at # Idle => sw = new /\ sw[4] = Sum(sw) /\ kind # "none" /\ Written(at)

\* Other than bytes 1 and 2, the switches of a SET differ from those before
\* in one byte, or in none.
OneSwitch == \E d \in Data : \A i \in Data : i = d \/ (d = 1 /\ i = 2) \/ new[i] = old[i]

\* A SET, finished or not, started from valid switches.
SetRight == kind = "set" =>
              /\ old[4] = Sum(old)
              /\ OneSwitch
              /\ \E k \in All \cup {5} : Written(k)

SwitchesInv == TypeOK /\ StatusHonest /\ WritingRight /\ SetRight

---------------------------------------------------------------------------
\* XOR with the same is injective.
LEMMA XorCancels == \A a, b, c : Xor(a, c) = Xor(b, c) => a = b
<1> SUFFICES ASSUME NEW a, NEW b, NEW c, Xor(a, c) = Xor(b, c) PROVE a = b
  OBVIOUS
<1>1. \A x : x \in Xor(a, c) <=> x \in Xor(b, c)
  OBVIOUS
<1>2. \A x : x \in a <=> x \in b
  BY <1>1 DEF Xor
<1> QED BY <1>2

\* So is the other way round.
LEMMA XorCancelsLeft == \A a, b, c : Xor(a, b) = Xor(a, c) => b = c
<1> SUFFICES ASSUME NEW a, NEW b, NEW c, Xor(a, b) = Xor(a, c) PROVE b = c
  OBVIOUS
<1>1. \A x : x \in Xor(a, b) <=> x \in Xor(a, c)
  OBVIOUS
<1>2. \A x : x \in b <=> x \in c
  BY <1>1 DEF Xor
<1> QED BY <1>2

\* If only byte 1 may differ, equal checksums mean that it does not.
LEMMA FirstByteTells ==
  ASSUME NEW s, NEW t, s[0] = t[0], s[2] = t[2], s[3] = t[3], Sum(s) = Sum(t)
  PROVE  s[1] = t[1]
<1>1. Xor(Xor(Xor(s[0], s[1]), s[2]), s[3]) = Xor(Xor(Xor(t[0], t[1]), t[2]), t[3])
  BY XorCancels DEF Sum
<1>2. Xor(Xor(s[0], s[1]), s[2]) = Xor(Xor(t[0], t[1]), t[2])
  BY <1>1, XorCancels
<1>3. Xor(s[0], s[1]) = Xor(t[0], t[1])
  BY <1>2, XorCancels
<1> QED BY <1>3, XorCancelsLeft

\* The checksum is a byte.
LEMMA SumIsByte == ASSUME NEW s \in [All -> Byte] PROVE Sum(s) \in Byte
<1>1. \A a, b \in Byte : Xor(a, b) \in Byte
  BY DEF Xor, Byte
<1>2. s[0] \in Byte /\ s[1] \in Byte /\ s[2] \in Byte /\ s[3] \in Byte /\ Version \in Byte
  BY SwitchAssumption DEF All
<1> HIDE DEF Byte, Xor
<1> QED BY <1>1, <1>2 DEF Sum

\* A torn SET is seen.
LEMMA TornIsSeen == SwitchesInv => TornSetIsSeen
<1> SUFFICES ASSUME SwitchesInv, kind = "set", Valid(nv) PROVE Same(nv, old) \/ Same(nv, new)
  BY DEF TornSetIsSeen
<1>1. PICK k \in All \cup {5} : Written(k)
  BY DEF SwitchesInv, SetRight
<1>2. PICK d \in Data : \A i \in Data : i = d \/ (d = 1 /\ i = 2) \/ new[i] = old[i]
  BY DEF SwitchesInv, SetRight, OneSwitch
<1>3. CASE k <= d
  BY <1>1, <1>2, <1>3 DEF Written, Same, Data, All
<1>4. CASE k > d /\ ~(d = 1 /\ k = 2)
  BY <1>1, <1>2, <1>4 DEF Written, Same, Data, All
<1>5. CASE d = 1 /\ k = 2
  <2>1. nv[0] = old[0] /\ nv[2] = old[2] /\ nv[3] = old[3] /\ nv[4] = old[4]
    BY <1>1, <1>2, <1>5 DEF Written, Data, All
  <2>2. Sum(nv) = Sum(old)
    BY <2>1 DEF SwitchesInv, SetRight, Valid
  <2>3. nv[1] = old[1]
    BY <2>1, <2>2, FirstByteTells
  <2> QED BY <2>1, <2>3 DEF Same, Data
<1> QED BY <1>3, <1>4, <1>5 DEF Data, All

---------------------------------------------------------------------------
\* Booting: what is accepted is in the NVRAM; the rest has another status.
LEMMA BootRight == ASSUME SwitchesInv, Boot PROVE SwitchesInv'
<1> USE DEF SwitchesInv, Boot
<1>0. Image \in [All -> Byte] /\ Image[0] # W /\ One # W /\ One \in Byte
  BY SwitchAssumption
<1>1. ASSUME NEW c \in Byte
      PROVE  Uninitialised(c) \in [All -> Byte] /\ Uninitialised(c)[0] = One
  BY <1>0, SwitchAssumption DEF Uninitialised, Defaults, All, Data
<1>2. nv \in [All -> Byte] /\ nv[4] \in Byte /\ Image[4] \in Byte
  BY <1>0 DEF TypeOK, All
<1>3. TypeOK'
  <2>1. sw' \in [All -> Byte]
    BY <1>0, <1>1, <1>2
  <2>2. kind' \in {"none", "set", "reset"} /\ at' \in 0..Idle
    BY DEF TypeOK, Idle
  <2> QED BY <2>1, <2>2 DEF TypeOK
<1>4. sw'[0] = W => sw' = nv /\ Valid(nv)
  BY <1>0, <1>1, <1>2
<1>5. StatusHonest'
  BY <1>4 DEF StatusHonest, Valid, Sum
<1>6. WritingRight'
  BY DEF WritingRight
<1>7. SetRight'
  BY DEF SetRight, OneSwitch, Written, Sum
<1> QED BY <1>3, <1>5, <1>6, <1>7

\* The start of an update of either kind.
LEMMA UpdateRight ==
  ASSUME TypeOK, NEW k \in {"set", "reset"}, NEW s \in [All -> Byte], Update(k, s)
  PROVE  /\ TypeOK' /\ StatusHonest' /\ WritingRight' /\ Written(0)'
         /\ \A i \in Data : new'[i] = s[i]
<1> USE DEF Update
<1>1. /\ Summed(s) \in [All -> Byte] /\ \A i \in Data : Summed(s)[i] = s[i]
      /\ Summed(s)[4] = Sum(Summed(s))
  BY SumIsByte DEF Summed, All, Data, Sum
<1>2. TypeOK'
  BY <1>1 DEF TypeOK, Idle
<1>3. StatusHonest' /\ Written(0)'
  BY DEF StatusHonest, Idle, Written, All
<1>4. WritingRight'
  BY <1>1, <1>3 DEF WritingRight, Sum
<1> QED BY <1>1, <1>2, <1>3, <1>4

\* SET begins from a valid NVRAM that the block agrees with.
LEMMA SetBegins ==
  ASSUME SwitchesInv, NEW d \in Data, NEW lo \in Byte, NEW hi \in Byte, SetSwitch(d, lo, hi)
  PROVE  SwitchesInv'
<1> DEFINE s == Put(d, lo, hi)
<1>1. nv = sw /\ Valid(nv)
  BY DEF SwitchesInv, SetSwitch, StatusHonest
<1>2. s \in [All -> Byte]
  BY DEF Put, SwitchesInv, TypeOK
<1>3. Update("set", s)
  BY DEF SetSwitch
<1>4. /\ TypeOK' /\ StatusHonest' /\ WritingRight' /\ Written(0)'
      /\ \A i \in Data : new'[i] = s[i]
  <2> HIDE DEF s
  <2> QED BY <1>2, <1>3, UpdateRight DEF SwitchesInv
<1>5. old' = nv
  BY <1>3 DEF Update
<1>6. \A i \in Data : i = d \/ (d = 1 /\ i = 2) \/ new'[i] = old'[i]
  BY <1>1, <1>4, <1>5 DEF Put, IsWord, Data, All
<1>7. SetRight'
  BY <1>1, <1>4, <1>5, <1>6 DEF SetRight, OneSwitch, Valid, All, Sum
<1> QED BY <1>4, <1>7 DEF SwitchesInv

\* A reset promises nothing of what it leaves when it is cut short.
LEMMA ResetBegins == ASSUME SwitchesInv, Reset PROVE SwitchesInv'
<1>1. Defaults(sw[4]) \in [All -> Byte]
  BY SwitchAssumption DEF Defaults, SwitchesInv, TypeOK, All, Data
<1>2. Update("reset", Defaults(sw[4]))
  BY DEF Reset
<1>3. TypeOK' /\ StatusHonest' /\ WritingRight'
  BY <1>1, <1>2, UpdateRight DEF SwitchesInv
<1>4. SetRight'
  BY <1>2 DEF SetRight, Update
<1> QED BY <1>3, <1>4 DEF SwitchesInv

\* The next byte.
LEMMA WriteRight == ASSUME SwitchesInv, WriteByte PROVE SwitchesInv'
<1> USE DEF SwitchesInv, WriteByte
<1>1. /\ at \in All /\ sw = new /\ sw[4] = Sum(sw) /\ kind # "none" /\ Written(at)
      /\ sw \in [All -> Byte] /\ nv \in [All -> Byte] /\ at' = at + 1
  BY DEF WritingRight, TypeOK, Idle, All
<1>2. \A i \in All : nv'[i] = IF i < at' THEN new[i] ELSE old[i]
  BY <1>1 DEF Written, All
<1>3. TypeOK'
  BY <1>1 DEF TypeOK, Idle, All
<1>4. WritingRight'
  BY <1>1, <1>2 DEF WritingRight, Written, Sum
<1>5. StatusHonest'
  <2> SUFFICES ASSUME at' = Idle, sw[0] = W PROVE nv' = sw /\ Valid(nv)'
    BY DEF StatusHonest
  <2>1. nv' \in [All -> Byte] /\ \A i \in All : nv'[i] = sw[i]
    BY <1>1, <1>2, <1>3 DEF TypeOK, Idle, All
  <2>2. nv' = sw
    BY <1>1, <2>1
  <2> QED BY <1>1, <2>2 DEF Valid, Sum
<1>6. SetRight'
  <2>1. kind' = "set" => kind = "set"
    OBVIOUS
  <2>2. at' \in All \cup {5}
    BY <1>1 DEF All
  <2> QED BY <1>2, <2>1, <2>2 DEF SetRight, OneSwitch, Written, Sum
<1> QED BY <1>3, <1>4, <1>5, <1>6

\* A byte that fails is written or not; the status says that something is wrong.
LEMMA FailRight == ASSUME SwitchesInv, WriteFails PROVE SwitchesInv'
<1> USE DEF SwitchesInv, WriteFails
<1>1. at \in All /\ sw = new /\ Written(at) /\ sw \in [All -> Byte] /\ nv \in [All -> Byte]
  BY DEF WritingRight, TypeOK, Idle, All
<1>2. \E k \in All \cup {5} : \A i \in All : nv'[i] = IF i < k THEN new[i] ELSE old[i]
  <2>1. at + 1 \in All \cup {5}
    BY <1>1 DEF All
  <2>2. CASE nv' = [nv EXCEPT ![at] = nv[at]]
    BY <1>1, <2>2 DEF Written
  <2>3. CASE nv' = [nv EXCEPT ![at] = sw[at]]
    <3>1. \A i \in All : nv'[i] = IF i < at + 1 THEN new[i] ELSE old[i]
      BY <1>1, <2>3 DEF Written, All
    <3> QED BY <2>1, <3>1
  <2> QED BY <2>2, <2>3
<1>3. TypeOK'
  BY <1>1, SwitchAssumption DEF TypeOK, Idle, All
<1>4. WritingRight' /\ StatusHonest'
  BY <1>1, SwitchAssumption DEF WritingRight, StatusHonest, All
<1>5. SetRight'
  BY <1>2 DEF SetRight, OneSwitch, Written, Sum
<1> QED BY <1>3, <1>4, <1>5

\* No operation breaks the invariant.
LEMMA SwitchesStepRight == SwitchesInv /\ [Next]_vars => SwitchesInv'
<1> SUFFICES ASSUME SwitchesInv, [Next]_vars PROVE SwitchesInv'
  OBVIOUS
<1>1. CASE UNCHANGED vars
  BY <1>1 DEF vars, SwitchesInv, TypeOK, StatusHonest, WritingRight, SetRight, OneSwitch,
              Written, Valid, Sum
<1> QED BY <1>1, BootRight, SetBegins, ResetBegins, WriteRight, FailRight DEF Next

\* The inductive invariant of the switches.
THEOREM SwitchesInvariantHolds == Spec => []SwitchesInv
<1>1. Init => SwitchesInv
  BY SwitchAssumption
  DEF Init, SwitchesInv, TypeOK, StatusHonest, WritingRight, SetRight, Idle
<1> QED BY <1>1, SwitchesStepRight, PTL DEF Spec

\* Every variable keeps its type.
THEOREM SwitchesTypesRight == Spec => []TypeOK
<1>1. SwitchesInv => TypeOK
  BY DEF SwitchesInv
<1> QED BY <1>1, SwitchesInvariantHolds, PTL

\* What the status says is true, and lasts.
THEOREM StoredIsStored == Spec => []StatusHonest
<1>1. SwitchesInv => StatusHonest
  BY DEF SwitchesInv
<1> QED BY <1>1, SwitchesInvariantHolds, PTL

\* No SET that is cut short is taken for switches nobody has set.
THEOREM TornSetsAreSeen == Spec => []TornSetIsSeen
<1> QED BY TornIsSeen, SwitchesInvariantHolds, PTL
==============================================================================
