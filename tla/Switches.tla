------------------------------ MODULE Switches ------------------------------
(***************************************************************************)
(* The NVRAM switches (src/Source/HBIOS/hbios.asm): four bytes and their   *)
(* checksum, kept in the configuration block (sw) and in the NVRAM of the  *)
(* clock (nv), to which they are written byte by byte; a write may fail,   *)
(* and the power may, at any time.  A byte is the set of its one bits, so  *)
(* that XOR is the symmetric difference.                                   *)
(***************************************************************************)
EXTENDS Naturals

CONSTANTS Bit,
          W,         \* 'W', the signature in byte 0
          One,       \* 1: there is NVRAM, but nothing valid in it
          Version,   \* the two version bytes the checksum includes, XORed
          Image,     \* CB_SWITCHES to CB_SW_CKSUM as in the ROM
          Default    \* NVSW_DEFAULT

Byte == SUBSET Bit
Data == 0..3         \* NVSW_SIZE bytes
All == 0..4          \* and the checksum
Idle == 5            \* no byte left to write

ASSUME SwitchAssumption ==
  /\ W \in Byte /\ One \in Byte /\ W # {} /\ One # {} /\ W # One
  /\ Version \in Byte
  /\ Image \in [All -> Byte] /\ Image[0] = {}
  /\ Default \in [Data -> Byte] /\ Default[0] = W

VARIABLES sw,    \* the configuration block
          nv,    \* the NVRAM
          at,    \* the byte NVSW_WRITE writes next, or Idle
          kind,  \* ghost: what kind of update NVRAM was last left in
          old,   \* ghost: NVRAM when that update began
          new    \* ghost: what the update was to store

vars == <<sw, nv, at, kind, old, new>>

TypeOK == /\ sw \in [All -> Byte] /\ nv \in [All -> Byte]
          /\ at \in 0..Idle
          /\ kind \in {"none", "set", "reset"}
          /\ old \in [All -> Byte] /\ new \in [All -> Byte]

---------------------------------------------------------------------------
Xor(a, b) == (a \ b) \cup (b \ a)
\* NVSW_CHECKSUM.
Sum(s) == Xor(Xor(Xor(Xor(s[0], s[1]), s[2]), s[3]), Version)
Summed(s) == [s EXCEPT ![4] = Sum(s)]

\* Bug: the checksum is not compared.
SignatureOnly(s) == s[0] = W
\* What NVR_INIT accepts.
Valid(s) == s[0] = W /\ s[4] = Sum(s)

\* NVSW_DEFAULTS with checksum c.
Defaults(c) == [i \in All |-> IF i = 4 THEN c ELSE Default[i]]

\* The end of NVR_INIT when nothing valid was read.
Uninitialised(c) == [Defaults(c) EXCEPT ![0] = One]

\* SWITCH_TAB: only switch 1 is a word.
IsWord(d) == d = 1

\* The block with switch d set.
Put(d, lo, hi) == [i \in All |-> IF i = d THEN lo
                                 ELSE IF i = d + 1 /\ IsWord(d) THEN hi
                                 ELSE sw[i]]

Init == /\ sw = Image /\ nv \in [All -> Byte] /\ at = Idle
        /\ kind = "none" /\ old = nv /\ new = nv

\* Power on or a cold start, whatever HBIOS was doing: it is loaded anew and
\* reads the NVRAM.  There may be none, or reading it fails half-way.
Boot ==
  /\ \/ sw' = Image /\ UNCHANGED kind
     \/ sw' = Uninitialised(Image[4]) /\ UNCHANGED kind
     \/ IF Valid(nv) THEN sw' = nv /\ kind' = "none"
                     ELSE sw' = Uninitialised(nv[4]) /\ UNCHANGED kind
  /\ at' = Idle
  /\ UNCHANGED <<nv, old, new>>

\* NVSW_UPDATE of a block s, up to the first byte written.
Update(k, s) == /\ sw' = Summed(s) /\ new' = Summed(s)
                /\ at' = 0
                /\ kind' = k /\ old' = nv
                /\ UNCHANGED nv

\* SYS_SETSWITCH.  The header is switch 0, and taken like any other.
SetSwitch(d, lo, hi) ==
  /\ at = Idle
  /\ sw[0] = W
  /\ Update("set", Put(d, lo, hi))

\* Switch $FF: NVSW_RESET.
Reset == /\ at = Idle
         /\ sw[0] # {}
         /\ Update("reset", Defaults(sw[4]))

\* NVSW_WRITE, one round of its loop.
WriteByte ==
  /\ at # Idle
  /\ nv' = [nv EXCEPT ![at] = sw[at]]
  /\ at' = at + 1
  /\ kind' = IF at' = Idle THEN "none" ELSE kind
  /\ UNCHANGED <<sw, old, new>>

\* Bug: the signature stays when the clock refuses the byte.
WriteFailsQuietly ==
  /\ at # Idle
  /\ \E b \in {nv[at], sw[at]} : nv' = [nv EXCEPT ![at] = b]
  /\ at' = Idle
  /\ UNCHANGED <<sw, kind, old, new>>
\* The clock reports an error; the byte may be stored or not.
WriteFails ==
  /\ at # Idle
  /\ \E b \in {nv[at], sw[at]} : nv' = [nv EXCEPT ![at] = b]
  /\ at' = Idle
  /\ sw' = [sw EXCEPT ![0] = One]
  /\ UNCHANGED <<kind, old, new>>

Next == \/ Boot
        \/ \E d \in Data, lo \in Byte, hi \in Byte : SetSwitch(d, lo, hi)
        \/ Reset
        \/ WriteByte
        \/ WriteFails

Spec == Init /\ [][Next]_vars

---------------------------------------------------------------------------
\* While the status is 'W' the switches in use are those in the NVRAM, and
\* NVR_INIT will accept them: what SYS_SETSWITCH said was stored survives
\* failed writes, resets and power failures that come after it.
StatusHonest == at = Idle /\ sw[0] = W => nv = sw /\ Valid(nv)

Same(s, t) == \A i \in Data : s[i] = t[i]

\* A SYS_SETSWITCH that power or clock cut short leaves in the NVRAM the
\* switches from before, or those from after, or something NVR_INIT rejects.
\* (Not so NVSW_RESET, which may change three bytes: changes of two of them
\* can cancel out in the checksum.)
TornSetIsSeen == kind = "set" /\ Valid(nv) => Same(nv, old) \/ Same(nv, new)
============================================================================
