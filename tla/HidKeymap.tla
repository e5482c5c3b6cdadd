----------------------------- MODULE HidKeymap ------------------------------
(***************************************************************************)
(* From the scan codes of a USB keyboard to characters                     *)
(* (ch376-native/source-doc/keyboard/class_hid_keyboard.c), characters as  *)
(* their ASCII codes.                                                      *)
(***************************************************************************)
EXTENDS Integers, Sequences

Code == 0..127
Ascii == 0..127
Letter == 97..122          \* 'a'..'z'
Capital == 65..90

CapsLock == 57             \* KEY_CODE_CAPS_LOCK

\* scancodes_table and scancodes_shift_table from the digits (0x1E) to the
\* slash (0x38), and the keypad (0x54 to 0x63) that both have in common.
Plain == <<49, 50, 51, 52, 53, 54, 55, 56, 57, 48, 13, 27, 8, 9, 32,
           45, 61, 91, 93, 92, 35, 59, 39, 96, 44, 46, 47>>
Shifted == <<33, 64, 35, 36, 37, 94, 38, 42, 40, 41, 13, 27, 8, 9, 32,
             95, 43, 123, 125, 124, 126, 58, 34, 126, 60, 62, 63>>
Keypad == <<47, 42, 45, 43, 13, 49, 50, 51, 52, 53, 54, 55, 56, 57, 48, 46, 92>>

\* Everything else is 0: no character.
Table(letterA, row, code) ==
  IF code \in 4..29 THEN letterA + code - 4
  ELSE IF code \in 30..56 THEN row[code - 29]
  ELSE IF code \in 84..100 THEN Keypad[code - 83]
  ELSE IF code = 103 THEN 61
  ELSE 0

\* char_with_caps_lock.
WithCapsLock(c, caps) == IF ~caps THEN c
                         ELSE IF c \in Capital THEN c + 32
                         ELSE IF c \in Letter THEN c - 32
                         ELSE c

\* The keys other than letters that Ctrl knows, and what it makes of them.
CtrlKey == [c \in {31, 35, 44, 45, 47, 48, 49} |->
              CASE c = 47 -> 27 [] c = 49 -> 28 [] c = 48 -> 29
                [] c = 35 -> 30 [] c = 45 -> 31 [] OTHER -> 0]

\* Bug: the codes of the letters are taken to begin at 3.
ScancodeToCharOff(ctrl, shift, code, caps) ==
  IF ctrl /\ code \in 4..29 THEN code - 2
  ELSE IF ctrl /\ code \in DOMAIN CtrlKey THEN CtrlKey[code]
  ELSE WithCapsLock(IF shift THEN Table(65, Shifted, code)
                             ELSE Table(97, Plain, code), caps)
\* scancode_to_char: 0 is no character, Ctrl comes before Shift, and a key
\* Ctrl does not know is typed as without it.
ScancodeToChar(ctrl, shift, code, caps) ==
  IF ctrl /\ code \in 4..29 THEN code - 3
  ELSE IF ctrl /\ code \in DOMAIN CtrlKey THEN CtrlKey[code]
  ELSE WithCapsLock(IF shift THEN Table(65, Shifted, code)
                             ELSE Table(97, Plain, code), caps)

---------------------------------------------------------------------------
Typed(shift, caps) == {ScancodeToChar(FALSE, shift, code, caps) : code \in Code}

\* For each state of caps lock: every printable character can be typed; caps
\* lock touches the letter keys alone and gives them their other case; and what
\* Ctrl makes of a key, if anything, is the low five bits of a character the key
\* types, so that the rows of CtrlKey are in the right place.
Sound ==
  [caps \in BOOLEAN |->
     /\ 32..126 \subseteq Typed(FALSE, caps) \cup Typed(TRUE, caps)
     /\ \A code \in Code, shift \in BOOLEAN :
          LET c == ScancodeToChar(FALSE, shift, code, ~caps)
              d == ScancodeToChar(FALSE, shift, code, caps)
          IN IF c \in Letter \cup Capital
               THEN d = ScancodeToChar(FALSE, ~shift, code, ~caps) /\ d # c
               ELSE d = c
     /\ \A code \in (4..29) \cup DOMAIN CtrlKey :
          LET c == ScancodeToChar(TRUE, FALSE, code, caps)
          IN c # 0 => \E shift \in BOOLEAN :
                        LET k == ScancodeToChar(FALSE, shift, code, caps)
                        IN k >= 64 /\ k % 32 = c]
=============================================================================
