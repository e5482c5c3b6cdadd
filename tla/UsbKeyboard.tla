---------------------------- MODULE UsbKeyboard -----------------------------
(***************************************************************************)
(* The USB keyboard (ch376-native/source-doc/keyboard/kyb_driver.c): a     *)
(* timer tick fetches a report of the keys that are down, compares it with *)
(* the one before and puts a character for every key that is new into a    *)
(* ring, which the program reads through HBIOS (ch376kyb.asm).             *)
(***************************************************************************)
EXTENDS HidKeymap

CONSTANTS Ring,    \* KEYBOARD_BUFFER_SIZE, a power of two
          Slots,   \* keys in a report
          Report   \* the reports the keyboard may send

NoKeys == [ctrl |-> FALSE, shift |-> FALSE, keyCode |-> [i \in 1..Slots |-> 0]]

ASSUME KeyboardAssumption ==
  /\ Ring \in Nat \ {0, 1} /\ Slots \in Nat \ {0}
  /\ Report \subseteq [ctrl : BOOLEAN, shift : BOOLEAN,
                       keyCode : [1..Slots -> 0..255]]
  /\ NoKeys \in Report

VARIABLES
  buffer, write_index, read_index,
  report, previous,
  caps_lock_engaged,
  indx,    \* the tick: slots of the report still to be looked at, 0 outside
  reading, \* the program is in usb_kyb_read, past the test for an empty ring
  got      \* what the last read returned

kbdvars == <<buffer, write_index, read_index, report, previous,
             caps_lock_engaged, indx, reading, got>>

Index == 0..Ring - 1

\* The characters that keys can give.
Char == {ScancodeToChar(ctrl, shift, code, caps) :
           ctrl \in BOOLEAN, shift \in BOOLEAN, code \in 1..127, caps \in BOOLEAN} \ {0}

KbdTypeOK ==
  /\ buffer \in [Index -> Char \cup {0}]
  /\ write_index \in Index /\ read_index \in Index
  /\ report \in Report /\ previous \in Report
  /\ caps_lock_engaged \in BOOLEAN
  /\ indx \in 0..Slots /\ reading \in BOOLEAN
  /\ got \in Char \cup {0}

KbdInit == /\ buffer = [i \in Index |-> 0] /\ write_index = 0 /\ read_index = 0
           /\ report = NoKeys /\ previous = NoKeys
           /\ caps_lock_engaged = TRUE
           /\ indx = 0 /\ reading = FALSE /\ got = 0

---------------------------------------------------------------------------
\* Bug: the index is compared with the size before the step.
BumpIndexLate(i) == IF i = Ring THEN 0 ELSE i + 1
\* (i + 1) & KEYBOARD_BUFFER_SIZE_MASK
BumpIndex(i) == (i + 1) % Ring

\* A report arrives that differs from the one before.
TickReport(r) ==
  /\ indx = 0
  /\ r # previous
  /\ report' = r /\ indx' = Slots
  /\ UNCHANGED <<buffer, write_index, read_index, previous,
                 caps_lock_engaged, reading, got>>

\* The key in the slot is not one that the driver types, or the same key was
\* in the same slot before.
Skip(code) == code = 0 \/ code >= 128 \/ previous.keyCode[indx] = code

\* Bug: the test for a full ring is missing.
StoreAlways(c) == /\ buffer' = [buffer EXCEPT ![write_index] = c]
                  /\ write_index' = BumpIndex(write_index)
\* Bug: the ring counts as full one cell early.
StoreEarly(c) ==
  IF c # 0 /\ BumpIndex(BumpIndex(write_index)) # read_index
    THEN /\ buffer' = [buffer EXCEPT ![write_index] = c]
         /\ write_index' = BumpIndex(write_index)
    ELSE UNCHANGED <<buffer, write_index>>
\* The character goes to the ring, if there is one and room for it.
Store(c) ==
  IF c # 0 /\ BumpIndex(write_index) # read_index
    THEN /\ buffer' = [buffer EXCEPT ![write_index] = c]
         /\ write_index' = BumpIndex(write_index)
    ELSE UNCHANGED <<buffer, write_index>>

\* keyboard_buf_put of the tick's next slot, the last one first.  After the
\* first the report is remembered.
KeyboardBufPut ==
  /\ indx > 0
  /\ LET code == report.keyCode[indx]
     IN IF Skip(code) THEN UNCHANGED <<buffer, write_index, caps_lock_engaged>>
        ELSE IF code = CapsLock
          THEN /\ caps_lock_engaged' = ~caps_lock_engaged
               /\ UNCHANGED <<buffer, write_index>>
        ELSE /\ Store(ScancodeToChar(report.ctrl, report.shift, code,
                                     caps_lock_engaged))
             /\ UNCHANGED caps_lock_engaged
  /\ indx' = indx - 1
  /\ previous' = IF indx = 1 THEN report ELSE previous
  /\ UNCHANGED <<read_index, report, reading, got>>

\* usb_kyb_status: how many characters wait.
Status == IF write_index >= read_index THEN write_index - read_index
                                       ELSE Ring - read_index + write_index

\* usb_kyb_read, as often as UKY_READ calls it: the ring is not empty.  A tick
\* may come before the interrupts are disabled.
ReadTest == /\ indx = 0 /\ ~reading
            /\ write_index # read_index
            /\ reading' = TRUE
            /\ UNCHANGED <<buffer, write_index, read_index, report, previous,
                           caps_lock_engaged, indx, got>>

ReadTake == /\ indx = 0 /\ reading
            /\ got' = buffer[read_index]
            /\ read_index' = BumpIndex(read_index)
            /\ reading' = FALSE
            /\ UNCHANGED <<buffer, write_index, report, previous,
                           caps_lock_engaged, indx>>

\* usb_kyb_flush.
Flush == /\ indx = 0 /\ ~reading
         /\ write_index' = 0 /\ read_index' = 0
         /\ report' = NoKeys /\ previous' = NoKeys
         /\ UNCHANGED <<buffer, caps_lock_engaged, indx, reading, got>>

Tick == (\E r \in Report : TickReport(r)) \/ KeyboardBufPut
KbdCall == ReadTest \/ ReadTake \/ Flush

KbdNext == Tick \/ KbdCall

KbdSpec == KbdInit /\ [][KbdNext]_kbdvars

---------------------------------------------------------------------------
\* The tables and the rules laid over them agree with each other and with ASCII,
\* as caps lock stands at any moment: all that can be printed can be typed, caps
\* lock exchanges the cases of the letters and nothing else, and Ctrl gives the
\* control character of the key (scancode_to_char).
KeymapRight == Sound[caps_lock_engaged]

Waiting == (write_index - read_index) % Ring
Queue == [i \in 1..Waiting |-> buffer[(read_index + i - 1) % Ring]]

\* The ring the tick writes and the program reads is a queue: characters come
\* out once each and in the order of the keys, and one that finds the ring full
\* is the one that is lost (keyboard_buf_put, usb_kyb_read, usb_kyb_flush).
IsKeyQueue == INSTANCE KeyQueue WITH Size <- Ring - 1, none <- 0,
                                     queue <- Queue, got <- got
ImplementsKeyQueue == IsKeyQueue!Spec

\* A key that is new in its slot and gives a character is typed while fewer than
\* Ring - 1 characters wait, whatever is stored and read in between.
NewKeyTyped ==
  [][indx > 0 /\ Waiting < Ring - 1 =>
       LET code == report.keyCode[indx]
           c == ScancodeToChar(report.ctrl, report.shift, code, caps_lock_engaged)
       IN Skip(code) \/ code = CapsLock \/ c = 0 \/ Queue' = Append(Queue, c)]_kbdvars

\* usb_kyb_status counts what is in the queue, on either side of the wrap, and
\* a read that has passed its test finds something whatever ticks come between.
StatusExact == Status = Waiting /\ (reading => Status > 0)
=============================================================================
