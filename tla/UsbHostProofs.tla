--------------------------- MODULE UsbHostProofs ----------------------------
(***************************************************************************)
(* For any ring, keyboard and disks: the ring of the USB keyboard is a     *)
(* queue of the keys typed, and no transfer of a disk is disturbed by the  *)
(* polls of the keyboard.                                                  *)
(***************************************************************************)
EXTENDS UsbHost, UsbDiskProofs

---------------------------------------------------------------------------
(* Arithmetic of the ring.                                                  *)

\* Indices step through the ring and begin anew at its end.
LEMMA BumpRight ==
  ASSUME NEW i \in Index
  PROVE  BumpIndex(i) \in Index /\ BumpIndex(i) = IF i + 1 = Ring THEN 0 ELSE i + 1
<1>1. Ring \in Nat \ {0, 1} /\ i \in 0..Ring - 1
  BY KeyboardAssumption DEF Index
<1> QED BY <1>1 DEF BumpIndex, Index

\* A sum of two indices lies on this round of the ring or on the next.
LEMMA WrapRight ==
  ASSUME NEW a \in Index, NEW b \in Index
  PROVE  /\ (a + b) % Ring \in Index
         /\ (a + b) % Ring = IF a + b < Ring THEN a + b ELSE a + b - Ring
<1>1. Ring \in Nat \ {0, 1} /\ a \in 0..Ring - 1 /\ b \in 0..Ring - 1
  BY KeyboardAssumption DEF Index
<1> QED BY <1>1 DEF Index

\* How many characters wait, without the division.
WaitingIs ==
  /\ Waiting \in Index
  /\ Waiting = IF write_index >= read_index THEN write_index - read_index
                                            ELSE Ring - read_index + write_index

LEMMA WaitingRight == KbdTypeOK => WaitingIs
<1> SUFFICES ASSUME KbdTypeOK PROVE WaitingIs
  OBVIOUS
<1>1. /\ Ring \in Nat \ {0, 1}
      /\ write_index \in 0..Ring - 1 /\ read_index \in 0..Ring - 1
  BY KeyboardAssumption DEF KbdTypeOK, Index
<1> QED BY <1>1 DEF Index, Waiting, WaitingIs

---------------------------------------------------------------------------
(* The keyboard.                                                            *)

\* A read that has passed its test finds the ring not empty.
KbdInv == KbdTypeOK /\ (reading => write_index # read_index)

LEMMA KbdInitRight == KbdInit => KbdInv
<1> SUFFICES ASSUME KbdInit PROVE KbdInv
  OBVIOUS
<1>1. 0 \in Index /\ 0 \in 0..Slots
  BY KeyboardAssumption DEF Index
<1>2. buffer \in [Index -> Char \cup {0}] /\ write_index \in Index /\ read_index \in Index
  BY <1>1 DEF KbdInit
<1>3. report \in Report /\ previous \in Report
  BY KeyboardAssumption DEF KbdInit
<1> QED BY <1>1, <1>2, <1>3 DEF KbdInit, KbdInv, KbdTypeOK

\* The key of a slot, when it is not skipped, gives a character or none.
LEMMA KeyRight ==
  ASSUME KbdTypeOK, indx > 0, ~Skip(report.keyCode[indx])
  PROVE  ScancodeToChar(report.ctrl, report.shift, report.keyCode[indx], caps_lock_engaged)
           \in Char \cup {0}
<1>1. indx \in 1..Slots /\ Slots \in Nat
  BY KeyboardAssumption DEF KbdTypeOK
<1>2. report \in [ctrl : BOOLEAN, shift : BOOLEAN, keyCode : [1..Slots -> 0..255]]
  BY KeyboardAssumption DEF KbdTypeOK
<1>3. report.keyCode[indx] \in 0..255 /\ report.ctrl \in BOOLEAN /\ report.shift \in BOOLEAN
  BY <1>1, <1>2
<1>4. report.keyCode[indx] \in 1..127
  BY <1>3 DEF Skip
<1>5. caps_lock_engaged \in BOOLEAN
  BY DEF KbdTypeOK
<1> QED BY <1>3, <1>4, <1>5 DEF Char

\* What a slot of the report does to the ring: nothing, or it stores the
\* character of a key that is not skipped.
LEMMA PutStores ==
  ASSUME KbdInv, KeyboardBufPut
  PROVE  \/ UNCHANGED <<buffer, write_index>>
         \/ \E c \in Char : /\ BumpIndex(write_index) # read_index
                            /\ buffer' = [buffer EXCEPT ![write_index] = c]
                            /\ write_index' = BumpIndex(write_index)
<1> DEFINE code == report.keyCode[indx]
           c == ScancodeToChar(report.ctrl, report.shift, code, caps_lock_engaged)
<1>1. CASE Skip(code) \/ code = CapsLock
  BY <1>1 DEF KeyboardBufPut
<1>2. CASE ~Skip(code) /\ code # CapsLock
  <2>1. Store(c)
    BY <1>2 DEF KeyboardBufPut
  <2>2. c \in Char \cup {0}
    BY <1>2, KeyRight DEF KbdInv, KeyboardBufPut
  <2> HIDE DEF c, code
  <2> QED BY <2>1, <2>2 DEF Store
<1> QED BY <1>1, <1>2

LEMMA PutRight == ASSUME KbdInv, KeyboardBufPut PROVE KbdInv'
<1> USE DEF KbdInv
<1>1. /\ write_index' \in Index /\ buffer' \in [Index -> Char \cup {0}]
      /\ reading => write_index' # read_index
  BY PutStores, BumpRight DEF KbdTypeOK
<1>2. indx' \in 0..Slots
  BY KeyboardAssumption DEF KbdTypeOK, KeyboardBufPut
<1>3. previous' \in Report
  BY DEF KbdTypeOK, KeyboardBufPut
<1>4. caps_lock_engaged' \in BOOLEAN
  BY Zenon DEF KbdTypeOK, KeyboardBufPut
<1> QED BY <1>1, <1>2, <1>3, <1>4 DEF KbdTypeOK, KeyboardBufPut

LEMMA KbdStepRight == KbdInv /\ [KbdNext]_kbdvars => KbdInv'
<1> SUFFICES ASSUME KbdInv, [KbdNext]_kbdvars PROVE KbdInv'
  OBVIOUS
<1>1. ASSUME NEW r \in Report, TickReport(r) PROVE KbdInv'
  BY <1>1, KeyboardAssumption DEF KbdInv, KbdTypeOK, TickReport
<1>2. CASE KeyboardBufPut
  BY <1>2, PutRight
<1>3. CASE ReadTest
  BY <1>3 DEF KbdInv, KbdTypeOK, ReadTest
<1>4. CASE ReadTake
  BY <1>4, BumpRight DEF KbdInv, KbdTypeOK, ReadTake
<1>5. CASE Flush
  BY <1>5, KeyboardAssumption DEF KbdInv, KbdTypeOK, Flush, Index
<1>6. CASE UNCHANGED kbdvars
  BY <1>6 DEF KbdInv, KbdTypeOK, kbdvars
<1> QED BY <1>1, <1>2, <1>3, <1>4, <1>5, <1>6 DEF KbdNext, Tick, KbdCall

---------------------------------------------------------------------------
(* The ring is a queue.                                                     *)

QueueIs ==
  /\ Queue \in Seq(Char \cup {0}) /\ Len(Queue) = Waiting
  /\ \A i \in 1..Waiting : Queue[i] = buffer[(read_index + (i - 1)) % Ring]

LEMMA QueueRight == KbdTypeOK => QueueIs
<1> SUFFICES ASSUME KbdTypeOK PROVE QueueIs
  OBVIOUS
<1>1. Waiting \in Index /\ read_index \in Index /\ Ring \in Nat
  BY WaitingRight, KeyboardAssumption DEF KbdTypeOK, WaitingIs
<1>2. Waiting \in Nat /\ Waiting < Ring
  BY <1>1 DEF Index
<1>3. ASSUME NEW i \in 1..Waiting
      PROVE  /\ (read_index + (i - 1)) % Ring \in Index
             /\ read_index + i - 1 = read_index + (i - 1)
  <2>1. i - 1 \in Index /\ read_index + i - 1 = read_index + (i - 1)
    BY <1>1, <1>2 DEF Index
  <2> QED BY <1>1, <2>1, WrapRight
<1>4. Queue = [i \in 1..Waiting |-> buffer[(read_index + (i - 1)) % Ring]]
  BY <1>3 DEF Queue
<1>5. Queue \in [1..Waiting -> Char \cup {0}]
  BY <1>3, <1>4 DEF KbdTypeOK
<1>6. Queue \in Seq(Char \cup {0}) /\ Len(Queue) = Waiting
  BY <1>2, <1>5
<1> QED BY <1>4, <1>6 DEF QueueIs

\* The queue is the same when the ring and its indices are.
LEMMA QueueKept ==
  ASSUME UNCHANGED <<buffer, write_index, read_index>> PROVE Queue' = Queue
BY DEF Queue, Waiting

\* A character stored comes last, behind those that wait.
LEMMA StoreAppends ==
  ASSUME KbdInv, KbdInv', NEW c \in Char,
         BumpIndex(write_index) # read_index,
         buffer' = [buffer EXCEPT ![write_index] = c],
         write_index' = BumpIndex(write_index),
         UNCHANGED read_index
  PROVE  Waiting < Ring - 1 /\ Len(Queue) < Ring - 1 /\ Queue' = Append(Queue, c)
<1>1. /\ Ring \in Nat \ {0, 1}
      /\ write_index \in 0..Ring - 1 /\ read_index \in 0..Ring - 1
      /\ write_index \in Index /\ read_index \in Index
      /\ buffer \in [Index -> Char \cup {0}]
      /\ write_index' = IF write_index + 1 = Ring THEN 0 ELSE write_index + 1
  BY KeyboardAssumption, BumpRight DEF KbdInv, KbdTypeOK, Index
<1>2. WaitingIs /\ WaitingIs' /\ QueueIs /\ QueueIs'
  BY WaitingRight, QueueRight, PTL DEF KbdInv
<1>3. Waiting' = Waiting + 1 /\ Waiting < Ring - 1 /\ Waiting \in 0..Ring - 1
  BY <1>1, <1>2 DEF WaitingIs, Index
<1>4. /\ Append(Queue, c) \in Seq(Char \cup {0}) /\ Len(Append(Queue, c)) = Waiting + 1
      /\ \A i \in 1..Waiting : Append(Queue, c)[i] = Queue[i]
      /\ Append(Queue, c)[Waiting + 1] = c
  BY <1>2, <1>3, AppendProperties DEF QueueIs
<1>5. ASSUME NEW i \in 1..Waiting + 1 PROVE Queue'[i] = Append(Queue, c)[i]
  <2> DEFINE at == (read_index + (i - 1)) % Ring
  <2>1. i - 1 \in Index /\ i \in 1..Waiting'
    BY <1>1, <1>3 DEF Index
  <2>2. at \in Index /\ at = IF read_index + (i - 1) < Ring THEN read_index + (i - 1)
                             ELSE read_index + (i - 1) - Ring
    BY <1>1, <2>1, WrapRight
  <2>3. Queue'[i] = buffer'[at]
    BY <1>2, <2>1 DEF QueueIs
  <2> HIDE DEF at
  <2>4. at = write_index <=> i = Waiting + 1
    BY <1>1, <1>2, <1>3, <2>2 DEF WaitingIs
  <2>5. i # Waiting + 1 => i \in 1..Waiting /\ Queue[i] = buffer[at]
    <3> SUFFICES ASSUME i # Waiting + 1 PROVE i \in 1..Waiting /\ Queue[i] = buffer[at]
      OBVIOUS
    <3>1. i \in 1..Waiting
      BY <1>3
    <3> QED BY <3>1, <1>2 DEF QueueIs, at
  <2> QED BY <1>1, <1>4, <2>2, <2>3, <2>4, <2>5
<1>6. Queue' \in Seq(Char \cup {0}) /\ Len(Queue') = Waiting + 1
  BY <1>2, <1>3 DEF QueueIs
<1>7. Queue' = Append(Queue, c)
  BY <1>4, <1>5, <1>6, SeqEqual
<1> QED BY <1>2, <1>3, <1>7 DEF QueueIs

\* A character taken was the first.
LEMMA TakeIsHead ==
  ASSUME KbdInv, KbdInv', ReadTake
  PROVE  Queue # <<>> /\ got' = Head(Queue) /\ Queue' = Tail(Queue)
<1>1. /\ Ring \in Nat \ {0, 1} /\ write_index # read_index
      /\ write_index \in 0..Ring - 1 /\ read_index \in 0..Ring - 1
      /\ read_index \in Index /\ read_index' \in Index
      /\ UNCHANGED <<write_index, buffer>>
      /\ read_index' = IF read_index + 1 = Ring THEN 0 ELSE read_index + 1
  BY KeyboardAssumption, BumpRight DEF KbdInv, KbdTypeOK, Index, ReadTake
<1>2. WaitingIs /\ WaitingIs' /\ QueueIs /\ QueueIs'
  BY WaitingRight, QueueRight, PTL DEF KbdInv
<1>3. Waiting' = Waiting - 1 /\ Waiting \in 1..Ring - 1
  BY <1>1, <1>2 DEF WaitingIs, Index
<1>4. Queue \in Seq(Char \cup {0}) /\ Len(Queue) = Waiting /\ Queue # <<>>
  BY <1>2, <1>3 DEF QueueIs
<1>5. got' = Head(Queue)
  <2>1. Queue[1] = buffer[(read_index + (1 - 1)) % Ring]
    BY <1>2, <1>3 DEF QueueIs
  <2>2. (read_index + (1 - 1)) % Ring = read_index
    BY <1>1
  <2> QED BY <1>4, <2>1, <2>2 DEF ReadTake
<1>6. /\ Tail(Queue) \in Seq(Char \cup {0}) /\ Len(Tail(Queue)) = Waiting - 1
      /\ \A i \in 1..Waiting - 1 : Tail(Queue)[i] = Queue[i + 1]
  BY <1>4, HeadTailProperties
<1>7. ASSUME NEW i \in 1..Waiting - 1 PROVE Queue'[i] = Tail(Queue)[i]
  <2>1. /\ i \in Index /\ i - 1 \in Index /\ (i + 1) - 1 = i
        /\ i + 1 \in 1..Waiting /\ i \in 1..Waiting'
    BY <1>1, <1>3 DEF Index
  <2>2. (read_index + i) % Ring = IF read_index + i < Ring THEN read_index + i
                                  ELSE read_index + i - Ring
    BY <1>1, <2>1, WrapRight
  <2>3. (read_index' + (i - 1)) % Ring = IF read_index' + (i - 1) < Ring THEN read_index' + (i - 1)
                                         ELSE read_index' + (i - 1) - Ring
    BY <1>1, <2>1, WrapRight
  <2>4. (read_index' + (i - 1)) % Ring = (read_index + i) % Ring
    BY <1>1, <1>3, <2>2, <2>3
  <2>5. Queue'[i] = buffer[(read_index' + (i - 1)) % Ring]
    BY <1>1, <1>2, <2>1 DEF QueueIs
  <2>6. Queue[i + 1] = buffer[(read_index + i) % Ring]
    BY <1>2, <2>1 DEF QueueIs
  <2> QED BY <1>6, <2>4, <2>5, <2>6
<1>8. Queue' \in Seq(Char \cup {0}) /\ Len(Queue') = Waiting - 1
  BY <1>2, <1>3 DEF QueueIs
<1>9. Queue' = Tail(Queue)
  BY <1>6, <1>7, <1>8, SeqEqual
<1> QED BY <1>4, <1>5, <1>9

\* What a step of the keyboard does to the queue and to the last character.
LEMMA KeyStepImplements ==
  KbdInv /\ [KbdNext]_kbdvars => [IsKeyQueue!Next]_<<Queue, got>>
<1> SUFFICES ASSUME KbdInv, [KbdNext]_kbdvars PROVE [IsKeyQueue!Next]_<<Queue, got>>
  OBVIOUS
<1>0. KbdInv'
  BY KbdStepRight
<1>1. ASSUME NEW r \in Report, TickReport(r) PROVE UNCHANGED <<Queue, got>>
  BY <1>1, QueueKept DEF TickReport
<1>2. CASE KeyboardBufPut
  <2>1. UNCHANGED <<read_index, got>>
    BY <1>2 DEF KeyboardBufPut
  <2>2. CASE UNCHANGED <<buffer, write_index>>
    BY <2>1, <2>2, QueueKept
  <2>3. ASSUME NEW c \in Char, BumpIndex(write_index) # read_index,
               buffer' = [buffer EXCEPT ![write_index] = c],
               write_index' = BumpIndex(write_index)
        PROVE  IsKeyQueue!Type(c)
    BY <1>0, <2>1, <2>3, StoreAppends DEF IsKeyQueue!Type
  <2> QED BY <1>2, <2>2, <2>3, PutStores DEF IsKeyQueue!Next
<1>3. CASE ReadTest
  BY <1>3, QueueKept DEF ReadTest
<1>4. CASE ReadTake
  BY <1>0, <1>4, TakeIsHead DEF IsKeyQueue!Next, IsKeyQueue!Deliver
<1>5. CASE Flush
  <2>1. QueueIs' /\ WaitingIs'
    BY <1>0, WaitingRight, QueueRight, PTL DEF KbdInv
  <2>2. Waiting' = 0
    BY <1>5, <2>1 DEF Flush, WaitingIs
  <2>3. Queue' = <<>>
    BY <2>1, <2>2, EmptySeq DEF QueueIs
  <2> QED BY <1>5, <2>3 DEF Flush, IsKeyQueue!Next, IsKeyQueue!Purge
<1>6. CASE UNCHANGED kbdvars
  BY <1>6, QueueKept DEF kbdvars
<1> QED BY <1>1, <1>2, <1>3, <1>4, <1>5, <1>6 DEF KbdNext, Tick, KbdCall

\* A key that is new is typed if fewer than Ring - 1 characters wait.
LEMMA KeyStepTypes ==
  ASSUME KbdInv, KbdNext, indx > 0, Waiting < Ring - 1,
         ~Skip(report.keyCode[indx]), report.keyCode[indx] # CapsLock,
         ScancodeToChar(report.ctrl, report.shift, report.keyCode[indx],
                        caps_lock_engaged) # 0
  PROVE  Queue' = Append(Queue, ScancodeToChar(report.ctrl, report.shift,
                                               report.keyCode[indx], caps_lock_engaged))
<1> DEFINE code == report.keyCode[indx]
           c == ScancodeToChar(report.ctrl, report.shift, code, caps_lock_engaged)
<1>1. indx # 0
  OBVIOUS
<1>2. KeyboardBufPut
  BY <1>1 DEF KbdNext, Tick, KbdCall, TickReport, ReadTest, ReadTake, Flush
<1>3. c \in Char
  BY KeyRight DEF KbdInv
<1>4. Store(c) /\ UNCHANGED read_index
  BY <1>2 DEF KeyboardBufPut
<1>5. BumpIndex(write_index) # read_index
  <2>1. WaitingIs /\ write_index \in Index /\ read_index \in Index
    BY WaitingRight DEF KbdInv, KbdTypeOK
  <2>2. Ring \in Nat \ {0, 1}
    BY KeyboardAssumption
  <2> QED BY <2>1, <2>2, BumpRight DEF WaitingIs, Index
<1>6. c # 0
  OBVIOUS
<1>7. KbdInv'
  BY KbdStepRight
<1> HIDE DEF c
<1>8. /\ buffer' = [buffer EXCEPT ![write_index] = c]
      /\ write_index' = BumpIndex(write_index)
  BY <1>4, <1>5, <1>6 DEF Store
<1>9. Queue' = Append(Queue, c)
  BY <1>3, <1>4, <1>5, <1>7, <1>8, StoreAppends
<1> QED BY <1>9 DEF c

---------------------------------------------------------------------------
(* Keyboard and disks together.                                             *)

\* Whatever the disks do, the keyboard makes its own steps or none.
LEMMA KbdProjects == [Next]_vars => [KbdNext]_kbdvars
BY DEF Next, vars, TickPoll, TickPut, ProgramKeyboard, ProgramDisk, KbdNext, Tick

LEMMA KbdHolds == Spec => []KbdInv
<1>1. Init => KbdInv
  BY KbdInitRight DEF Init
<1> QED BY <1>1, KbdProjects, KbdStepRight, PTL DEF Spec

\* usb_kyb_status counts the characters that wait, and the test that
\* usb_kyb_read makes before it takes one still holds when it does.
THEOREM StatusIsExact == Spec => []StatusExact
<1>1. KbdInv => StatusExact
  <2> SUFFICES ASSUME KbdInv PROVE StatusExact
    OBVIOUS
  <2>1. WaitingIs /\ write_index \in Index /\ read_index \in Index
    BY WaitingRight DEF KbdInv, KbdTypeOK
  <2>2. Ring \in Nat \ {0, 1}
    BY KeyboardAssumption
  <2> QED BY <2>1, <2>2 DEF KbdInv, StatusExact, Status, WaitingIs, Index
<1> QED BY <1>1, KbdHolds, PTL

\* The ring of the keyboard is a queue for any size of the ring and any keyboard.
THEOREM KeyboardIsQueue == Spec => ImplementsKeyQueue
<1>1. Init => IsKeyQueue!Init
  <2> SUFFICES ASSUME Init PROVE IsKeyQueue!Init
    OBVIOUS
  <2>1. KbdInv /\ write_index = 0 /\ read_index = 0 /\ got = 0
    BY KbdInitRight DEF Init, KbdInit
  <2>2. WaitingIs /\ QueueIs
    BY <2>1, WaitingRight, QueueRight DEF KbdInv
  <2>3. Waiting = 0
    BY <2>1, <2>2 DEF WaitingIs
  <2>4. Queue = <<>>
    BY <2>2, <2>3, EmptySeq DEF QueueIs
  <2> QED BY <2>1, <2>4 DEF IsKeyQueue!Init
<1> QED BY <1>1, KbdHolds, KbdProjects, KeyStepImplements, PTL
        DEF Spec, ImplementsKeyQueue, IsKeyQueue!Spec

\* No key that is new is lost while the ring has room for it.
THEOREM NewKeysTyped == Spec => NewKeyTyped
<1> DEFINE code == report.keyCode[indx]
           c == ScancodeToChar(report.ctrl, report.shift, code, caps_lock_engaged)
           NowTyped == indx > 0 /\ Waiting < Ring - 1 =>
                      Skip(code) \/ code = CapsLock \/ c = 0 \/ Queue' = Append(Queue, c)
<1>1. KbdInv /\ [KbdNext]_kbdvars => [NowTyped]_kbdvars
  BY KeyStepTypes
<1> QED BY <1>1, KbdHolds, KbdProjects, PTL DEF Spec, NewKeyTyped

---------------------------------------------------------------------------
(* The tables of the characters.                                            *)

\* The rows of the tables, of the keys that type no letter.
LEMMA NoLetters ==
  /\ \A i \in 1..27 : Plain[i] \in Nat \ (Letter \cup Capital)
  /\ \A i \in 1..27 : Shifted[i] \in Nat \ (Letter \cup Capital)
  /\ \A i \in 1..17 : Keypad[i] \in Nat \ (Letter \cup Capital)
<1>1. \A i \in 1..27 : Plain[i] \in Nat \ (Letter \cup Capital)
  BY DEF Plain, Letter, Capital
<1>2. \A i \in 1..27 : Shifted[i] \in Nat \ (Letter \cup Capital)
  BY DEF Shifted, Letter, Capital
<1>3. \A i \in 1..17 : Keypad[i] \in Nat \ (Letter \cup Capital)
  BY DEF Keypad, Letter, Capital
<1> QED BY <1>1, <1>2, <1>3

\* What a key types without Ctrl.
LEMMA LetterKey ==
  ASSUME NEW code \in 4..29
  PROVE  /\ ScancodeToChar(FALSE, FALSE, code, FALSE) = 93 + code
         /\ ScancodeToChar(FALSE, TRUE, code, FALSE) = 61 + code
         /\ ScancodeToChar(FALSE, FALSE, code, TRUE) = 61 + code
         /\ ScancodeToChar(FALSE, TRUE, code, TRUE) = 93 + code
<1>1. /\ Table(97, Plain, code) = 93 + code /\ 93 + code \in Letter /\ 93 + code \notin Capital
      /\ Table(65, Shifted, code) = 61 + code /\ 61 + code \in Capital
      /\ 93 + code - 32 = 61 + code /\ 61 + code + 32 = 93 + code
  BY DEF Table, Letter, Capital
<1> QED BY <1>1 DEF ScancodeToChar, WithCapsLock

LEMMA OtherKey ==
  ASSUME NEW code \in Code \ (4..29), NEW shift \in BOOLEAN, NEW caps \in BOOLEAN
  PROVE  /\ ScancodeToChar(FALSE, shift, code, caps)
              = IF shift THEN Table(65, Shifted, code) ELSE Table(97, Plain, code)
         /\ ScancodeToChar(FALSE, shift, code, caps) \notin Letter \cup Capital
<1> DEFINE c == IF shift THEN Table(65, Shifted, code) ELSE Table(97, Plain, code)
<1>1. code \in 0..127 /\ code \notin 4..29
  BY DEF Code
<1>2. c \notin Letter \cup Capital
  <2>1. CASE code \in 30..56
    <3>1. code - 29 \in 1..27
      BY <2>1
    <3>2. Plain[code - 29] \notin Letter \cup Capital /\ Shifted[code - 29] \notin Letter \cup Capital
      BY <3>1, NoLetters
    <3> QED BY <1>1, <2>1, <3>2 DEF Table
  <2>2. CASE code \in 84..100
    <3>1. code - 83 \in 1..17
      BY <2>2
    <3>2. Keypad[code - 83] \notin Letter \cup Capital
      BY <3>1, NoLetters
    <3>3. code \notin 30..56
      BY <2>2
    <3> QED BY <1>1, <2>2, <3>2, <3>3 DEF Table
  <2>3. CASE code \notin 30..56 \cup 84..100
    <3>1. c \in {61, 0}
      BY <1>1, <2>3 DEF Table
    <3> QED BY <3>1 DEF Letter, Capital
  <2> QED BY <2>1, <2>2, <2>3
<1>3. ScancodeToChar(FALSE, shift, code, caps) = WithCapsLock(c, caps)
  BY <1>1 DEF ScancodeToChar
<1> HIDE DEF c
<1>4. WithCapsLock(c, caps) = c
  BY <1>2 DEF WithCapsLock
<1>5. ScancodeToChar(FALSE, shift, code, caps) = c
  BY <1>3, <1>4
<1> QED BY <1>2, <1>5 DEF c

\* The characters that are no letters lie in the two rows.
LEMMA RowsFull ==
  ASSUME NEW n \in 32..126, n \notin Letter \cup Capital
  PROVE  \E i \in 1..27 : Plain[i] = n \/ Shifted[i] = n
<1>1. /\ Plain[1] = 49 /\ Plain[2] = 50 /\ Plain[3] = 51 /\ Plain[4] = 52 /\ Plain[5] = 53
      /\ Plain[6] = 54 /\ Plain[7] = 55 /\ Plain[8] = 56 /\ Plain[9] = 57 /\ Plain[10] = 48
      /\ Plain[15] = 32 /\ Plain[16] = 45 /\ Plain[17] = 61 /\ Plain[18] = 91 /\ Plain[19] = 93
      /\ Plain[20] = 92 /\ Plain[21] = 35 /\ Plain[22] = 59 /\ Plain[23] = 39 /\ Plain[24] = 96
      /\ Plain[25] = 44 /\ Plain[26] = 46 /\ Plain[27] = 47
  BY DEF Plain
<1>2. /\ Shifted[1] = 33 /\ Shifted[2] = 64 /\ Shifted[3] = 35 /\ Shifted[4] = 36
      /\ Shifted[5] = 37 /\ Shifted[6] = 94 /\ Shifted[7] = 38 /\ Shifted[8] = 42
      /\ Shifted[9] = 40 /\ Shifted[10] = 41 /\ Shifted[16] = 95 /\ Shifted[17] = 43
      /\ Shifted[18] = 123 /\ Shifted[19] = 125 /\ Shifted[20] = 124 /\ Shifted[21] = 126
      /\ Shifted[22] = 58 /\ Shifted[23] = 34 /\ Shifted[24] = 126 /\ Shifted[25] = 60
      /\ Shifted[26] = 62 /\ Shifted[27] = 63
  BY DEF Shifted
<1>3. CASE n \in 32..64
  <2>1. \/ n \in {49, 50, 51, 52, 53, 54, 55, 56, 57, 48, 32, 45, 61, 35, 59, 39, 44, 46, 47}
        \/ n \in {33, 64, 36, 37, 38, 42, 40, 41, 43, 58, 34, 60, 62, 63}
    BY <1>3
  <2> QED BY <1>1, <1>2, <2>1
<1>4. CASE n \in 91..96
  BY <1>1, <1>2, <1>4
<1>5. CASE n \in 123..126
  BY <1>2, <1>5
<1> QED BY <1>3, <1>4, <1>5 DEF Letter, Capital

\* All that can be printed can be typed.
LEMMA AllTyped ==
  ASSUME NEW caps \in BOOLEAN
  PROVE  32..126 \subseteq Typed(FALSE, caps) \cup Typed(TRUE, caps)
<1> SUFFICES ASSUME NEW n \in 32..126
             PROVE  \E shift \in BOOLEAN, code \in Code : ScancodeToChar(FALSE, shift, code, caps) = n
  BY DEF Typed
<1>1. CASE n \in Letter
  <2>1. n - 93 \in 4..29 /\ n - 93 \in Code /\ 93 + (n - 93) = n
    BY <1>1 DEF Letter, Code
  <2> DEFINE code == n - 93
  <2> HIDE DEF code
  <2>2. \/ caps = FALSE /\ ScancodeToChar(FALSE, FALSE, code, FALSE) = n
        \/ caps = TRUE /\ ScancodeToChar(FALSE, TRUE, code, TRUE) = n
    BY <2>1, LetterKey DEF code
  <2> QED BY <2>1, <2>2 DEF code
<1>2. CASE n \in Capital
  <2>1. n - 61 \in 4..29 /\ n - 61 \in Code /\ 61 + (n - 61) = n
    BY <1>2 DEF Capital, Code
  <2> DEFINE code == n - 61
  <2> HIDE DEF code
  <2>2. \/ caps = FALSE /\ ScancodeToChar(FALSE, TRUE, code, FALSE) = n
        \/ caps = TRUE /\ ScancodeToChar(FALSE, FALSE, code, TRUE) = n
    BY <2>1, LetterKey DEF code
  <2> QED BY <2>1, <2>2 DEF code
<1>3. CASE n \notin Letter \cup Capital
  <2>1. PICK i \in 1..27 : Plain[i] = n \/ Shifted[i] = n
    BY <1>3, RowsFull
  <2>2. i + 29 \in 30..56 /\ i + 29 \in Code \ (4..29) /\ i + 29 - 29 = i /\ i + 29 \notin 4..29
    BY DEF Code
  <2> DEFINE code == i + 29
  <2>3. Table(97, Plain, code) = Plain[i] /\ Table(65, Shifted, code) = Shifted[i]
    BY <2>2 DEF Table
  <2>4. code \in Code \ (4..29)
    BY <2>2
  <2> HIDE DEF code
  <2>5. /\ ScancodeToChar(FALSE, FALSE, code, caps) = Plain[i]
        /\ ScancodeToChar(FALSE, TRUE, code, caps) = Shifted[i]
    BY <2>3, <2>4, OtherKey
  <2> QED BY <2>1, <2>4, <2>5
<1> QED BY <1>1, <1>2, <1>3

\* Caps lock exchanges the cases of the letters and touches nothing else.
LEMMA CapsRight ==
  ASSUME NEW caps \in BOOLEAN, NEW code \in Code, NEW shift \in BOOLEAN
  PROVE  LET c == ScancodeToChar(FALSE, shift, code, ~caps)
             d == ScancodeToChar(FALSE, shift, code, caps)
         IN  IF c \in Letter \cup Capital
             THEN d = ScancodeToChar(FALSE, ~shift, code, ~caps) /\ d # c
             ELSE d = c
<1>1. CASE code \in 4..29
  <2>1. /\ 93 + code # 61 + code
        /\ 93 + code \in Letter \cup Capital /\ 61 + code \in Letter \cup Capital
    BY <1>1 DEF Letter, Capital
  <2>2. /\ ScancodeToChar(FALSE, FALSE, code, FALSE) = 93 + code
        /\ ScancodeToChar(FALSE, TRUE, code, FALSE) = 61 + code
        /\ ScancodeToChar(FALSE, FALSE, code, TRUE) = 61 + code
        /\ ScancodeToChar(FALSE, TRUE, code, TRUE) = 93 + code
    BY <1>1, LetterKey
  <2>3. (~TRUE) = FALSE /\ (~FALSE) = TRUE
    OBVIOUS
  <2>4. (shift = TRUE \/ shift = FALSE) /\ (caps = TRUE \/ caps = FALSE)
    OBVIOUS
  <2>5. CASE shift = TRUE /\ caps = TRUE
    BY <2>1, <2>2, <2>3, <2>5
  <2>6. CASE shift = TRUE /\ caps = FALSE
    BY <2>1, <2>2, <2>3, <2>6
  <2>7. CASE shift = FALSE /\ caps = TRUE
    BY <2>1, <2>2, <2>3, <2>7
  <2>8. CASE shift = FALSE /\ caps = FALSE
    BY <2>1, <2>2, <2>3, <2>8
  <2> QED BY <2>4, <2>5, <2>6, <2>7, <2>8
<1>2. CASE code \notin 4..29
  <2>1. code \in Code \ (4..29)
    BY <1>2
  <2>3. (~caps) \in BOOLEAN
    BY Zenon
  <2>2. /\ ScancodeToChar(FALSE, shift, code, ~caps) \notin Letter \cup Capital
        /\ ScancodeToChar(FALSE, shift, code, caps) = ScancodeToChar(FALSE, shift, code, ~caps)
    BY <2>1, <2>3, OtherKey, Zenon
  <2> QED BY <2>2
<1> QED BY <1>1, <1>2

\* Ctrl gives the control character of a character the key types.
LEMMA CtrlRight ==
  ASSUME NEW caps \in BOOLEAN, NEW code \in (4..29) \cup DOMAIN CtrlKey
  PROVE  LET c == ScancodeToChar(TRUE, FALSE, code, caps)
         IN  c # 0 => \E shift \in BOOLEAN :
                        LET k == ScancodeToChar(FALSE, shift, code, caps)
                        IN  k >= 64 /\ k % 32 = c
<1> DEFINE c == ScancodeToChar(TRUE, FALSE, code, caps)
<1>1. CASE code \in 4..29
  <2>1. c = code - 3
    BY <1>1 DEF ScancodeToChar
  <2>2. \/ caps = FALSE /\ ScancodeToChar(FALSE, FALSE, code, FALSE) = 93 + code
        \/ caps = TRUE /\ ScancodeToChar(FALSE, TRUE, code, TRUE) = 93 + code
    BY <1>1, LetterKey
  <2>3. 93 + code >= 64 /\ (93 + code) % 32 = code - 3
    BY <1>1
  <2> QED BY <2>1, <2>2, <2>3
<1>2. CASE code \in DOMAIN CtrlKey
  <2>1. code \in {31, 35, 44, 45, 47, 48, 49}
    BY <1>2 DEF CtrlKey
  <2>2. c = CtrlKey[code]
    BY <1>2, <2>1 DEF ScancodeToChar
  <2>3. /\ CtrlKey[code] # 0 => code \in {35, 45, 47, 48, 49}
        /\ code = 47 => CtrlKey[code] = 27
        /\ code = 49 => CtrlKey[code] = 28
        /\ code = 48 => CtrlKey[code] = 29
        /\ code = 35 => CtrlKey[code] = 30
        /\ code = 45 => CtrlKey[code] = 31
    BY <2>1 DEF CtrlKey
  <2>4. ASSUME code \in {35, 45, 47, 48, 49}
        PROVE  \E shift \in BOOLEAN : LET k == ScancodeToChar(FALSE, shift, code, caps)
                                      IN  k >= 64 /\ k % 32 = CtrlKey[code]
    <3>1. code \in Code \ (4..29)
      BY <2>4 DEF Code
    <3>2. /\ ScancodeToChar(FALSE, FALSE, code, caps) = Table(97, Plain, code)
          /\ ScancodeToChar(FALSE, TRUE, code, caps) = Table(65, Shifted, code)
      BY <3>1, OtherKey
    <3>3. /\ code = 47 => Table(97, Plain, code) = 91
          /\ code = 49 => Table(97, Plain, code) = 92
          /\ code = 48 => Table(97, Plain, code) = 93
      BY DEF Table, Plain
    <3>4. /\ code = 35 => Table(65, Shifted, code) = 94
          /\ code = 45 => Table(65, Shifted, code) = 95
      BY DEF Table, Shifted
    <3>5. /\ 91 % 32 = 27 /\ 92 % 32 = 28 /\ 93 % 32 = 29 /\ 94 % 32 = 30 /\ 95 % 32 = 31
      OBVIOUS
    <3>6. CASE code \in {47, 48, 49}
      <4>1. Table(97, Plain, code) >= 64 /\ Table(97, Plain, code) % 32 = CtrlKey[code]
        BY <2>3, <3>3, <3>5, <3>6
      <4> QED BY <3>2, <4>1, Zenon
    <3>7. CASE code \in {35, 45}
      <4>1. Table(65, Shifted, code) >= 64 /\ Table(65, Shifted, code) % 32 = CtrlKey[code]
        BY <2>3, <3>4, <3>5, <3>7
      <4> QED BY <3>2, <4>1, Zenon
    <3> QED BY <2>4, <3>6, <3>7
  <2> QED BY <2>2, <2>3, <2>4
<1> QED BY <1>1, <1>2

LEMMA KeymapSound == \A caps \in BOOLEAN : Sound[caps]
<1> SUFFICES ASSUME NEW caps \in BOOLEAN PROVE Sound[caps]
  OBVIOUS
<1> QED BY AllTyped, CapsRight, CtrlRight, Zenon DEF Sound

\* Whatever keys are pressed and polls come between, the tables that the next key
\* is looked up in agree with ASCII: every printable character has a key, caps
\* lock exchanges the cases of letters only, Ctrl gives the key's own control
\* character (scancode_to_char).
THEOREM KeymapIsRight == Spec => []KeymapRight
<1>1. KbdInv => KeymapRight
  BY KeymapSound DEF KbdInv, KbdTypeOK, KeymapRight
<1> QED BY <1>1, KbdHolds, PTL

---------------------------------------------------------------------------
(* The disks, polls of the keyboard between their transfers.                *)

LEMMA DiskHolds == Spec => []DiskInv
<1>1. Init => DiskInv
  BY DiskInitInv DEF Init
<1>2. DiskInv /\ [Next]_vars => DiskInv'
  <2> SUFFICES ASSUME DiskInv, [Next]_vars PROVE DiskInv'
    OBVIOUS
  <2>1. CASE TickPoll
    <3>1. crit = 0
      BY <2>1 DEF TickPoll, InCriticalSection
    <3> QED BY <2>1, <3>1, DiskInvKept DEF TickPoll, Poll
  <2>2. CASE ProgramDisk
    BY <2>2, DiskStepInv DEF ProgramDisk
  <2>3. CASE TickPut \/ ProgramKeyboard \/ UNCHANGED vars
    BY <2>3, DiskInvStuttered DEF TickPut, ProgramKeyboard, vars
  <2> QED BY <2>1, <2>2, <2>3 DEF Next
<1> QED BY <1>1, <1>2, PTL DEF Spec

\* The variables of the drivers and the disks keep their types, for any ring,
\* keyboard and disks, whatever reports come and however polls and calls alternate.
THEOREM TypesRight == Spec => []HostTypeOK
<1>1. KbdInv /\ DiskTypeOK => HostTypeOK
  BY DEF KbdInv, HostTypeOK
<1> QED BY <1>1, KbdHolds, DiskHolds, DiskInvShows, PTL

\* No tick of the timer gets between a disk and its tokens, and every way out of
\* a command leaves the critical section as often as it was entered.
THEOREM TransfersUndisturbed == Spec => []TokensAddressed
BY DiskHolds, DiskInvShows, PTL

\* Mass storage delivers what SystemGuide.md promises, for any disk, call and
\* number of tags, whichever transfers fail and whatever answers are late.
THEOREM MassStorageIsExact == Spec => []MassStorageExact
BY DiskHolds, DiskInvShows, PTL

\* A sector with which the floppy driver is content is the one on the disk.
THEOREM FloppyIsHonest == Spec => []FloppySectorHonest
BY DiskHolds, DiskInvShows, PTL
=============================================================================
