----------------------------- MODULE SioReceive -----------------------------
(***************************************************************************)
(* Interrupt-driven receive of one channel of the SIO driver               *)
(* (src/Source/HBIOS/sio.asm, SIOINTS with INTMODE > 0): the ring buffer   *)
(* between the interrupt handler SIO_INTRCV and SIO_IN, and the flow       *)
(* control of the remote sender through RTS, which is a bit of the chip's  *)
(* write register 5.  The chip reaches its registers through a pointer: a  *)
(* write to the command port goes to register 0, unless the write before   *)
(* it selected another one.                                                *)
(***************************************************************************)
EXTENDS Integers, Sequences

CONSTANTS Size,   \* SIO_BUFSZ
          Fifo,   \* bytes the chip itself can hold
          Lag,    \* bytes the remote still sends after RTS went off
          Byte, none

ASSUME SioAssumption ==
  /\ Size \in 4..255 /\ Fifo \in Nat /\ Lag \in Nat /\ none \notin Byte

VARIABLES
  fifo, wr5, ptr,   \* the chip: received bytes, WR5, register pointer
  slip,             \* bytes the remote sent since RTS last changed to off
  cnt, hd, tl, buf, \* the receive buffer: _CNT, _HD, _TL, _BUF
  cfg,              \* the configuration the driver keeps: bits of a character
  isr,              \* in the interrupt handler
  masked,           \* the program has interrupts disabled
  pc,               \* where the program is in SIO_IN
  got               \* what SIO_IN returned last

ring == <<cnt, hd, tl, buf>>
chip == <<fifo, wr5, ptr, slip>>
vars == <<chip, ring, cfg, isr, masked, pc, got>>

Pos == 0..Size - 1
InCritical == {"count", "select", "rts", "tail", "ret"}

TypeOK ==
  /\ fifo \in Seq(Byte) /\ Len(fifo) <= Fifo
  /\ wr5 \in [rts : BOOLEAN, bits : 5..8] /\ ptr \in {0, 5}
  /\ slip \in 0..Lag
  /\ cnt \in 0..Size /\ hd \in Pos /\ tl \in Pos
  /\ buf \in [Pos -> Byte \cup {none}]
  /\ cfg \in 5..8 /\ isr \in BOOLEAN /\ masked \in BOOLEAN
  /\ pc \in {"idle", "wait", "got"} \cup InCritical
  /\ got \in Byte \cup {none}

Init == /\ fifo = <<>> /\ wr5 = [rts |-> TRUE, bits |-> 8] /\ ptr = 0
        /\ slip = 0
        /\ cnt = 0 /\ hd = 0 /\ tl = 0 /\ buf = [i \in Pos |-> none]
        /\ cfg = 8 /\ isr = FALSE /\ masked = FALSE
        /\ pc = "idle" /\ got = none

---------------------------------------------------------------------------
\* Bug: the end is compared before the step, and so one cell late.
BumpLate(p) == IF p = Size THEN 0 ELSE p + 1
\* A pointer into the buffer is advanced, back to the start past the end.
Bump(p) == IF p + 1 = Size THEN 0 ELSE p + 1

RtsOn == [rts |-> TRUE, bits |-> 8]    \* SIO_RTSON, $EA
RtsOff == [rts |-> FALSE, bits |-> 8]  \* SIO_RTSOFF, $E8

\* The chip takes value w for WR5 (fields rts, bits).  RTS changing starts
\* the remote's lag anew.
WriteWR5(w) == /\ wr5' = w
               /\ slip' = IF w.rts = wr5.rts THEN slip ELSE 0

\* A zero written to the command port: nothing, if the pointer is at WR0.
SelectRR0 == /\ ptr' = 0
             /\ IF ptr = 5 THEN WriteWR5([rts |-> FALSE, bits |-> 5])
                           ELSE UNCHANGED <<wr5, slip>>

\* The remote sends a byte, if RTS lets it or it has not noticed yet.
Arrive(b) ==
  /\ wr5.rts \/ slip < Lag
  /\ Len(fifo) < Fifo
  /\ fifo' = Append(fifo, b)
  /\ slip' = IF wr5.rts THEN slip ELSE slip + 1
  /\ UNCHANGED <<wr5, ptr, ring, cfg, isr, masked, pc, got>>

\* The interrupt is taken; the handler finds the receive ready bit set.
IntEnter ==
  /\ ~isr /\ ~masked /\ fifo # <<>>
  /\ SelectRR0
  /\ isr' = TRUE
  /\ UNCHANGED <<fifo, ring, cfg, masked, pc, got>>

\* Bug: RTS goes off only when the buffer is full.
IntStoreLate ==
  /\ isr /\ fifo # <<>> /\ cnt # Size
  /\ fifo' = Tail(fifo)
  /\ cnt' = cnt + 1
  /\ IF cnt + 1 = Size THEN WriteWR5(RtsOff) ELSE UNCHANGED <<wr5, slip>>
  /\ buf' = [buf EXCEPT ![hd] = Head(fifo)]
  /\ hd' = Bump(hd)
  /\ UNCHANGED <<ptr, tl, cfg, isr, masked, pc, got>>

\* A byte is stored.  At half full RTS goes off.
IntStore ==
  /\ isr /\ fifo # <<>> /\ cnt # Size
  /\ fifo' = Tail(fifo)
  /\ cnt' = cnt + 1
  /\ IF cnt + 1 = Size \div 2 THEN WriteWR5(RtsOff)
                              ELSE UNCHANGED <<wr5, slip>>
  /\ buf' = [buf EXCEPT ![hd] = Head(fifo)]
  /\ hd' = Bump(hd)
  /\ UNCHANGED <<ptr, tl, cfg, isr, masked, pc, got>>

\* The buffer is full: the byte is discarded and the handler leaves.
IntDiscard ==
  /\ isr /\ fifo # <<>> /\ cnt = Size
  /\ fifo' = Tail(fifo)
  /\ isr' = FALSE
  /\ UNCHANGED <<wr5, ptr, slip, ring, cfg, masked, pc, got>>

IntReturn ==
  /\ isr /\ fifo = <<>>
  /\ isr' = FALSE
  /\ UNCHANGED <<chip, ring, cfg, masked, pc, got>>

---------------------------------------------------------------------------
Run(p) == ~isr /\ pc = p

InCall == /\ Run("idle") /\ pc' = "wait"
          /\ UNCHANGED <<chip, ring, cfg, isr, masked, got>>

\* SIO_IST: the loop ends when the count is not zero.
InStatus == /\ Run("wait") /\ cnt # 0 /\ pc' = "got"
            /\ UNCHANGED <<chip, ring, cfg, isr, masked, got>>

\* Bug: no HB_DI.
InMaskNot == /\ Run("got") /\ pc' = "count"
             /\ UNCHANGED <<chip, ring, cfg, isr, masked, got>>
InMask == /\ Run("got") /\ pc' = "count" /\ masked' = TRUE
          /\ UNCHANGED <<chip, ring, cfg, isr, got>>

\* Bug: RTS goes on again only when the buffer is empty, which a test of the
\* count before it is decremented never sees.
InCountBefore == /\ Run("count")
                 /\ cnt' = (cnt - 1) % 256
                 /\ pc' = IF cnt = 0 THEN "select" ELSE "tail"
                 /\ UNCHANGED <<chip, hd, tl, buf, cfg, isr, masked, got>>
\* The count is a byte.  Down to a quarter, RTS goes on again.
InCount == /\ Run("count")
           /\ cnt' = (cnt - 1) % 256
           /\ pc' = IF cnt' = Size \div 4 THEN "select" ELSE "tail"
           /\ UNCHANGED <<chip, hd, tl, buf, cfg, isr, masked, got>>

InSelect == /\ Run("select") /\ pc' = "rts" /\ ptr' = 5
            /\ UNCHANGED <<fifo, wr5, slip, ring, cfg, isr, masked, got>>

InRts == /\ Run("rts") /\ pc' = "tail" /\ ptr' = 0
         /\ IF ptr = 5 THEN WriteWR5(RtsOn) ELSE UNCHANGED <<wr5, slip>>
         /\ UNCHANGED <<fifo, ring, cfg, isr, masked, got>>

\* Bug: the pointer is advanced before it is used.
InTailNext == /\ Run("tail") /\ pc' = "ret"
              /\ got' = buf[Bump(tl)]
              /\ tl' = Bump(tl)
              /\ UNCHANGED <<chip, cnt, hd, buf, cfg, isr, masked>>
InTail == /\ Run("tail") /\ pc' = "ret"
          /\ got' = buf[tl]
          /\ tl' = Bump(tl)
          /\ UNCHANGED <<chip, cnt, hd, buf, cfg, isr, masked>>

\* Bug: no HB_EI.
InReturnMasked == /\ Run("ret") /\ pc' = "idle"
                  /\ UNCHANGED <<chip, ring, cfg, isr, masked, got>>
InReturn == /\ Run("ret") /\ pc' = "idle" /\ masked' = FALSE
            /\ UNCHANGED <<chip, ring, cfg, isr, got>>

\* SIO_INITDEV with w bits to a character, interrupts disabled throughout:
\* the channel is reset and programmed, the buffer emptied.  (A baud rate
\* that cannot be had is refused before anything is changed.)
InitDev(w) ==
  /\ Run("idle")
  /\ cfg' = w
  /\ fifo' = <<>> /\ ptr' = 0 /\ WriteWR5([rts |-> TRUE, bits |-> w])
  /\ cnt' = 0 /\ hd' = 0 /\ tl' = 0
  /\ UNCHANGED <<buf, isr, masked, pc, got>>

Receive == InCall \/ InStatus \/ InMask \/ InCount \/ InSelect \/ InRts
           \/ InTail \/ InReturn
Interrupt == IntEnter \/ IntStore \/ IntDiscard \/ IntReturn

Next == \/ \E b \in Byte : Arrive(b)
        \/ Interrupt
        \/ Receive
        \/ \E w \in 5..8 : InitDev(w)

Spec == Init /\ [][Next]_vars

\* A pending interrupt is taken at the next instruction at which interrupts
\* are enabled, so masking it again and again cannot hold it off.  The
\* program reads for ever.
FairSpec == Spec /\ WF_vars(Receive) /\ SF_vars(IntEnter) /\ WF_vars(Interrupt)

---------------------------------------------------------------------------
\* The bytes in the buffer: one more than the count says while SIO_IN is
\* between taking it off the count and moving the tail.
Held == cnt + IF pc \in {"select", "rts", "tail"} THEN 1 ELSE 0
Cell(i) == IF tl + i - 1 < Size THEN tl + i - 1 ELSE tl + i - 1 - Size
Queue == [i \in 1..Held |-> buf[Cell(i)]]

BQ == INSTANCE ByteQueue WITH line <- fifo, queue <- Queue

\* The ring buffer, its interrupt handler and SIO_IN with whatever comes
\* between them are a queue: no byte is lost, doubled, overtaken or made up,
\* except that one is dropped when Size others wait.
IsQueue == BQ!Spec

\* RTS is on below half full and off above a quarter; it is as it was in
\* between.  The thresholds are compared for equality, on the way up by the
\* handler and on the way down by SIO_IN, so neither may ever be stepped over.
FlowControl ==
  /\ wr5.rts => cnt < Size \div 2
  /\ ~wr5.rts => cnt > Size \div 4 \/ pc \in {"select", "rts"}

\* A byte finds the buffer full only when the remote has sent more since RTS
\* went off than the half of the buffer above the threshold takes, less what
\* the chip can still hold then: a remote that heeds RTS in time loses nothing.
NoByteDropped ==
  isr /\ fifo # <<>> /\ cnt = Size => Fifo - 1 + slip > Size - Size \div 2

\* While the program reads, the remote is never stopped for good.
LineReopens == ~wr5.rts ~> wr5.rts

\* While the program reads, it gets what has arrived, or had it flushed.
Served == fifo # <<>> \/ cnt > 0 ~> pc = "ret" \/ (fifo = <<>> /\ cnt = 0)

\* The characteristics CIOQUERY reports (SIO_QUERY returns what SIO_INITDEV
\* stored) are those the channel works with.
LineAsReported == wr5.bits = cfg
============================================================================
