-------------------------- MODULE SioReceiveProofs --------------------------
(***************************************************************************)
(* For any buffer size, chip and remote: the ring buffer of the SIO driver *)
(* is a queue, and its flow control neither loses bytes nor gets stuck.    *)
(***************************************************************************)
EXTENDS SioReceive, SequenceTheorems, TLAPS

Half == Size \div 2
Quarter == Size \div 4

\* The head is where the tail and the number of bytes say.
Wrap(p) == IF p < Size THEN p ELSE p - Size
RingRight == Held <= Size /\ hd = Wrap(tl + Held)

\* Interrupts are masked between the two halves of SIO_IN, and the register
\* pointer is at WR5 nowhere else.
ProgramRight ==
  /\ masked <=> pc \in InCritical
  /\ masked => ~isr
  /\ pc \in {"got", "count"} => cnt > 0
  /\ pc \in {"select", "rts"} => cnt = Quarter
  /\ ptr = IF pc = "rts" THEN 5 ELSE 0

\* RTS follows the count, and leaves room for what is still to come.
RtsRight ==
  /\ FlowControl
  /\ ~wr5.rts => cnt + Len(fifo) <= Half + Fifo - 1 + slip

IInv == TypeOK /\ RingRight /\ ProgramRight /\ RtsRight

\* The thresholds of the flow control are apart and within the buffer.
LEMMA Thresholds ==
  /\ Half \in Nat /\ Quarter \in Nat
  /\ Quarter < Half /\ Half < Size
BY SioAssumption DEF Half, Quarter

\* Advancing a pointer keeps it in the buffer.
LEMMA BumpInBuffer == ASSUME NEW p \in Pos PROVE Bump(p) \in Pos
BY SioAssumption DEF Pos, Bump

LEMMA InitRight == Init => IInv
<1> SUFFICES ASSUME Init PROVE IInv
  OBVIOUS
<1>1. TypeOK
  BY SioAssumption DEF Init, TypeOK, Pos
<1>2. RingRight
  BY SioAssumption DEF Init, RingRight, Held, Wrap
<1>3. ProgramRight
  BY DEF Init, ProgramRight, InCritical
<1>4. RtsRight
  BY Thresholds DEF Init, RtsRight, FlowControl, Half, Quarter
<1> QED BY <1>1, <1>2, <1>3, <1>4 DEF IInv

\* The remote's byte goes to the chip, if it may be sent at all.
LEMMA ArriveRight ==
  ASSUME IInv, NEW b \in Byte, Arrive(b) PROVE IInv'
<1> USE SioAssumption DEF IInv, Arrive, ring
<1>1. fifo' \in Seq(Byte) /\ Len(fifo') = Len(fifo) + 1 /\ Len(fifo) \in Nat
  BY AppendProperties DEF TypeOK
<1>2. TypeOK'
  BY <1>1 DEF TypeOK, Pos
<1>3. RingRight'
  BY DEF RingRight, Held, Wrap
<1>4. ProgramRight'
  BY DEF ProgramRight
<1>5. RtsRight'
  BY <1>1, Thresholds DEF RtsRight, FlowControl, TypeOK, Half, Quarter
<1> QED BY <1>2, <1>3, <1>4, <1>5

\* Entering the handler finds the register pointer at zero, so that the zero
\* it writes selects a register and changes none.
LEMMA IntEnterRight == ASSUME IInv, IntEnter PROVE IInv'
<1> USE DEF IInv, IntEnter, ring
<1>1. ptr' = 0 /\ UNCHANGED <<wr5, slip>> /\ pc # "rts"
  BY DEF ProgramRight, SelectRR0, InCritical
<1>2. TypeOK'
  BY <1>1 DEF TypeOK
<1>3. RingRight'
  BY <1>1 DEF RingRight, Held, Wrap
<1>4. ProgramRight'
  BY <1>1 DEF ProgramRight
<1>5. RtsRight'
  BY <1>1 DEF RtsRight, FlowControl
<1> QED BY <1>2, <1>3, <1>4, <1>5

\* Storing a byte: the handler interrupts no one who moves the tail.
LEMMA IntStoreRight == ASSUME IInv, IntStore PROVE IInv'
<1> USE SioAssumption DEF IInv, IntStore
<1>1. /\ fifo' \in Seq(Byte) /\ Len(fifo') = Len(fifo) - 1 /\ Len(fifo) \in Nat
      /\ Head(fifo) \in Byte
  BY HeadTailProperties DEF TypeOK
<1>2. pc \notin InCritical /\ ~masked
  BY DEF ProgramRight
<1>3. Held = cnt /\ Held' = cnt + 1
  BY <1>2 DEF Held, InCritical, TypeOK
<1>4. TypeOK'
  <2>1. /\ wr5' \in [rts : BOOLEAN, bits : 5..8] /\ slip' \in 0..Lag
    <3>1. wr5' \in {wr5, RtsOff} /\ slip' \in {slip, 0}
      BY DEF WriteWR5
    <3>2. RtsOff \in [rts : BOOLEAN, bits : 5..8]
      BY DEF RtsOff
    <3> QED BY <3>1, <3>2 DEF TypeOK
  <2>2. hd' \in Pos /\ buf' \in [Pos -> Byte \cup {none}]
    BY <1>1, BumpInBuffer DEF TypeOK
  <2>3. cnt' \in 0..Size
    BY DEF TypeOK
  <2> QED BY <1>1, <2>1, <2>2, <2>3 DEF TypeOK
<1>5. RingRight'
  BY <1>3 DEF RingRight, Wrap, Bump, TypeOK, Pos
<1>6. ProgramRight'
  BY <1>2 DEF ProgramRight, TypeOK, InCritical
<1>7. RtsRight'
  <2>1. CASE cnt + 1 = Half
    <3>1. wr5'.rts = FALSE /\ slip' = IF wr5.rts THEN 0 ELSE slip
      <4>1. wr5' = RtsOff /\ slip' = IF RtsOff.rts = wr5.rts THEN slip ELSE 0
        BY <2>1 DEF WriteWR5, Half
      <4>2. RtsOff.rts = FALSE /\ wr5.rts \in BOOLEAN
        BY DEF RtsOff, TypeOK
      <4> QED BY <4>1, <4>2
    <3> QED BY <1>1, <2>1, <3>1, Thresholds DEF RtsRight, FlowControl, TypeOK, Half, Quarter
  <2>2. CASE cnt + 1 # Half
    <3>1. UNCHANGED <<wr5, slip>>
      BY <2>2 DEF Half
    <3> QED BY <1>1, <1>2, <2>2, <3>1, Thresholds
            DEF RtsRight, FlowControl, TypeOK, Half, Quarter, InCritical
  <2> QED BY <2>1, <2>2
<1> QED BY <1>4, <1>5, <1>6, <1>7

\* Discarding a byte leaves the buffer alone.
LEMMA IntDiscardRight == ASSUME IInv, IntDiscard PROVE IInv'
<1> USE DEF IInv, IntDiscard, ring
<1>1. /\ fifo' \in Seq(Byte) /\ Len(fifo') = Len(fifo) - 1 /\ Len(fifo) \in Nat
  BY HeadTailProperties DEF TypeOK
<1>2. TypeOK'
  <2>1. Len(fifo') <= Fifo
    BY <1>1, SioAssumption DEF TypeOK
  <2> QED BY <1>1, <2>1 DEF TypeOK
<1>3. RingRight'
  BY DEF RingRight, Held, Wrap
<1>4. ProgramRight'
  BY DEF ProgramRight
<1>5. RtsRight'
  BY <1>1, Thresholds, SioAssumption DEF RtsRight, FlowControl, TypeOK
<1> QED BY <1>2, <1>3, <1>4, <1>5

\* Taking a byte off the count.
LEMMA InCountRight == ASSUME IInv, InCount PROVE IInv'
<1> USE SioAssumption DEF IInv, InCount, Run, chip
<1>1. cnt \in 1..Size /\ cnt' = cnt - 1
  BY DEF ProgramRight, TypeOK
<1>2. pc' = IF cnt' = Quarter THEN "select" ELSE "tail"
  BY DEF Quarter
<1>3. TypeOK'
  BY <1>1, <1>2 DEF TypeOK, InCritical
<1>4. RingRight'
  BY <1>1, <1>2 DEF RingRight, Held, Wrap
<1>5. ProgramRight'
  BY <1>2 DEF ProgramRight, InCritical
<1>6. RtsRight'
  BY <1>1, <1>2, Thresholds DEF RtsRight, FlowControl, TypeOK, Half, Quarter
<1> QED BY <1>3, <1>4, <1>5, <1>6

\* RTS goes on again at a quarter, which is below half.
LEMMA InRtsRight == ASSUME IInv, InRts PROVE IInv'
<1> USE DEF IInv, InRts, Run, ring
<1>1. ptr = 5 /\ cnt = Quarter
  BY DEF ProgramRight
<1>2. wr5' = RtsOn /\ slip' = IF wr5.rts THEN slip ELSE 0
  BY <1>1 DEF WriteWR5, RtsOn, TypeOK
<1>3. TypeOK'
  BY <1>2, SioAssumption DEF TypeOK, RtsOn, InCritical
<1>4. RingRight'
  BY DEF RingRight, Held, Wrap
<1>5. ProgramRight'
  BY DEF ProgramRight, InCritical
<1>6. RtsRight'
  BY <1>1, <1>2, Thresholds DEF RtsRight, FlowControl, RtsOn, Half, Quarter
<1> QED BY <1>3, <1>4, <1>5, <1>6

\* Moving the tail completes what taking the byte off the count began.
LEMMA InTailRight == ASSUME IInv, InTail PROVE IInv'
<1> USE SioAssumption DEF IInv, InTail, Run, chip
<1>1. TypeOK'
  BY BumpInBuffer DEF TypeOK, InCritical
<1>2. RingRight'
  BY DEF RingRight, Held, Wrap, Bump, TypeOK, Pos
<1>3. ProgramRight'
  BY DEF ProgramRight, InCritical
<1>4. RtsRight'
  BY DEF RtsRight, FlowControl
<1> QED BY <1>1, <1>2, <1>3, <1>4

\* The steps of the program and the handler that touch neither ring nor RTS.
LEMMA PlainRight ==
  ASSUME IInv,
         IntReturn \/ InCall \/ InStatus \/ InMask \/ InSelect \/ InReturn
  PROVE  IInv'
<1> USE DEF IInv, ring, chip, Run
<1>1. UNCHANGED <<ring, fifo, wr5, slip, cfg, got>>
  BY DEF IntReturn, InCall, InStatus, InMask, InSelect, InReturn
<1>2. TypeOK'
  BY <1>1 DEF TypeOK, IntReturn, InCall, InStatus, InMask, InSelect, InReturn, InCritical
<1>3. Held' = Held
  BY <1>1 DEF Held, IntReturn, InCall, InStatus, InMask, InSelect, InReturn
<1>4. RingRight'
  BY <1>1, <1>3 DEF RingRight, Wrap
<1>5. ProgramRight'
  BY <1>1 DEF ProgramRight, TypeOK, IntReturn, InCall, InStatus, InMask, InSelect,
              InReturn, InCritical
<1>6. RtsRight'
  BY <1>1 DEF RtsRight, FlowControl, IntReturn, InCall, InStatus, InMask, InSelect,
              InReturn
<1> QED BY <1>2, <1>4, <1>5, <1>6

\* Initialisation empties the buffer and turns RTS on together.
LEMMA InitDevRight ==
  ASSUME IInv, NEW w \in 5..8, InitDev(w) PROVE IInv'
<1> USE SioAssumption DEF IInv, InitDev, Run
<1>1. wr5' = [rts |-> TRUE, bits |-> w] /\ slip' \in 0..Lag
  <2>1. wr5' = [rts |-> TRUE, bits |-> w] /\ slip' \in {slip, 0}
    BY DEF WriteWR5
  <2> QED BY <2>1 DEF TypeOK
<1>2. TypeOK'
  BY <1>1 DEF TypeOK, Pos
<1>3. RingRight'
  BY DEF RingRight, Held, Wrap
<1>4. ProgramRight'
  BY DEF ProgramRight
<1>5. RtsRight'
  BY <1>1, Thresholds DEF RtsRight, FlowControl, Half, Quarter
<1> QED BY <1>2, <1>3, <1>4, <1>5

\* No step of anyone breaks the invariant.
LEMMA StepRight == IInv /\ [Next]_vars => IInv'
<1> SUFFICES ASSUME IInv, [Next]_vars PROVE IInv'
  OBVIOUS
<1>1. ASSUME NEW b \in Byte, Arrive(b) PROVE IInv'
  BY <1>1, ArriveRight
<1>2. CASE Interrupt
  BY <1>2, IntEnterRight, IntStoreRight, IntDiscardRight, PlainRight DEF Interrupt
<1>3. CASE Receive
  BY <1>3, PlainRight, InCountRight, InRtsRight, InTailRight DEF Receive
<1>4. ASSUME NEW w \in 5..8, InitDev(w) PROVE IInv'
  BY <1>4, InitDevRight
<1>5. CASE UNCHANGED vars
  BY <1>5 DEF vars, chip, ring, IInv, TypeOK, RingRight, ProgramRight, RtsRight,
              FlowControl, Held, Wrap
<1> QED BY <1>1, <1>2, <1>3, <1>4, <1>5 DEF Next

\* The inductive invariant of the receive buffer.
THEOREM InvariantHolds == Spec => []IInv
BY InitRight, StepRight, PTL DEF Spec

\* Every variable of the driver and the chip keeps its type; the count never
\* runs below zero or over the size.
THEOREM TypeCorrect == Spec => []TypeOK
<1>1. IInv => TypeOK
  BY DEF IInv
<1> QED BY <1>1, InvariantHolds, PTL

\* RTS follows the fill of the buffer: the thresholds are never stepped over.
THEOREM FlowIsControlled == Spec => []FlowControl
<1>1. IInv => FlowControl
  BY DEF IInv, RtsRight
<1> QED BY <1>1, InvariantHolds, PTL

\* A remote that heeds RTS in time loses nothing.
THEOREM NothingDropped == Spec => []NoByteDropped
<1>1. IInv => NoByteDropped
  <2> SUFFICES ASSUME IInv, fifo # <<>>, cnt = Size
               PROVE Fifo - 1 + slip > Size - Half
    BY DEF NoByteDropped, Half
  <2>1. Len(fifo) \in Nat /\ Len(fifo) > 0
    BY EmptySeq DEF IInv, TypeOK
  <2>2. ~wr5.rts
    BY Thresholds, SioAssumption DEF IInv, RtsRight, FlowControl, Half
  <2> QED BY <2>1, <2>2, SioAssumption, Thresholds DEF IInv, RtsRight, TypeOK
<1> QED BY <1>1, InvariantHolds, PTL

---------------------------------------------------------------------------
\* The queue of the abstract receiver, cell by cell.
LEMMA QueueCells ==
  IInv => /\ Held \in 0..Size
          /\ Queue \in Seq(Byte \cup {none}) /\ Len(Queue) = Held
          /\ \A i \in 1..Held : Cell(i) \in Pos /\ Queue[i] = buf[Cell(i)]
<1> SUFFICES ASSUME IInv
    PROVE /\ Held \in 0..Size
          /\ Queue \in Seq(Byte \cup {none}) /\ Len(Queue) = Held
          /\ \A i \in 1..Held : Cell(i) \in Pos /\ Queue[i] = buf[Cell(i)]
  OBVIOUS
<1>1. Held \in 0..Size
  BY DEF IInv, RingRight, TypeOK, Held
<1>2. \A i \in 1..Held : Cell(i) \in Pos
  BY <1>1, SioAssumption DEF IInv, TypeOK, Cell, Pos
<1>3. \A i \in 1..Held : Queue[i] = buf[Cell(i)]
  BY DEF Queue
<1>4. Queue \in [1..Held -> Byte \cup {none}]
  BY <1>2 DEF Queue, IInv, TypeOK
<1>5. Queue \in Seq(Byte \cup {none}) /\ Len(Queue) = Held
  BY <1>1, <1>4
<1> QED BY <1>1, <1>2, <1>3, <1>5

\* The queue is the same when neither its cells nor its extent change.
LEMMA QueueKept ==
  ASSUME IInv, UNCHANGED <<tl, buf>>, Held' = Held PROVE Queue' = Queue
BY DEF Queue, Cell

\* IntStore puts the chip's next byte at the end of the queue.
LEMMA StoreAccepts == ASSUME IInv, IntStore PROVE BQ!Accept
<1> DEFINE b == Head(fifo)
<1> USE DEF IntStore
<1>1. b \in Byte
  BY HeadTailProperties DEF IInv, TypeOK
<1>2. Held = cnt /\ Held' = cnt + 1 /\ cnt \in Nat /\ cnt < Size
  <2>1. pc \notin InCritical
    BY DEF IInv, ProgramRight
  <2> QED BY <2>1, SioAssumption DEF IInv, InCritical, Held, TypeOK
<1>3. \A i \in 1..Held : Cell(i)' = Cell(i) /\ Cell(i) # hd
  BY <1>2, SioAssumption DEF IInv, RingRight, Wrap, Cell, TypeOK, Pos
<1>4. \A i \in Nat : i = cnt + 1 => Cell(i)' = hd
  BY <1>2, SioAssumption DEF IInv, RingRight, Wrap, Cell, TypeOK, Pos
<1>5. hd \in Pos /\ buf \in [Pos -> Byte \cup {none}]
  BY DEF IInv, TypeOK
<1>6. IInv'
  BY IntStoreRight
<1>7. Append(Queue, b) \in Seq(Byte \cup {none}) /\ Len(Append(Queue, b)) = Held + 1
  BY <1>1, QueueCells, AppendProperties
<1>8. \A i \in 1..Held + 1 : Append(Queue, b)[i] = IF i = Held + 1 THEN b ELSE buf[Cell(i)]
  BY <1>1, <1>2, QueueCells, AppendProperties
<1>9. /\ Queue' \in Seq(Byte \cup {none}) /\ Len(Queue') = Held + 1
      /\ \A i \in 1..Held + 1 : Queue'[i] = buf'[Cell(i)']
  <2>1. (/\ Held \in 0..Size
         /\ Queue \in Seq(Byte \cup {none}) /\ Len(Queue) = Held
         /\ \A i \in 1..Held : Cell(i) \in Pos /\ Queue[i] = buf[Cell(i)])'
    BY <1>6, QueueCells, PTL
  <2> QED BY <2>1, <1>2
<1>10. \A i \in 1..Held + 1 : Queue'[i] = Append(Queue, b)[i]
  <2> SUFFICES ASSUME NEW i \in 1..Held + 1 PROVE Queue'[i] = Append(Queue, b)[i]
    OBVIOUS
  <2>1. CASE i = Held + 1
    <3>1. Cell(i)' = hd
      BY <2>1, <1>2, <1>4
    <3>2. buf'[hd] = b
      BY <1>5
    <3> QED BY <3>1, <3>2, <2>1, <1>8, <1>9
  <2>2. CASE i # Held + 1
    <3>1. i \in 1..Held
      BY <2>2, <1>2
    <3>2. buf'[Cell(i)'] = buf[Cell(i)]
      BY <3>1, <1>3, <1>5, QueueCells
    <3> QED BY <3>1, <3>2, <2>2, <1>8, <1>9
  <2> QED BY <2>1, <2>2
<1>11. Queue' = Append(Queue, b)
  BY <1>7, <1>9, <1>10, SeqEqual
<1> QED BY <1>2, <1>11, QueueCells DEF BQ!Accept

\* InTail takes the byte at the front of the queue.
LEMMA TailDelivers == ASSUME IInv, InTail PROVE BQ!Deliver
<1> USE DEF InTail, Run
<1>1. Held = cnt + 1 /\ Held' = cnt /\ cnt \in Nat /\ cnt < Size
  BY SioAssumption DEF IInv, RingRight, Held, TypeOK
<1>2. Cell(1) = tl
  BY SioAssumption DEF Cell, IInv, TypeOK, Pos
<1>3. \A i \in 1..cnt : Cell(i)' = Cell(i + 1)
  BY <1>1, SioAssumption DEF Cell, Bump, IInv, TypeOK, Pos
<1>4. Queue \in Seq(Byte \cup {none}) /\ Queue # <<>> /\ Head(Queue) = buf[tl]
  BY <1>1, <1>2, QueueCells
<1>5. /\ Tail(Queue) \in Seq(Byte \cup {none}) /\ Len(Tail(Queue)) = cnt
      /\ \A i \in 1..cnt : Tail(Queue)[i] = buf[Cell(i + 1)]
  BY <1>1, <1>4, QueueCells, HeadTailProperties
<1>6. IInv'
  BY InTailRight
<1>7. /\ Queue' \in Seq(Byte \cup {none}) /\ Len(Queue') = cnt
      /\ \A i \in 1..cnt : Queue'[i] = buf'[Cell(i)']
  <2>1. (/\ Held \in 0..Size
         /\ Queue \in Seq(Byte \cup {none}) /\ Len(Queue) = Held
         /\ \A i \in 1..Held : Cell(i) \in Pos /\ Queue[i] = buf[Cell(i)])'
    BY <1>6, QueueCells, PTL
  <2> QED BY <2>1, <1>1
<1>8. \A i \in 1..cnt : Queue'[i] = Tail(Queue)[i]
  BY <1>3, <1>5, <1>7
<1>9. Queue' = Tail(Queue)
  BY <1>5, <1>7, <1>8, SeqEqual
<1> QED BY <1>4, <1>9 DEF BQ!Deliver, chip

\* Every step of the driver is a step of the abstract receiver, or none.
LEMMA StepImplements == IInv /\ [Next]_vars => [BQ!Next]_<<fifo, Queue, got>>
<1> SUFFICES ASSUME IInv, [Next]_vars PROVE [BQ!Next]_<<fifo, Queue, got>>
  OBVIOUS
<1> USE DEF ring, chip, Run
<1>1. ASSUME NEW b \in Byte, Arrive(b) PROVE BQ!Arrive
  <2>1. Queue' = Queue
    BY <1>1, QueueKept DEF Arrive, Held
  <2> QED BY <1>1, <2>1 DEF Arrive, BQ!Arrive
<1>2. CASE IntStore
  BY <1>2, StoreAccepts DEF BQ!Next
<1>3. CASE IntDiscard
  <2>1. Queue' = Queue
    BY <1>3, QueueKept DEF IntDiscard, Held
  <2>2. Len(Queue) = Size
    BY <1>3, QueueCells DEF IntDiscard, IInv, ProgramRight, InCritical, Held, TypeOK
  <2>3. BQ!Lose
    BY <1>3, <2>1, <2>2 DEF IntDiscard, BQ!Lose
  <2> QED BY <2>3 DEF BQ!Next
<1>4. CASE InTail
  BY <1>4, TailDelivers DEF BQ!Next
<1>5. CASE InCount
  <2>1. cnt' = cnt - 1 /\ cnt \in Nat
    BY <1>5, SioAssumption DEF InCount, IInv, ProgramRight, TypeOK
  <2>2. Queue' = Queue
    BY <1>5, <2>1, QueueKept DEF InCount, Held
  <2> QED BY <1>5, <2>2 DEF InCount
<1>6. CASE IntEnter \/ IntReturn \/ InCall \/ InStatus \/ InMask \/ InSelect \/ InRts \/ InReturn
  <2>1. Queue' = Queue
    BY <1>6, QueueKept DEF Held, IntEnter, IntReturn, InCall, InStatus, InMask, InSelect, InRts, InReturn
  <2> QED BY <1>6, <2>1 DEF IntEnter, IntReturn, InCall, InStatus, InMask, InSelect, InRts, InReturn
<1>7. ASSUME NEW w \in 5..8, InitDev(w) PROVE BQ!Flush
  <2>1. IInv'
    BY <1>7, InitDevRight
  <2>2. Held' = 0
    BY <1>7 DEF InitDev, Held
  <2>3. (/\ Held \in 0..Size
         /\ Queue \in Seq(Byte \cup {none}) /\ Len(Queue) = Held
         /\ \A i \in 1..Held : Cell(i) \in Pos /\ Queue[i] = buf[Cell(i)])'
    BY <2>1, QueueCells, PTL
  <2>4. Queue' = <<>>
    BY <2>2, <2>3, EmptySeq
  <2> QED BY <1>7, <2>4 DEF InitDev, BQ!Flush
<1>8. CASE UNCHANGED vars
  BY <1>8 DEF vars, Queue, Cell, Held
<1> QED BY <1>1, <1>2, <1>3, <1>4, <1>5, <1>6, <1>7, <1>8
        DEF Next, Interrupt, Receive, BQ!Next

\* The driver implements the queue.
THEOREM ImplementsQueue == Spec => IsQueue
<1>1. Init => BQ!Init
  <2> SUFFICES ASSUME Init PROVE BQ!Init
    OBVIOUS
  <2>1. IInv /\ Held = 0
    BY InitRight DEF Init, Held
  <2>2. Queue = <<>>
    BY <2>1, QueueCells, EmptySeq
  <2> QED BY <2>2 DEF Init, BQ!Init
<1> QED BY <1>1, InvariantHolds, StepImplements, PTL DEF Spec, IsQueue, BQ!Spec
============================================================================
