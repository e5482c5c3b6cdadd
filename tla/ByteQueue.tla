----------------------------- MODULE ByteQueue -----------------------------
(***************************************************************************)
(* What a receiver of a serial line promises: the bytes that arrive come   *)
(* out in the order in which they came in, each once.  A byte is given up  *)
(* only when Size others wait to be read.                                  *)
(***************************************************************************)
EXTENDS Naturals, Sequences

CONSTANTS Byte, Size, none
VARIABLES line,   \* bytes the receiver has not looked at
          queue,  \* bytes waiting to be read
          got     \* the last one read

Init == line = <<>> /\ queue = <<>> /\ got = none

Arrive == /\ \E b \in Byte : line' = Append(line, b)
          /\ UNCHANGED <<queue, got>>

Accept == /\ line # <<>> /\ Len(queue) < Size
          /\ queue' = Append(queue, Head(line))
          /\ line' = Tail(line)
          /\ UNCHANGED got

Lose == /\ line # <<>> /\ Len(queue) = Size
        /\ line' = Tail(line)
        /\ UNCHANGED <<queue, got>>

Deliver == /\ queue # <<>>
           /\ got' = Head(queue)
           /\ queue' = Tail(queue)
           /\ UNCHANGED line

Flush == line' = <<>> /\ queue' = <<>> /\ UNCHANGED got

Next == Arrive \/ Accept \/ Lose \/ Deliver \/ Flush

Spec == Init /\ [][Next]_<<line, queue, got>>
============================================================================
