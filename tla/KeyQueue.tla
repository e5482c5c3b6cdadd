------------------------------ MODULE KeyQueue ------------------------------
(***************************************************************************)
(* What a keyboard driver promises: characters come out in the order in    *)
(* which the keys were seen, each once.  A character is given up only when *)
(* Size others wait; the user may throw away all that wait.                *)
(***************************************************************************)
EXTENDS Naturals, Sequences

CONSTANTS Char, Size, none
VARIABLES queue,  \* characters waiting to be read
          got     \* the last one read

Init == queue = <<>> /\ got = none

Type(c) == /\ Len(queue) < Size
           /\ queue' = Append(queue, c)
           /\ UNCHANGED got

Deliver == /\ queue # <<>>
           /\ got' = Head(queue)
           /\ queue' = Tail(queue)

Purge == queue' = <<>> /\ UNCHANGED got

Next == (\E c \in Char : Type(c)) \/ Deliver \/ Purge

Spec == Init /\ [][Next]_<<queue, got>>
============================================================================
