---------------------------- MODULE MCSioReceive ----------------------------
EXTENDS SioReceive, TLC
Swap == Permutations(Byte)
\* Cells of the buffer outside the queue are dead.
View == <<chip, cnt, hd, tl, Queue, cfg, isr, masked, pc, got>>
============================================================================
