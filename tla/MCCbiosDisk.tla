--------------------------- MODULE MCCbiosDisk ----------------------------
EXTENDS CbiosDisk, TLC
CONSTANTS A, B, v1, v2
\* What the next step depends on: the BDOS sets the track, the sector and the
\* data anew, a tracked position means nothing once the count is 0 (UNA_CHK),
\* lost, dma and status only speak of the last step.
View == <<sek.dsk, sek.lba, dphlba, hst, hstact, hstwrt, buf,
          IF unacnt = 0 THEN {} ELSE {una}, unacnt, media, cvars>>
\* Bound: at most one record is owed v2; which one is any.  Contents only get
\* copied, so two records mixed up differ in some such state.
OneMarked == Cardinality({r \in Rec : want[r] = v2}) <= 1
\* Symmetry by hand: the disks and the buffer start out full of v1.
MCInit == Init /\ dma = v1
MCSpec == MCInit /\ [][Next]_vars
============================================================================
