SPECIFICATION DiskSpec
CONSTANTS
  Disk <- Floppy
  Sectors = 2
  Count = {1, 2}
  Tags = 2
  Tries = 0
  Val = {0, 1}
  junk = junk
  none = none
INVARIANT FloppyExact
CHECK_DEADLOCK FALSE
