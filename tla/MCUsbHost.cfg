SPECIFICATION FairSpec
CONSTANTS
  Ring = 4
  Slots = 2
  Report <- MCReport
  Disk <- Both
  Sectors = 2
  Count = {0, 1, 2}
  Tags = 3
  Tries = 2
  Val = {0, 1}
  junk = junk
  none = none
CONSTRAINT OneAtATime
INVARIANT HostTypeOK KeymapRight TokensAddressed  FloppySectorHonest
PROPERTY CallsReturn ImplementsKeyQueue NewKeyTyped
CHECK_DEADLOCK FALSE
