SPECIFICATION MCSpec
CONSTANTS
  Disk = {A}
  Raw = Raw
  Val = {v1, v2}
  Undef = Undef
  Tracks = 2
  SPT = 2
  RPS = 2
  RPB = 4
  DirBlocks = 0
  RandomAccess = FALSE
  A = A
  DriveA = A
  B = B
  v1 = v1
  v2 = v2
CONSTRAINT OneMarked
VIEW View
INVARIANTS TypeOK Coherent FillIsFresh
