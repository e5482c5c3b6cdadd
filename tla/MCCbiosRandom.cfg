SPECIFICATION MCSpec
CONSTANTS
  Disk = {A}
  Raw = Raw
  Val = {v1, v2}
  Undef = Undef
  Tracks = 2
  SPT = 2
  RPS = 2
  RPB = 2
  DirBlocks = 0
  RandomAccess = TRUE
  A = A
  DriveA = A
  B = B
  v1 = v1
  v2 = v2
CONSTRAINT OneMarked
VIEW View
INVARIANT Coherent
