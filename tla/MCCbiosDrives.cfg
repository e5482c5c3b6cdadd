SPECIFICATION MCSpec
CONSTANTS
  Disk = {A, B}
  Raw = Raw
  Val = {v1, v2}
  Undef = Undef
  Tracks = 2
  SPT = 1
  RPS = 1
  RPB = 1
  DirBlocks = 1
  RandomAccess = FALSE
  A = A
  DriveA = A
  B = B
  v1 = v1
  v2 = v2
CONSTRAINT OneMarked
VIEW View
INVARIANTS NoStrayAddress OneSectorAtRisk
PROPERTIES DirectoryIsBarrier ImplementsStore
