CONSTANTS
  Names = {a, b}
  MaxDir = 2
  DirPerBlock = 1
  DiskSize = 5
  Pointers = 2
  Blk = 4
  Sec = 2
  Rec = 2
  Lx = 4
  Buf = 2
  MaxLen = 10
  Sessions = 3
  Faults = 1
  Free = Free
  Zero = Zero
  Junk = Junk
  NoFile = NoFile
SPECIFICATION FsSpec
SYMMETRY FileNames
INVARIANT FsTypeOK SpaceSound  OwnData
PROPERTY Bystanders
CHECK_DEADLOCK FALSE
