SPECIFICATION SaveSpec
CONSTANTS
  p1 = p1
  p2 = p2
  i1 = i1
  i2 = i2
  i3 = i3
  i4 = i4
  Proc <- MCProc
  Inode <- MCInode
  NoInode = NoInode
  Locked = TRUE
  KeepsOld = TRUE
  MaxSaves = 3
SYMMETRY Symmetry
INVARIANTS
  WholeFile
PROPERTIES
  FileStays
CHECK_DEADLOCK FALSE
