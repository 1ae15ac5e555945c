SPECIFICATION MidSpec
CONSTANTS
  p1 = p1
  p2 = p2
  a = a
  b = b
  Proc <- MCProc
  Mid <- TwoMids
  MaxTime = 1
  Keep = 0
  KeepDel = 0
SYMMETRY Symmetry
INVARIANTS
  AllSaved
PROPERTIES
  NothingLost
  RemovalKept
