SPECIFICATION FairSpec
CONSTANTS
  p1 = p1
  p2 = p2
  p3 = p3
  i1 = i1
  i2 = i2
  i3 = i3
  i4 = i4
  NoNode = NoNode
  Proc <- MCProc
  Node <- MCNode
  Faults <- FaultKinds
  CrashPoints <- AllPoints
INVARIANTS
  TypeOK
  MutualExclusion
  LockIsLive
PROPERTIES
  SetlkServed
  IsRWLock
CHECK_DEADLOCK FALSE
