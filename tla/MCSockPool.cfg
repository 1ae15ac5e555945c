SPECIFICATION SessionSpec
CONSTANTS
  s1 = s1
  s2 = s2
  s3 = s3
  g1 = g1
  g2 = g2
  Group <- Groups
  NoGroup = NoGroup
  Server <- Three
  NoServer = NoServer
  MaxConnections = 2
  IdleTimeout = 2
  PenaltyStrikes = 2
  InitialPenalty = 1
  PenaltyMultiplier = 2
  QuitFails = TRUE
  MaxStall = 1
  MaxTime = 3
SYMMETRY Symmetry
INVARIANTS
  PoolBound
  StruckNotPooled
  
PROPERTIES
  PenaltyRunsOut
CHECK_DEADLOCK FALSE
