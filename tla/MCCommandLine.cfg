SPECIFICATION Spec
CONSTANTS
  Server = {"s1", "s2"}
  Newsgroup = {"n1", "n2"}
  NoDate = NoDate
  Dir = {"start", "there", "new", "far", "closed"}
  StartPath = "start"
  Group = {"A", "B"}
  MetaGroup <- MCMetaGroup
  NoServer = "none"
  NoGroup = "none"
  Unloaded = Unloaded
  MaxRetry = 2
  Styles <- AllStyles
INVARIANTS
  StoredWhereSaid
  NothingDropped
  HostHolds
  KnownByDate
  ListKept
CHECK_DEADLOCK FALSE
