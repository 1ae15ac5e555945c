SPECIFICATION FairSpec
CONSTANTS
  MaxArticle = 4
  NoLimit <- MinusOne
  Styles <- AllStyles
  Crashes = TRUE
INVARIANTS
  AsksOnce
PROPERTIES
  Complete
  NothingExtra
  Arrives
