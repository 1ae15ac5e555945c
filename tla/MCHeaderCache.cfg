SPECIFICATION Spec
CONSTANTS
  s1 = s1
  s2 = s2
  part1 = part1
  repost1 = repost1
  part2 = part2
  Server <- MCServer
  Msg <- MCMsg
  KeyOf <- MCKeyOf
  PartOf <- MCPartOf
  ReqOf <- MCReqOf
  MaxNum = 2
  MaxArticles = 2
  Reconfigurable = TRUE
  Truncation = TRUE
SYMMETRY Symmetry
INVARIANTS
  CountersRight
  HaveCovers
PROPERTIES
  IsArticleStore
