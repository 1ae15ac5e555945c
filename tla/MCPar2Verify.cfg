SPECIFICATION Spec
CONSTANTS
  BlockSize = 2
  HashedFirst = 3
  Buckets = 2
  Byte = {0, 1, 2}
  Crc <- SumOfBytes
  Number <- InBase3
  Jobs <- Directories
INVARIANTS
  WindowFollows
  FoundIsThere
  IntactIsFound
  EnoughAsked
PROPERTIES
  Advances
