SPECIFICATION FairSpec
CONSTANTS
  A = A
  B = B
  Server = {A, B}
  MaxPost = 5
  KilledTemps = {"none", "whole"}
  Jobs <- RetrieveJobs
INVARIANTS
  CompleteMarkedDecoded
  Reported
PROPERTIES
  Ends
  Obtained
