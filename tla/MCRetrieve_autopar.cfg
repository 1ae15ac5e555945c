SPECIFICATION Spec
CONSTANTS
  A = A
  B = B
  Server = {A, B}
  MaxPost = 7
  KilledTemps = {"none", "whole"}
  Jobs <- AutoparJobs
INVARIANTS
  Repairable
PROPERTIES
  AsNeeded
