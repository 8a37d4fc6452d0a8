\* One compression, while another process appends to the file.
SPECIFICATION FairSpec
CONSTANTS
  Absent = Absent
  NoSum = NoSum
  Lengths <- SomeLengths
  BlockSize = 2
  CountMod = 8
  Faults <- GrowFault
  MaxRuns = 1
  MaxMishaps = 1
INVARIANTS
  Lossless
