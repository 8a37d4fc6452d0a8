\* One compression whose flush may fail.
SPECIFICATION FairSpec
CONSTANTS
  Absent = Absent
  NoSum = NoSum
  Lengths <- SomeLengths
  BlockSize = 2
  CountMod = 8
  Faults <- FlushFault
  MaxRuns = 1
  MaxMishaps = 1
INVARIANTS
  Lossless
