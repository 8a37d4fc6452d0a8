\* An empty file, compressed and decompressed, whose output may not be creatable.
SPECIFICATION FairSpec
CONSTANTS
  Absent = Absent
  NoSum = NoSum
  Lengths <- OnlyEmpty
  BlockSize = 2
  CountMod = 8
  Faults <- CreateFault
  MaxRuns = 2
  MaxMishaps = 1
INVARIANTS
  Lossless
