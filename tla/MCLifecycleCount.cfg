\* Five blocks with block counts modulo four: the uint32 conversion, scaled down.
SPECIFICATION FairSpec
CONSTANTS
  Absent = Absent
  NoSum = NoSum
  Lengths <- LargerThanCount
  BlockSize = 2
  CountMod = 4
  Faults <- NoFaults
  MaxRuns = 1
  MaxMishaps = 1
INVARIANTS
  Lossless
