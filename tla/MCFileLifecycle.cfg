\* Up to three runs on files of one to five bytes, with every fault.
SPECIFICATION FairSpec
CONSTANTS
  Absent = Absent
  NoSum = NoSum
  Lengths <- SomeLengths
  BlockSize = 2
  CountMod = 8
  Faults <- EveryFault
  MaxRuns = 3
  MaxMishaps = 1
INVARIANTS
  TypeOK
  Recoverable
  SuccessIsTrue
  AcceptsOwnArchive
PROPERTIES
  EveryRunEnds
