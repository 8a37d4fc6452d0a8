\* Two workers, four batches of two blocks, nine blocks, the last one short; three archives.
SPECIFICATION FairSpec
CONSTANTS
  w1 = w1
  w2 = w2
  Workers <- TwoWorkers
  BatchSize = 2
  NumBlocks = 9
  BufferSize = 2
  Remainder = 1
  Archives <- SomeArchives
INVARIANTS
  TypeOK
  Restores
  NoUseAfterRecycle
  HashCoversOutput
PROPERTIES
  ImplementsPipe
  Terminates
