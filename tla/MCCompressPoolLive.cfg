\* Two workers, four batches of two blocks; nine blocks: batches recycle, the last is short.
SPECIFICATION FairSpec
CONSTANTS
  w1 = w1
  w2 = w2
  w3 = w3
  Workers <- TwoWorkers
  BatchSize = 2
  NumBlocks = 9
PROPERTIES
  ImplementsPipe
  Terminates
