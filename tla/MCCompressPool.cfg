\* Three workers, six batches of two blocks; thirteen blocks: batches recycle, the last is short.
SPECIFICATION Spec
CONSTANTS
  w1 = w1
  w2 = w2
  w3 = w3
  Workers <- ThreeWorkers
  BatchSize = 2
  NumBlocks = 13
SYMMETRY Symmetry
INVARIANTS
  TypeOK
  SingleOwner
  InOrder
  CompleteAtEnd
  SendsNeverBlock
  NoSendOnClosed
