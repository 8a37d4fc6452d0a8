\* Files of one to three blocks, with the right and with a wrong key.
SPECIFICATION Spec
CONSTANTS
  CacheN = 5
  AccBits = 7
  ByteBits = 2
  MaxBlock = 5
  CounterSpace = 4
  FieldSpace = 10
  BlockSpace = 4
  Files <- SomeFiles
  References <- SomeReferences
  Keys <- BothKeys
  Digest <- TestDigest
  DigestBytes = 3
  ExtraBytes = 1
  ZeroChunk = 3
INVARIANTS
  TypeOK
  RoundTrip
  InStep
  FieldsFit
  NoncesUnique
  RoomForEach
PROPERTIES
  StaysInBlock
