\* One block of up to three bytes, each with its own alphabet in full (-noref).
SPECIFICATION Spec
CONSTANTS
  CacheN = 5
  AccBits = 7
  ByteBits = 2
  MaxBlock = 5
  CounterSpace = 4
  FieldSpace = 10
  BlockSpace = 4
  Files <- FewFiles
  References <- NoReference
  Keys <- BothKeys
  Digest <- TestDigest
  DigestBytes = 3
  ExtraBytes = 1
  ZeroChunk = 3
INVARIANTS
  WrongKeyIsCaught
