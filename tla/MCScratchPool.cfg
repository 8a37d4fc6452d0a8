\* Two callers with two calls each, the first of up to six bits, the others of one.
SPECIFICATION Spec
CONSTANTS
  AccBits = 6
  ByteBits = 2
  ZeroChunk = 3
  c1 = c1
  c2 = c2
  s1 = s1
  s2 = s2
  Callers <- TwoCallers
  Scratches <- TwoScratches
  MaxCalls = 2
  MaxBits <- FewBits
  Unused = Unused
INVARIANTS
  TypeOK
  NotShared
  HoldsBits
  ResultsStay
  ReadsBack
