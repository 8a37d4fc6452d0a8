\* All subsets of 16 positions, a 12-bit accumulator.
SPECIFICATION Spec
CONSTANTS
  Universe = 16
  CacheN = 16
  AccBits = 12
INVARIANTS
  RankIsPosition
  HockeyStickAgrees
  UnrankInverts
  RanksFillModulus
CHECK_DEADLOCK FALSE
