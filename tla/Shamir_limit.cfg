SPECIFICATION ShamirSpec
CONSTANTS
  Bits = 3
  POLY = 11
  MaxCoeffs = 3
  MaxN = 4
INVARIANTS
  SplitAlwaysReturns
