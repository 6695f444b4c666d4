SPECIFICATION AggregateSpec
CONSTANTS
  MaxClaims = 4
  MaxN = 4
  U32 = 4
INVARIANTS
  VerdictIsExact
