SPECIFICATION MCSpec
CONSTANTS
  MaxLeaves = 9
  MaxForged = 4
  MaxPath = 3
  UsizeBits = 4
  Trees <- MCTrees
  Offers <- MCOffers
  Bits = 3
  POLY = 11
  MaxCoeffs = 3
  MaxN = 4
  Strings <- MCStrings
  Lengths = {0, 1}
  MaxCalls = 3
  Seeds = {s1, s2}
  Messages = {m1, m2}
  Wiped = wiped
  MaxSigned = 3
  Width = 3
  SECURITY_BITS = 2
  U8 = 4
  ShareValues = {0, 1}
  MaxHeld = 5
  MaxProofs = 2
INVARIANTS
  ProverIsRFC6962
  AcceptedIsIncluded
  RoundTrip
  Secrecy
  ChallengesBindHistory
  OneLeafPerPosition
  VerifyIsExact
