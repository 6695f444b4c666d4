SPECIFICATION Spec
CONSTANTS
  Environments <- MCEnvironments
  Workers = {w1, w2, w3, w4}
  MaxHarvests = 2
  HwAnswers <- MCHwAnswers
  Samples <- MCSamples
  Others <- MCOthers
  RctCutoff = 3
  MinEntropy = 2
  Bytes = {1, 2}
  Buffers <- MCBuffers
  Signatures <- MCSignatures
  Ones = 3
  Poison = 4
  CANARY_VALUE <- MCCanary
  MinUniqueProof = 4
  MinUniqueDigest = 3
  MaxSeeds = 2
  MaxText = 1
  MaxDerived = 2
  Threads = {t1, t2}
  b1 = b1  b2 = b2  b3 = b3
  p1 = p1  p2 = p2
  Bufs = {b1, b2, b3}
  Pages = {p1, p2}
  PageOf <- Placement
  N = 1
  Limit = 1
  HasLimit = TRUE
  Word = 16
  NoBuf = NoBuf
CHECK_DEADLOCK FALSE
INVARIANTS
  UsageExact
  OvershootBounded
  NoPinLeak
  WipedBeforeRelease
  AloneIsPinned
  EveryDrawCounts
  SeedsAreFresh
  HarvestCleansUp
  HealthTestsAreExact
  LayersBindInputs
PROPERTIES
  EventuallyReleased
  WipeEndsInZeros
  HarvestReturns
