SPECIFICATION MCSpec
CONSTANTS
  c1 = c1  c2 = c2
  Entries = {"once", "seed", "oram", "vm", "hybrid", "relation"}
  Claims = {c1, c2}
  CallerSeeds = {s1}
  VmAccepts = {c1}
  StatementOf <- OneStatement
  MixRounds = 2
  MaxCalls = 3
  NoCall = NoCall
  MaxClaims = 4
  MaxN = 3
  U32 = 4
  Bits = 8
  Programs <- MCPrograms
  MaxCode = 6
  Depth = 3
  Words <- MCWords
  Alu <- MCAlu
  VmNot <- MCNot
  Table <- MCTable
  Canaries = {"ok", "max", "zero"}
  Size = 3
  Addrs = {0, 1, 3, 5}
  Values <- MCValues
  Genesis = 0
  Hash <- MCHash
  Updates <- MCUpdates
INVARIANTS
  OnlyKeysAfterL2
  HarvestedContextsAreFresh
  VerdictIsExact
  OkIsAuditable
  TypeOK
  NoStaleSlots
  RootIsReference
  TraceTellsCode
  Oblivious
PROPERTIES
  ImplementsAttest
  EveryStepAdvances
  ImplementsMemory
