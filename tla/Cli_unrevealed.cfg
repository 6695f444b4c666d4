SPECIFICATION MCSpec
CONSTANTS
  Bytes = {1, 2, 3}
  Names = {1, 2, 3}
  Sizes = {0, 1, 2}
  Worlds <- MCWorlds
  ArgLists <- MCArgLists
  EventLists <- MCEventLists
  Claims <- MCClaims
  MaskLen = 2
  XofLen = 3
  Counters = 4
  DataLens = {0, 2, 4}
  MaxTokens = 2
  MaxReveals = 2
  MaxBlinds = 2
  MaxAbsorbs = 3
  MaxReads = 3
  Argvs <- MCArgvs
  FileSizes = {0, 2, 3, 4}
  MAX_FILE_SIZE = 2
  MAX_COUNT = 2
  MaxAlloc = 3
  UsizeBits = 2
  MaxInvocations = 2
INVARIANT EveryTokenCanBeRevealed
