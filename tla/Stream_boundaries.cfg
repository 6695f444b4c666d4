SPECIFICATION TwiceSpec
CONSTANTS
  Bytes = {1, 2, 3}
  Names = {1, 2, 3}
  Sizes = {0, 1, 2}
  Worlds <- MCWorlds
  ArgLists <- MCArgLists
  EventLists <- MCEventLists
INVARIANTS
  FileContentsAreBound
