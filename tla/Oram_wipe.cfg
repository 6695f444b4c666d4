SPECIFICATION OramSpec
CONSTANTS
  Size = 2
  Addrs = {0, 1}
  Values <- MCValues
  Genesis = 0
  Hash <- MCHash
  Updates <- MCUpdates
INVARIANT OldValueWiped
