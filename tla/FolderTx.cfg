CONSTANTS
  v1 = v1
  v2 = v2
  v3 = v3
  a = a
  b = b
  c = c
  d = d
  p1 = p1
  p2 = p2
  k1 = k1
  k2 = k2
  VaultId = {v1, v2, v3}
  EntryId = {a, b, c, d}
  JobId = {j1}
  ChunkIndex = {0}
  Root = Root
  NoEntry = NoEntry
  RawName = {"docs", "pics", ".."}
  Name = {"docs", "pics"}
  Key = {"docs", "pics"}
  Invalid = "invalid"
  Client = {k1, k2}
  Store = {p1, p2}
  Nobody = Nobody
  Disturbances = {"failures", "closes", "crashes"}
  Display <- MCDisplay
  Fold <- MCFold
  Placements <- TogetherOrApart
  Menu <- MCMenu
  Seeds <- OneSeed
SPECIFICATION Spec
INVARIANT LocksAreFreed
PROPERTIES Implements EveryCallReturns
CHECK_DEADLOCK FALSE
