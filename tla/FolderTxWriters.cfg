CONSTANTS
  v1 = v1
  v2 = v2
  v3 = v3
  a = a
  b = b
  c = c
  d = d
  p1 = p1
  p2 = p2
  k1 = k1
  k2 = k2
  VaultId = {v1, v2}
  EntryId = {a, b, c, d}
  JobId = {j1}
  ChunkIndex = {0}
  Root = Root
  NoEntry = NoEntry
  RawName = {"docs", "pics"}
  Name = {"docs", "pics"}
  Key = {"docs", "pics"}
  Invalid = "invalid"
  Client = {k1, k2}
  Store = {p1, p2}
  Nobody = Nobody
  Disturbances = {"writers"}
  Display <- MCDisplay
  Fold <- MCFold
  Placements <- Apart
  Menu <- DeleteMenu
  Seeds <- OneSeed
SPECIFICATION Spec
INVARIANTS ChecksStillHold BackstopUnused
CHECK_DEADLOCK FALSE
