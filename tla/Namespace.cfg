CONSTANTS
  VaultId = {v1, v2}
  EntryId = {e1, e2, e3}
  JobId = {j1}
  ChunkIndex = {0}
  Root = Root
  NoEntry = NoEntry
  RawName = {"docs", "DOCS", ".."}
  Name = {"docs", "DOCS", "pics"}
  Key = {"docs", "pics"}
  Display <- MCDisplay
  Fold <- MCFold
  Invalid = "invalid"
SYMMETRY MCSymmetry
VIEW MCView
CONSTRAINT MCInstance
SPECIFICATION Spec
INVARIANTS TypeOK Tree UniqueKeys References
PROPERTIES PreciousSurvives HeldInPlace
