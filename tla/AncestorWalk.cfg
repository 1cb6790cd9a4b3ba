CONSTANTS
  VaultId = {v1}
  EntryId = {e1, e2, e3, e4}
  JobId = {}
  ChunkIndex = {}
  Root = Root
  NoEntry = NoEntry
  RawName = {"docs"}
  Name = {"docs"}
  Key = {"docs"}
  Display <- MCDisplay
  Fold <- MCFold
  Invalid = "invalid"
SPECIFICATION Spec
INVARIANTS Sound Complete
PROPERTY Terminates
CHECK_DEADLOCK FALSE
