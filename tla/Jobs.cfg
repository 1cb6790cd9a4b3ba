CONSTANTS
  w1 = w1
  w2 = w2
  j1 = j1
  j2 = j2
  v1 = v1
  v2 = v2
  a = a
  JobId = {j1, j2}
  Worker = {w1, w2}
  Nobody = Nobody
  NoJob = NoJob
  NoEntry = NoEntry
  Vault = {v1, v2}
  Entry = {a}
  EntryVault <- MCEntryVault
  Identity <- MCIdentity
  Progress <- MCProgress
  JobState = {"running", "completed"}
  ReadInside = {j1}
SPECIFICATION Spec
PROPERTIES MilestonesOnly WholeRecords ProgressIsKept
