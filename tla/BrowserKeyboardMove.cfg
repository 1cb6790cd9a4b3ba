CONSTANTS
  v1 = v1
  v2 = v2
  a = a
  b = b
  c = c
  Vault = {v1, v2}
  Folder = {a, b, c}
  Root = Root
  None = None
  Keyboard = TRUE
  MaxLoads = 4
  MaxMounts = 3
  VaultOf <- MCVaultOf
  Up <- MCUp
SPECIFICATION Spec
INVARIANT NoCrossVaultMove
CHECK_DEADLOCK FALSE
