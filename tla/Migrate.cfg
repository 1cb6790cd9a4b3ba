CONSTANTS
  old = old
  current = current
  next = next
  dev = dev
  text = text
  edited = edited
  Nobody = Nobody
  Proc = {old, current, next, dev}
  Text = {text, edited}
  Known <- MCKnown
SPECIFICATION Spec
INVARIANTS SchemaWhole ReadyIsMigrated HealthyMeansCurrent
PROPERTIES Implements StartSettles
