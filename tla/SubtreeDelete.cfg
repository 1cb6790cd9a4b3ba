CONSTANTS
  EntryId = {e1, e2, e3, e4}
  Root = Root
  MaxFlawed = 1
SPECIFICATION Spec
INVARIANTS ZeroMutation WholeSubtree OnlyCorrupted RefusedForCause
PROPERTY Terminates
CHECK_DEADLOCK FALSE
