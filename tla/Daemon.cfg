CONSTANTS
  c1 = c1
  c2 = c2
  hung = hung
  Conn = {c1, c2, hung}
  Hung = {hung}
  Givens <- MCGivens
SPECIFICATION Spec
INVARIANTS Released InFlightAnswered ServerComesBack
PROPERTIES BoundAsAsked StopsAfterSignal
CHECK_DEADLOCK FALSE
