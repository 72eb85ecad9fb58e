CONSTANTS
  x1 = x1
  x2 = x2
  k1 = k1
  k2 = k2
  k3 = k3
  k4 = k4
  w1 = w1
  w2 = w2
  None = None
  Texts = {x1}
  Tickets = {k1, k2, k3, k4}
  Workers = {w1, w2}
  MaxOthers = 2
SPECIFICATION Spec
CHECK_DEADLOCK FALSE
INVARIANTS
  DocumentIsWhole
  AgentsWaitForGate
PROPERTIES
  GateOpens
