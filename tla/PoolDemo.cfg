SPECIFICATION Spec
CONSTANTS
  Workers = {w1, w2}
  Tasks = {k1, k2, k3, k4}
  Urgent = {k1, k2, k3, k4}
  Idle = Idle
CHECK_DEADLOCK FALSE
INVARIANTS TypeOK QuietWhenSaid
PROPERTIES MainReturns
