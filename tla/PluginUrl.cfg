SPECIFICATION Spec
CONSTANTS
  Workers = {w1, w2}
  Reader = reader
  SymbolTasks = {s1, s2}
  GroupTasks = {g1}
  Tasks = {reader, s1, s2, g1}
  Urgent = {reader}
  Idle = Idle
  SleepIterationCount = 2
  MaxRows = 3
  Cores = {0, 2}
CHECK_DEADLOCK FALSE
INVARIANTS RefusedUrlIsEmpty
