SPECIFICATION Spec
CONSTANTS
  Workers = {w1, w2}
  SymbolCopies <- MCSymbolCopies
  GroupCopies <- MCGroupCopies
  Tasks <- MCTasks
  Urgent = {}
  Idle = Idle
  None = None
  SleepIterationCount = 2
  MaxChanges = 3
CHECK_DEADLOCK FALSE
INVARIANTS TypeOK EveryPairToldOrLogged
PROPERTIES FeedSettles
