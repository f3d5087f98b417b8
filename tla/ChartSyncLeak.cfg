SPECIFICATION Spec
CONSTANTS
  Tasks = {t1, t2}
  MaxTime = 2
  SleepIterationCount = 2
INVARIANTS QuotesAreFreed
