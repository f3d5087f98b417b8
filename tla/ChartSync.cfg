SPECIFICATION Spec
CONSTANTS
  Tasks = {t1, t2}
  MaxTime = 3
  SleepIterationCount = 2
INVARIANTS TypeOK PointIsSettled EndedSyncIsComplete
PROPERTIES KeepsPromise SyncEnds
