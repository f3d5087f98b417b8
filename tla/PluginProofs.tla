----------------------------- MODULE PluginProofs -----------------------------
(***************************************************************************)
(* Theorems of Plugin, for every number of threads, tasks and rows and     *)
(* every stop interval.                                                    *)
(***************************************************************************)
EXTENDS Plugin, FiniteSetTheorems, Lemmas

\* A task about to publish found a row, and is a publish task.
PublishOK ==
  \A w \in Workers :
    at[w] = "publish" => running[w] \in PublishTasks /\ row[w] < MaxRows

\* Once the pool is destroyed no thread is left to take or run a task, and
\* the connection goes after the pool.
UnloadOK ==
  /\ stage \in {"drained", "unloaded"} => threads = {} /\ Busy = {}
  /\ conn = "gone" => stage = "unloaded"

\* Rows published after the pause are those since the last look at the pool:
\* no more than the index is past it.  A full interval means that the task is
\* at a look, or has just changed loops and will look first.
LateOK ==
  \A w \in Workers :
    /\ late[w] <= SleepIterationCount
    /\ ~poolPaused => late[w] = 0
    /\ at[w] = "publish" \/ row[w] % SleepIterationCount # 0
         => late[w] <= row[w] % SleepIterationCount

IInv == TypeOK /\ PublishOK /\ UnloadOK /\ LateOK

-----------------------------------------------------------------------------

LEMMA InitIInv == Init => IInv
<1> SUFFICES ASSUME Init PROVE IInv
  OBVIOUS
<1>1. TypeOK
  <2>1. PoolTypeOK
    BY DEF Init, NoPool, PoolTypeOK
  <2>2. config \in Configs
    BY PoolAssumption, FS_CardinalityType DEF Init, NoConfig, Configs
  <2>3. row \in [Workers -> 0 .. MaxRows]
    BY PluginAssumption DEF Init
  <2> QED BY <2>1, <2>2, <2>3 DEF Init, TypeOK, Stages, Refusals
<1>2. PublishOK /\ UnloadOK
  BY DEF Init, PublishOK, UnloadOK
<1>3. LateOK
  BY PluginAssumption, NextRemainder DEF Init, LateOK
<1> QED BY <1>1, <1>2, <1>3 DEF IInv

\* The steps of MtSrvStartup, of the hooks and of MtSrvCleanup take no task
\* any further.
LEMMA OutsideStep ==
  ASSUME IInv, TypeOK', UnloadOK', UNCHANGED <<running, sweeps>>,
         poolPaused => poolPaused'
  PROVE  IInv'
<1>1. PublishOK'
  BY DEF IInv, PublishOK, sweeps
<1>2. LateOK'
  BY DEF IInv, LateOK, sweeps, TypeOK, PoolTypeOK
<1> QED BY <1>1, <1>2 DEF IInv

LEMMA RefuseStep ==
  ASSUME IInv, stage = "absent", NEW why \in Refusals, NEW c \in Configs, Refuse(why, c)
  PROVE  IInv'
<1>1. TypeOK' /\ UnloadOK'
  BY DEF IInv, TypeOK, PoolTypeOK, UnloadOK, Stages, Refuse, pool, sweeps, Busy
<1> QED BY <1>1, OutsideStep DEF Refuse, pool

LEMMA StartupStep ==
  ASSUME IInv,
         StartupRefuses \/ InitializeRefuses \/ Initialize \/ Connect \/ Subscribe
  PROVE  IInv'
<1>1. CASE StartupRefuses
  <2>1. NoConfig \in Configs
    BY PoolAssumption, FS_CardinalityType DEF NoConfig, Configs
  <2>2. stage = "absent" /\ \E why \in Refusals : Refuse(why, NoConfig)
    BY <1>1 DEF StartupRefuses, Refusals
  <2> QED BY <2>1, <2>2, RefuseStep
<1>2. CASE InitializeRefuses
  <2>1. stage = "absent" /\ \E c \in Configs, why \in Refusals : Refuse(why, c)
    BY <1>2 DEF InitializeRefuses, Refusals
  <2> QED BY <2>1, RefuseStep
<1>3. CASE Initialize
  <2>1. PICK c \in Configs, cores \in Cores :
          config' = c /\ CreatePool(PoolSize(c.size, cores))
    BY <1>3 DEF Initialize
  <2>2. threads' \subseteq Workers /\ UNCHANGED <<queued, running, poolPaused>>
    BY <2>1 DEF CreatePool
  <2>3. TypeOK' /\ UnloadOK' /\ UNCHANGED sweeps
    BY <1>3, <2>1, <2>2
    DEF Initialize, IInv, TypeOK, PoolTypeOK, UnloadOK, Stages, sweeps, Busy
  <2> QED BY <2>2, <2>3, OutsideStep
<1>4. CASE Connect
  <2>1. TypeOK' /\ UnloadOK'
    BY <1>4 DEF Connect, IInv, TypeOK, PoolTypeOK, UnloadOK, Stages, pool, sweeps, Busy
  <2> QED BY <1>4, <2>1, OutsideStep DEF Connect, pool
<1>5. CASE Subscribe
  <2>1. Reader \in Tasks
    BY PluginAssumption
  <2>2. TypeOK' /\ UnloadOK'
    BY <1>5, <2>1
    DEF Subscribe, DetachTask, IInv, TypeOK, PoolTypeOK, UnloadOK, Stages, pool, sweeps, Busy
  <2> QED BY <1>5, <2>2, OutsideStep DEF Subscribe, DetachTask, pool
<1> QED BY <1>1, <1>2, <1>3, <1>4, <1>5

LEMMA HookStep ==
  ASSUME IInv, MtSrvSymbolsAdd \/ MtSrvGroupsAdd
  PROVE  IInv'
<1>1. PICK t \in Tasks : DetachTask(t)
  BY PluginAssumption DEF MtSrvSymbolsAdd, MtSrvGroupsAdd
<1>2. UNCHANGED <<life, sweeps>>
  BY DEF MtSrvSymbolsAdd, MtSrvGroupsAdd
<1>3. TypeOK' /\ UnloadOK'
  BY <1>1, <1>2 DEF IInv, TypeOK, PoolTypeOK, UnloadOK, DetachTask, life, sweeps, Busy
<1> QED BY <1>1, <1>2, <1>3, OutsideStep DEF DetachTask

\* DeletePool waits for the tasks before the connection can be closed.
LEMMA CleanupStep ==
  ASSUME IInv, MtSrvCleanup \/ Unload
  PROVE  IInv'
<1> USE DEF IInv, TypeOK, PoolTypeOK, UnloadOK, Stages, pool, sweeps, UnloadTo
<1>1. CASE MtSrvCleanup
  <2>1. TypeOK' /\ UnloadOK'
    BY <1>1 DEF MtSrvCleanup, Busy
  <2> QED BY <1>1, <2>1, OutsideStep DEF MtSrvCleanup
<1>2. CASE DeleterPause
  <2>1. TypeOK' /\ UnloadOK'
    BY <1>2 DEF DeleterPause, Pause, Busy
  <2> QED BY <1>2, <2>1, OutsideStep DEF DeleterPause, Pause
<1>3. CASE DeleterWaitFor
  <2>1. TypeOK' /\ UnloadOK'
    BY <1>3 DEF DeleterWaitFor, Busy
  <2> QED BY <1>3, <2>1, OutsideStep DEF DeleterWaitFor
<1>4. CASE DeletePool
  <2>1. TypeOK' /\ UnloadOK'
    BY <1>4 DEF DeletePool, DestroyPool, WaitOver, Busy
  <2> QED BY <1>4, <2>1, OutsideStep DEF DeletePool, DestroyPool
<1>5. CASE CloseConnection
  <2>1. TypeOK' /\ UnloadOK'
    BY <1>5 DEF CloseConnection, Busy
  <2> QED BY <1>5, <2>1, OutsideStep DEF CloseConnection
<1> QED BY <1>1, <1>2, <1>3, <1>4, <1>5 DEF Unload

LEMMA TakeStep ==
  ASSUME IInv, NEW w \in Workers, Take(w)
  PROVE  IInv'
<1> USE DEF IInv, TypeOK, PoolTypeOK, life
<1>1. PICK t \in Tasks :
        /\ TakeTask(w, t)
        /\ loop' = [loop EXCEPT ![w] = IF t \in GroupTasks THEN "margins" ELSE "rows"]
  BY DEF Take
<1>2. w \in threads /\ running[w] = Idle /\ ~poolPaused
  BY <1>1 DEF TakeTask
<1>3. TypeOK'
  BY <1>1, PluginAssumption DEF Take, TakeTask
<1>4. PublishOK'
  BY <1>1, <1>2, PoolAssumption, PluginAssumption DEF PublishOK, PublishTasks, Take, TakeTask
<1>5. UnloadOK'
  BY <1>1, <1>2 DEF UnloadOK, Take, TakeTask
<1>6. LateOK'
  BY <1>1, PluginAssumption, NextRemainder DEF LateOK, Take, TakeTask
<1> QED BY <1>3, <1>4, <1>5, <1>6

\* A look at the pool on a multiple of the interval passes only if the pool
\* is not paused, and then nothing has been published since the pause.
LEMMA NextRowStep ==
  ASSUME IInv, NEW w \in Workers, NextRow(w)
  PROVE  IInv'
<1> USE DEF IInv, TypeOK, PoolTypeOK, pool, life, NextRow, AtNext
<1>1. TypeOK' /\ UnloadOK'
  BY DEF UnloadOK, Busy
<1>2. PublishOK'
  BY DEF PublishOK
<1>3. LateOK'
  <2>1. late[w] <= row[w] % SleepIterationCount
    BY PluginAssumption, NextRemainder DEF LateOK, ShouldStopTask
  <2> QED BY <2>1 DEF LateOK
<1> QED BY <1>1, <1>2, <1>3

LEMMA EndStep ==
  ASSUME IInv, NEW w \in Workers, AtNext(w), FinishTask(w), UNCHANGED <<life, sweeps>>
  PROVE  IInv'
<1> USE DEF IInv, TypeOK, PoolTypeOK, life, sweeps, AtNext, FinishTask
<1>1. TypeOK'
  OBVIOUS
<1>2. UnloadOK'
  BY DEF UnloadOK, Busy
<1>3. PublishOK'
  BY DEF PublishOK
<1>4. LateOK'
  BY DEF LateOK
<1> QED BY <1>1, <1>2, <1>3, <1>4

LEMMA RowsRunOutStep ==
  ASSUME IInv, NEW w \in Workers, RowsRunOut(w)
  PROVE  IInv'
<1>1. CASE loop[w] = "margins"
  <2> USE <1>1 DEF IInv, TypeOK, PoolTypeOK, pool, life, RowsRunOut, AtNext
  <2>1. TypeOK' /\ UnloadOK'
    BY PluginAssumption DEF UnloadOK, Busy
  <2>2. PublishOK'
    BY DEF PublishOK
  <2>3. LateOK'
    BY PluginAssumption, NextRemainder DEF LateOK
  <2> QED BY <2>1, <2>2, <2>3
<1>2. CASE loop[w] # "margins"
  BY <1>2, EndStep DEF RowsRunOut, life, sweeps
<1> QED BY <1>1, <1>2

LEMMA PublishRowStep ==
  ASSUME IInv, NEW w \in Workers, PublishRow(w)
  PROVE  IInv'
<1> USE DEF IInv, TypeOK, PoolTypeOK, pool, life, PublishRow
<1>1. row[w] \in Nat /\ row[w] < MaxRows /\ late[w] <= row[w] % SleepIterationCount
  BY PluginAssumption DEF PublishOK, LateOK
<1>2. TypeOK'
  BY <1>1, PluginAssumption
<1>3. UnloadOK'
  BY DEF UnloadOK, Busy
<1>4. PublishOK'
  BY DEF PublishOK
<1>5. LateOK'
  <2>1. /\ row[w] % SleepIterationCount \in 0 .. SleepIterationCount - 1
        /\ \/ row'[w] % SleepIterationCount = 0
           \/ row'[w] % SleepIterationCount = (row[w] % SleepIterationCount) + 1
    BY <1>1, PluginAssumption, NextRemainder
  <2>2. late'[w] <= (row[w] % SleepIterationCount) + 1 /\ (~poolPaused => late' = late)
    BY <1>1, <2>1
  <2>3. \A v \in Workers \ {w} : late'[v] = late[v] /\ row'[v] = row[v] /\ at'[v] = at[v]
    OBVIOUS
  <2>4. at'[w] = "next"
    OBVIOUS
  <2> QED BY <2>1, <2>2, <2>3, <2>4, PluginAssumption DEF LateOK
<1> QED BY <1>2, <1>3, <1>4, <1>5

\* The reader is no publish task, and neither publishes rows nor ends.
LEMMA ReaderStep ==
  ASSUME IInv, NEW w \in Workers, ReadTradeRequest(w)
  PROVE  IInv'
<1> USE DEF IInv, TypeOK, PoolTypeOK, pool, life, ReadTradeRequest
<1>1. at[w] # "publish" /\ at'[w] # "publish"
  BY PluginAssumption DEF PublishOK, PublishTasks
<1>2. \A v \in Workers \ {w} : at'[v] = at[v]
  OBVIOUS
<1>3. TypeOK' /\ UnloadOK'
  BY DEF UnloadOK, Busy
<1>4. PublishOK'
  BY <1>1, <1>2 DEF PublishOK
<1>5. LateOK'
  BY <1>1, <1>2 DEF LateOK
<1> QED BY <1>3, <1>4, <1>5

-----------------------------------------------------------------------------

LEMMA StepIInv == IInv /\ [Next]_vars => IInv'
<1> SUFFICES ASSUME IInv, [Next]_vars PROVE IInv'
  OBVIOUS
<1>1. CASE StartupRefuses \/ InitializeRefuses \/ Initialize \/ Connect \/ Subscribe
  BY <1>1, StartupStep
<1>2. CASE MtSrvSymbolsAdd \/ MtSrvGroupsAdd
  BY <1>2, HookStep
<1>3. CASE MtSrvCleanup \/ Unload
  BY <1>3, CleanupStep
<1>4. ASSUME NEW w \in Workers, Take(w) PROVE IInv'
  BY <1>4, TakeStep
<1>5. ASSUME NEW w \in Workers, TaskStep(w) PROVE IInv'
  <2>1. CASE NextRow(w)
    BY <2>1, NextRowStep
  <2>2. CASE StopTask(w)
    BY <2>2, EndStep DEF StopTask
  <2>3. CASE RowsRunOut(w)
    BY <2>3, RowsRunOutStep
  <2>4. CASE PublishRow(w)
    BY <2>4, PublishRowStep
  <2> QED BY <1>5, <2>1, <2>2, <2>3, <2>4 DEF TaskStep
<1>6. ASSUME NEW w \in Workers, ReadTradeRequest(w) PROVE IInv'
  BY <1>6, ReaderStep
<1>7. CASE UNCHANGED vars
  <2>1. TypeOK' /\ UnloadOK'
    BY <1>7 DEF IInv, TypeOK, PoolTypeOK, UnloadOK, Busy, vars, pool, life, sweeps
  <2> QED BY <1>7, <2>1, OutsideStep DEF vars, pool
<1> QED BY <1>1, <1>2, <1>3, <1>4, <1>5, <1>6, <1>7 DEF Next

LEMMA Invariance == Spec => []IInv
BY InitIInv, StepIInv, PTL DEF Spec

\* Every variable keeps its type, whatever the server and its hooks do.
THEOREM TypeCorrect == Spec => []TypeOK
BY Invariance, PTL DEF IInv

\* plugin.h:76 declares the pool after the connection: whatever is running
\* when MtSrvCleanup comes, the connection is closed after the last task.
THEOREM ConnectionSafety == Spec => []ConnOutlivesTasks
<1>1. IInv => ConnOutlivesTasks
  BY DEF IInv, UnloadOK, ConnOutlivesTasks
<1> QED BY <1>1, Invariance, PTL

\* plugin.cpp:365-379, for any interval and any length of the tables: after a
\* pause a task publishes at most one interval of rows.
THEOREM PauseBound == Spec => []FewRowsAfterPause
<1>1. IInv => FewRowsAfterPause
  BY DEF IInv, LateOK, FewRowsAfterPause
<1> QED BY <1>1, Invariance, PTL

=============================================================================
