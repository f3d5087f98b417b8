-------------------------------- MODULE Plugin --------------------------------
(***************************************************************************)
(* The life of the plugin in the MetaTrader server: MtSrvStartup builds    *)
(* it, the server's hooks hand it symbols and groups, its pool publishes   *)
(* them row by row, and MtSrvCleanup takes it apart, member by member,     *)
(* while tasks may still be running.                                       *)
(*                                                                         *)
(* A row is one turn of a publish task's loop: a group of the server, for  *)
(* the task of a symbol; a margin of the group and then a symbol of the    *)
(* server, for the task of a group.  What is published for a row is left   *)
(* to other modules.  The third handle, of a tick, uses neither the pool   *)
(* nor a task: it is in TradeReader.                                      *)
(***************************************************************************)
EXTENDS WorkerPool

CONSTANTS
  Reader,                \* the task of nats_subscribe_to_trade_request
  SymbolTasks,           \* tasks of publish_symbol_for_groups
  GroupTasks,            \* tasks of publish_group_symbols
  SleepIterationCount,   \* sleep_iteration_count, 64 in the code
  MaxRows,               \* bound on the rows of one loop
  Cores                  \* what hardware_concurrency() may return, 0 if unknown

ASSUME PluginAssumption ==
  /\ Tasks = {Reader} \cup SymbolTasks \cup GroupTasks
  /\ Urgent = {Reader}
  /\ Reader \notin SymbolTasks \cup GroupTasks
  /\ SymbolTasks \cap GroupTasks = {}
  /\ SleepIterationCount \in Nat \ {0}
  /\ MaxRows \in Nat
  /\ Cores \subseteq Nat

VARIABLES
  stage,      \* how far the plugin has come, from one entry point to the other
  refusal,    \* why MtSrvStartup returned FALSE
  config,     \* the configuration read from ./mt4api.ini
  plugin,     \* mt4plugin is set: the hooks find the plugin
  subscribed, \* the reader task has been detached
  conn,       \* m_nats_conn
  names,      \* the topic names and the chart directory are alive
  at,         \* what each thread's task does next
  loop, row,  \* the loop it is in, and the loop's index
  late        \* rows it has published since the pool was paused

life   == <<stage, refusal, config, plugin, subscribed, conn, names>>
sweeps == <<at, loop, row, late>>
vars   == <<pool, life, sweeps>>

PublishTasks == SymbolTasks \cup GroupTasks

Stages == {"absent", "refused", "connecting", "subscribing", "live",
           "unnamed", "pausing", "deleting", "drained", "unloaded"}

\* nats_url and server_name matter by being empty or not.
Configs == [url : BOOLEAN, server : BOOLEAN, size : 0 .. Cardinality(Workers)]
NoConfig == [url |-> FALSE, server |-> FALSE, size |-> 0]

Refusals == {"none", "no server interface", "version", "ini", "no url", "no server name"}

TypeOK ==
  /\ PoolTypeOK
  /\ stage \in Stages
  /\ refusal \in Refusals
  /\ config \in Configs
  /\ plugin \in BOOLEAN /\ subscribed \in BOOLEAN /\ names \in BOOLEAN
  /\ conn \in {"none", "open", "gone"}
  /\ at \in [Workers -> {"next", "publish", "request"}]
  /\ loop \in [Workers -> {"margins", "rows"}]
  /\ row \in [Workers -> 0 .. MaxRows]
  /\ late \in [Workers -> Nat]

Init ==
  /\ NoPool
  /\ stage = "absent"
  /\ refusal = "none"
  /\ config = NoConfig
  /\ plugin = FALSE /\ subscribed = FALSE /\ names = FALSE
  /\ conn = "none"
  /\ at = [w \in Workers |-> "next"]
  /\ loop = [w \in Workers |-> "rows"]
  /\ row = [w \in Workers |-> 0]
  /\ late = [w \in Workers |-> 0]

-----------------------------------------------------------------------------
(* MtSrvStartup. *)

\* Mutant: an unknown number of cores gives one thread.
PoolSizeAtLeastOne(size, cores) == IF size # 0 THEN size ELSE IF cores # 0 THEN cores ELSE 1

PoolSize(size, cores) == IF size # 0 THEN size ELSE IF cores # 0 THEN cores ELSE 2

Refuse(why, c) ==
  /\ stage' = "refused"
  /\ refusal' = why
  /\ config' = c
  /\ UNCHANGED <<pool, plugin, subscribed, conn, names, sweeps>>

\* The server passes no interface or one of another version, or load_ini
\* throws or finds no value (plugin.cpp:90-104).
StartupRefuses ==
  /\ stage = "absent"
  /\ \E why \in {"no server interface", "version", "ini"} : Refuse(why, NoConfig)

\* The order of the tests, and the sense of the first, are those of
\* plugin::initialize.
InitializeRefuses ==
  /\ stage = "absent"
  /\ \E c \in Configs :
       \/ c.url /\ Refuse("no url", c)
       \/ ~c.url /\ ~c.server /\ Refuse("no server name", c)

\* Every member is built, the pool's threads among them, before anything is
\* connected.
Initialize ==
  /\ stage = "absent"
  /\ \E c \in Configs, cores \in Cores :
       /\ ~c.url /\ c.server
       /\ config' = c
       /\ CreatePool(PoolSize(c.size, cores))
  /\ stage' = "connecting"
  /\ names' = TRUE
  /\ UNCHANGED <<refusal, plugin, subscribed, conn, sweeps>>

\* A constructor that cannot connect logs it and returns: MtSrvStartup then
\* succeeds with a plugin that has no connection.
Connect ==
  /\ stage = "connecting"
  /\ \/ /\ conn' = "open"
        /\ stage' = "subscribing"
        /\ plugin' = plugin
     \/ /\ conn' = conn
        /\ stage' = "live"
        /\ plugin' = TRUE
  /\ UNCHANGED <<pool, refusal, config, subscribed, names, sweeps>>

\* Mutant: the reader is detached before the subscription is looked at.
SubscribeUnchecked ==
  /\ stage = "subscribing"
  /\ stage' = "live"
  /\ plugin' = TRUE
  /\ DetachTask(Reader)
  /\ subscribed' \in BOOLEAN
  /\ UNCHANGED <<refusal, config, conn, names, sweeps>>

\* Likewise when SubscribeSync or SetPendingLimits fails.
Subscribe ==
  /\ stage = "subscribing"
  /\ stage' = "live"
  /\ plugin' = TRUE
  /\ \/ DetachTask(Reader) /\ subscribed' = TRUE
     \/ UNCHANGED <<pool, subscribed>>
  /\ UNCHANGED <<refusal, config, conn, names, sweeps>>

-----------------------------------------------------------------------------
(* The server's hooks.  The server is taken not to run a hook across its    *)
(* call of MtSrvCleanup, so the test of mt4plugin and its use are one step. *)

MtSrvSymbolsAdd ==
  /\ plugin
  /\ \E t \in SymbolTasks \ (queued \cup InHand) : DetachTask(t)
  /\ UNCHANGED <<life, sweeps>>

MtSrvGroupsAdd ==
  /\ plugin
  /\ \E t \in GroupTasks \ (queued \cup InHand) : DetachTask(t)
  /\ UNCHANGED <<life, sweeps>>

-----------------------------------------------------------------------------
(* The publish tasks. *)

Take(w) ==
  /\ \E t \in Tasks :
       /\ TakeTask(w, t)
       /\ loop' = [loop EXCEPT ![w] = IF t \in GroupTasks THEN "margins" ELSE "rows"]
  /\ row' = [row EXCEPT ![w] = 0]
  /\ late' = [late EXCEPT ![w] = 0]
  /\ UNCHANGED <<life, at>>

AtNext(w) == running[w] \in PublishTasks /\ at[w] = "next"

\* Mutant: the test is hoisted out of the loop.
ShouldStopAtFirst(w) == row[w] = 0 /\ poolPaused

ShouldStopTask(w) == row[w] % SleepIterationCount = 0 /\ poolPaused

\* There is another row and no reason to stop.
NextRow(w) ==
  /\ AtNext(w)
  /\ row[w] < MaxRows
  /\ ~ShouldStopTask(w)
  /\ at' = [at EXCEPT ![w] = "publish"]
  /\ UNCHANGED <<pool, life, loop, row, late>>

StopTask(w) ==
  /\ AtNext(w)
  /\ row[w] < MaxRows
  /\ ShouldStopTask(w)
  /\ FinishTask(w)
  /\ UNCHANGED <<life, sweeps>>

\* The rows have run out: the margins are followed by the symbols, which are
\* followed by the end of the task.
RowsRunOut(w) ==
  /\ AtNext(w)
  /\ IF loop[w] = "margins"
     THEN /\ loop' = [loop EXCEPT ![w] = "rows"]
          /\ row' = [row EXCEPT ![w] = 0]
          /\ UNCHANGED pool
     ELSE FinishTask(w) /\ UNCHANGED <<loop, row>>
  /\ UNCHANGED <<life, at, late>>

\* Mutant: the index is advanced by the loop and by its body.
PublishRowAdvancesTwice(w) ==
  /\ at[w] = "publish"
  /\ at' = [at EXCEPT ![w] = "next"]
  /\ row' = [row EXCEPT ![w] = @ + 2]
  /\ late' = IF poolPaused THEN [late EXCEPT ![w] = @ + 1] ELSE late
  /\ UNCHANGED <<pool, life, loop>>

\* The row is published, or skipped because make_group_symbol hides it or the
\* symbol of the margin is unknown.  Once the names are gone the topic is
\* whatever the destroyed string holds; the row then counts all the same.
PublishRow(w) ==
  /\ at[w] = "publish"
  /\ at' = [at EXCEPT ![w] = "next"]
  /\ row' = [row EXCEPT ![w] = @ + 1]
  /\ late' \in {late, IF poolPaused THEN [late EXCEPT ![w] = @ + 1] ELSE late}
  /\ UNCHANGED <<pool, life, loop>>

TaskStep(w) == NextRow(w) \/ StopTask(w) \/ RowsRunOut(w) \/ PublishRow(w)

-----------------------------------------------------------------------------
(* The reader task.  What it reads is in TradeReader. *)

\* NextMsg gives a request, or a timeout or an error after which the loop
\* calls it again; a request is handled.  No step asks for the pool.
ReadTradeRequest(w) ==
  /\ running[w] = Reader
  /\ at' \in {at, [at EXCEPT ![w] = IF @ = "next" THEN "request" ELSE "next"]}
  /\ UNCHANGED <<pool, life, loop, row, late>>

-----------------------------------------------------------------------------
(* MtSrvCleanup: mt4plugin.reset() clears the pointer and then destroys the *)
(* members of the plugin in the reverse order of plugin.h:72-83.            *)

UnloadTo(s) ==
  /\ stage' = s
  /\ UNCHANGED <<refusal, config, plugin, subscribed>>

MtSrvCleanup ==
  /\ stage = "live"
  /\ stage' = "unnamed"
  /\ plugin' = FALSE
  /\ names' = FALSE
  /\ UNCHANGED <<pool, refusal, config, subscribed, conn, sweeps>>

\* The deleter of the pool.
DeleterPause ==
  /\ stage = "unnamed"
  /\ Pause
  /\ UnloadTo("pausing")
  /\ UNCHANGED <<conn, names, sweeps>>

\* wait_for returns within a second whether the tasks have ended or not, and
\* its result is not looked at.
DeleterWaitFor ==
  /\ stage = "pausing"
  /\ UnloadTo("deleting")
  /\ UNCHANGED <<pool, conn, names, sweeps>>

\* Mutant: the threads are let go instead of waited for.
DeleterDetachesThreads ==
  /\ stage = "deleting"
  /\ queued' = {}
  /\ UnloadTo("drained")
  /\ UNCHANGED <<threads, running, poolPaused, conn, names, sweeps>>

\* The destructor of the pool waits without a limit, then joins.
DeletePool ==
  /\ stage = "deleting"
  /\ WaitOver
  /\ DestroyPool
  /\ UnloadTo("drained")
  /\ UNCHANGED <<conn, names, sweeps>>

CloseConnection ==
  /\ stage = "drained"
  /\ conn' = IF conn = "open" THEN "gone" ELSE conn
  /\ UnloadTo("unloaded")
  /\ UNCHANGED <<pool, names, sweeps>>

Unload == DeleterPause \/ DeleterWaitFor \/ DeletePool \/ CloseConnection

-----------------------------------------------------------------------------

Next ==
  \/ StartupRefuses \/ InitializeRefuses \/ Initialize \/ Connect \/ Subscribe
  \/ MtSrvSymbolsAdd \/ MtSrvGroupsAdd
  \/ \E w \in Workers : Take(w) \/ TaskStep(w) \/ ReadTradeRequest(w)
  \/ MtSrvCleanup \/ Unload

\* A thread that can take a task or runs one is scheduled, and so is the
\* server's thread once it is inside MtSrvCleanup.  A loop over the server's
\* tables ends because the tables do; that of the reader (plugin.cpp:173) goes
\* on for ever.
Fairness ==
  /\ \A w \in Workers : WF_vars(Take(w)) /\ WF_vars(TaskStep(w) \/ ReadTradeRequest(w))
  /\ WF_vars(Unload)

Spec == Init /\ [][Next]_vars /\ Fairness

-----------------------------------------------------------------------------
(* Properties. *)

\* Until the last task has ended, the connection it publishes on and reads
\* from exists: that is what declaring m_pool after m_nats_conn (plugin.h:76)
\* and the wait in the pool's destructor buy, wait_for or not.
ConnOutlivesTasks == conn = "gone" => Busy = {}

\* A task does not look at the pool on every turn (plugin.cpp:367), yet after
\* a pause it publishes at most as many rows as lie between two looks, also
\* when the pause falls between a look and its publish, or near the change
\* from the margins of a group to the symbols of the server.
FewRowsAfterPause == \A w \in Workers : late[w] <= SleepIterationCount

\* The reader keeps a thread for ever, at high priority, and still the work
\* of the hooks gets one, provided the pool was not configured with a single
\* thread (plugin.cpp:110-113).
HooksGetAThread ==
  (queued \cap PublishTasks # {} /\ config.size # 1 /\ 1 \notin Cores)
    ~> (poolPaused \/ InHand \cap PublishTasks # {})

\* MtSrvCleanup comes to its end if no reader was ever detached.
CleanupEndsUnsubscribed == (stage = "unnamed" /\ ~subscribed) ~> stage = "unloaded"

\* dllmain.cpp:80 logs "Unloading plugin, cleaning up resources".
CleanupEnds == stage = "unnamed" ~> stage = "unloaded"

\* plugin.cpp:108 says "NATS URL is not configured in the ini file".
RefusedUrlIsEmpty == refusal = "no url" => ~config.url

=============================================================================
