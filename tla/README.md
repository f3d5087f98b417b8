# A verification of trade_bridge

`trade_bridge` is a plugin of the MetaTrader 4 server (C++, `src/plugins/trade_bridge`).
It tells the subscribers of a NATS server about symbols, ticks and candles, and
reads trade requests from it. Beside it the repository has a mock of the plugin
written in Go (`src/mock`), a console program that tries out the thread pool
(`src/plugins/mock`), and an AsyncAPI description of the topics (`src/api`).

This directory holds TLA+ modules of the parts that keep state, TLC
configurations that check them on small instances, and TLAPS proofs of their
safety properties and refinements for every instance.

The commit that is modelled is work in progress: `plugin.cpp` does not compile
as it stands (a private constructor behind `make_unique`, `config` without a
`serialize`, `FUNCTION` for `__FUNCTION__`, `get<trade_request>()` without a
`from_json` of the right form). Where the meaning is plain the modules have it;
nothing rests on a line whose meaning is not.

`P:n` below stands for `src/plugins/trade_bridge/plugin.cpp`, line n.

## 1. Inventory

| Component | State | Operations | Interacts with |
|---|---|---|---|
| Plugin lifecycle: `dllmain.cpp`, `plugin.h`, `plugin.cpp:85-163` | `mt4plugin`, and its members in their order: configuration, connection, subscription, pool, topic names | `MtSrvStartup`, `initialize`, the constructor, the hooks, `MtSrvCleanup`, the destructor and the deleter of the pool | called by the server on its threads; owns everything below |
| Worker pool: `BS::thread_pool`, not in the repository | queue, running tasks, paused | `detach_task`, `pause`, `wait_for`, `wait`, the destructor | runs the tasks of the plugin and of the pool demo |
| Chart synchronisation: `plugin.cpp:55-74, 224-270` | one `.timepoint` file per symbol and period | load the point, publish from the newest rate back to it, save the new point | the server's history base, the pool, the file system, NATS |
| Symbol feed: `plugin.cpp:22-53, 208-222, 281-354` | none of its own: copies in tasks, the tables of the server | a task per changed symbol, a task per changed group | the server's tables (read row by row while they change), the pool, NATS |
| Trade requests: `plugin.cpp:164-195`, `nats.h:80-120`, `json.h`, `marshaling.cpp` | a subscription and the list of messages pending in it | subscribe, `NextMsg`, unmarshal, `on_trade_request` | NATS, one thread of the pool for ever |
| NATS wrapper: `nats.h` | the connection, and in the library a buffer | connect, publish, subscribe, drain, flush, destroy | NATS; the ticks come to it on the threads of the server, the rest from the pool |
| Candle conversion: `tools.h`, `plugin.cpp:246-255` | none | integer prices to doubles | chart synchronisation |
| Configuration: `ini.h`, `plugin.cpp:76-117` | an ini file; archives with a group name and a tree | load, save, initialize, print | the lifecycle |
| Marshalling: `marshaling.*`, `json.h`, `models.h` | none | structures to and from JSON | all that publish or read |
| Logger: `logger.*` | the log of the server | a line of it | all |
| Mock server: `mock/main.go`, `pkg/tools`, `pkg/must` | a connection, a cancelled context, an order counter | publish symbols, candles and ticks, answer trade requests, end | signals, clients, NATS |
| Pool demo: `plugins/mock/src/main.cpp` | a pool | detach, pause, wait | |
| AsyncAPI description: `api/asyncapi/spec.yaml`, `docs/index.html` | none | | describes the topics |

What is hard about it, and what each component must get right:

- **Chart synchronisation.** Several tasks may run for one file; each works on
  a copy of the rates that gets old; publishes and files fail; a pause cuts a
  task short; the process may end at any moment, between the truncation of the
  file and the write too. It must never save a point that makes a later task
  skip a candle nobody tried, and it must end.
- **Lifecycle.** Tasks may be running while the members of the plugin are
  destroyed. The connection must outlive its users, cleanup must end, and the
  reader, which holds a thread for ever, must leave one for the others.
- **Symbol feed.** Tasks overlap, overtake each other, hold old copies and read tables that change. At rest every pair, as it is, must have been published,
  or its failure be in the log.
- **Trade requests.** The list overflows, messages cannot be read, `NextMsg`
  times out, the connection closes. Requests must be handled once and in
  order, and none may vanish in silence.
- **Ticks and the connection.** There may be no connection, one that is down, or one
  that is being destroyed with ticks in its buffer, and nobody tries again. A tick
  must be heard, or its failure be in the log, unless the network took it.
- **Configuration.** A save rewrites the whole file, not atomically, and nobody
  looks whether it succeeds. What was saved must be loaded, what is foreign kept,
  a save that was cut short must bring nothing old back, and what is printed must be
  the structure, under the group it is saved under.
- **Mock server.** Goroutines that end for different reasons, a connection
  that a panic of main closes under them, a timer computed from a clock read again and
  again. Order numbers must be unique, answers must come once, minutes must
  not repeat, and the end must come.
- **Pool demo.** Pausing with a queue and then waiting must come back, with
  nothing running, and what it says must be true.

`PROJECT.json` lists these as hazards, one by one, each at its line, with the
properties that cover it or the reason that none does.

## 2. Modules

| Module | Stands for | EXTENDS / uses |
|---|---|---|
| `ResumePoint` | abstract: what the `.timepoint` file promises | |
| `ChartSync` | chart synchronisation, one symbol and period, any number of tasks | `INSTANCE ResumePoint` |
| `ChartSyncProofs` | theorems of `ChartSync` | `ChartSync`, `TLAPS` |
| `WorkerPool` | the steps of the thread pool | |
| `PoolDemo` | the console program | `WorkerPool` |
| `PoolDemoProofs` | theorems of `PoolDemo` | `PoolDemo`, `TLAPS` |
| `Lemmas` | what several proofs need of division and of sequences | `TLAPS` |
| `Plugin` | the lifecycle, the hooks, the loops of the publish tasks | `WorkerPool` |
| `PluginProofs` | theorems of `Plugin` | `Plugin`, `Lemmas` |
| `SymbolFeed`, `MCSymbolFeed` | what the tasks of symbols and groups publish; an instance of it | `WorkerPool` |
| `SymbolFeedProofs` | theorems of `SymbolFeed` | `SymbolFeed`, `Lemmas` |
| `NatsLink` | the steps of the connection and of its buffer | |
| `RequestLog` | abstract: what becomes of a trade request | |
| `TradeReader` | what goes over the connection, from its opening to its deleter: ticks out, trade requests in | `NatsLink`, `INSTANCE RequestLog` |
| `TradeReaderProofs` | theorems of `TradeReader` | `TradeReader`, `Lemmas` |
| `IniFile`, `MCIniFile` | the archives of `ini.h` and the file; an instance of them | |
| `IniFileProofs` | theorems of `IniFile` | `IniFile`, `TLAPS` |
| `CandleFeed` | from the ticks of a period to the published candle | |
| `MockCandles` | the steps of the candle generator of the mock | |
| `TradeDesk` | abstract: the answers to trade requests | |
| `MockServer` | the mock: main and its three goroutines | `MockCandles`, `INSTANCE TradeDesk` |
| `MockServerProofs` | theorems of `MockServer` and `MockCandles` | `MockServer`, `Lemmas` |

`Plugin`, `SymbolFeed` and `PoolDemo` compose the pool with what runs in it;
`MockServer` composes the generator with the other goroutines, and
`TradeReader` both directions of one connection. `Plugin` takes a
publish task as a loop over numbered rows and leaves out what is published;
`SymbolFeed` has the contents and leaves out the beginning and the end of the
plugin. `ChartSync` needs of the pool that it may be paused and that tasks
overlap, and has that as a variable of its own.

### How state and actions correspond to the code

- **`ChartSync`.** `oldest..newest` are the rates of the server, `newest` the bar
  still being built. Per task: `first`, `last` are the ends of the array of
  `HistoryQuotes`, `from` is `from_time`, `i` the index of the loop. Time counts
  periods. `HistoryQuotes`/`NoQuotes` are P:224-232, `LoadChartPoint` is P:233
  with P:67-74, one turn of the loop is one of `ReachPoint` (P:240),
  `StopTask` (P:244), `PublishCandle` (P:246-263). `save_chart_point` is two
  steps, `OpenChartPoint` (which truncates) and `WriteChartPoint`, for there is
  a moment between them; `OpenFails` and the second disjunct of
  `WriteChartPoint` are the stream failing, which nobody tests. `Restart` is
  the end of the process, orderly or not: the file survives. `published` and
  `failed` remember the closed candles that were sent or whose failure was
  logged; `outcome` how each task ended.
- **`Plugin`.** `stage` goes from `MtSrvStartup` to the end of `MtSrvCleanup`;
  from `unnamed` on the members are destroyed in the reverse of the order
  of plugin.h:72-83. `conn` is `m_nats_conn`; `names` the topic names and
  the chart directory. Each thread has a task's `loop`, `row` and `at`; looking
  at the pool and publishing are two steps (`NextRow`, `PublishRow`). The
  reader task goes round its loop (`ReadTradeRequest`), which has no end (P:173).
- **`SymbolFeed`.** `symbols` and `groups` are the server's tables in the order of
  `SymbolsNext` and `GroupsNext`. `ChangeSymbol`/`ChangeGroup` are a change of
  a table with the hook that follows, `ReadRow` reads the next row as the table
  is at that moment, `PublishRow` makes the record (`GroupSymbol` is
  `make_group_symbol`) and publishes it, or fails, or skips what the group
  hides. `told` are the records that left for the subscribers since their symbol
  and group last changed, `failed` those whose failure was logged, `latest` the last that
  left for each pair, all in the form of `ToJson`. Fields that are copied and nothing else are left out.
- **`NatsLink`, `TradeReader`.** `conn` is `m_connection`, `out` what the library
  has taken and not delivered. `Break`, `Mend`, `GiveUp` are the network and the
  library; `Flush` and `Destroy` the deleter of nats.h:14-26. `stage` goes from
  the constructor to the end of `MtSrvCleanup`. `HandleTick` is the hook with
  `handle(const FeedTick*)`, in one step, for the server's thread does it all.
  `pending` and `slow` are the subscription in the library, `reader`, `status`,
  `message` the task between a call of `NextMsg` and the next. A message matters
  by its side and by being readable or not; a tick by its time, bid and ask.
  `logged` are the failures in the server's log.
- **`IniFile`.** `calls` is what a `serialize` does; `group`, `tree`, `hasValues`
  are the members of the archive, `at` the next call; they go with the function
  (`Leave`). Loading, saving, initializing and printing go item by item; `OpenFile` and
  `WriteIni` are the end of `save_ini`. A crash comes between them, or the write stops
  in the middle (`WritePart`): sections follow one another, so all
  sections but one are whole or not there, and one line may be cut. A cut value is read as a value
  or as garbage, a cut name or header (`badLine`) makes `read_ini` throw (`CannotRead`). `torn` remembers
  what a save that is not whole was to write. `stream` is what was printed, line by line.
- **`CandleFeed`.** `rate` is the `RateInfo` as MT4ServerAPI.h:847-853 describes
  it, `candle` what P:246-255 makes of it. Doubles are counted in units
  of 10^-5, in which they are whole.
- **`MockServer`, `MockCandles`.** One variable per goroutine says where it is;
  `cancelled` is the context, `conn` the connection. A `Panic` in a goroutine ends the
  process at once; one in main (`PublishSymbol`) runs the deferred `Close` first, under goroutines
  that go on (`main = "panicking"`). In the generator `now`,
  `from`, `timer`, `fired` are its locals and the channel of its timer.
- **`WorkerPool`.** The queue is a set: the library's queue is a heap, in which
  tasks of one priority come out in any order. Urgent tasks come first.

The library, the server, clients, and the people who edit files are external;
their steps are marked so in the map of `PROJECT.json`.

Definitions whose comment begins with "Mutant" are wrong on purpose: each is a
plausible mistake in the definition after it, kept to show that a property
notices it. No other definition uses them.

## 3. Runs

Passing runs:

| Run | Bounds | Shows |
|---|---|---|
| `chart_sync` | 2 tasks, 3 periods, a look at the pool every 2nd turn; 547 000 states | the saved point never gets ahead of the work (`PointIsSettled`); a sync that ended by itself left nothing of its array untried (`EndedSyncIsComplete`); `ChartSync` implements `ResumePoint` (`KeepsPromise`); a sync ends (`SyncEnds`) |
| `plugin` | 2 threads, 1 reader, 3 publish tasks, 3 rows, a look every 2nd row, 0 or 2 cores, every configuration | the connection outlives its users (`ConnOutlivesTasks`); after a pause a task publishes at most `sleep_iteration_count` rows (`FewRowsAfterPause`); the hooks' tasks get a thread beside the reader (`HooksGetAThread`); cleanup ends if there is no reader (`CleanupEndsUnsubscribed`) |
| `symbol_feed` | 2 symbols of 2 types, 2 groups, of one each two versions, a margin for a symbol nobody knows, 3 changes, 2 threads; 342 000 states | at rest every shown pair has been published as it is now, or the failure to publish just that is in the log (`EveryPairToldOrLogged`), and rest comes (`FeedSettles`) |
| `trade_reader` | 3 requests, a limit of 1 pending, 2 ticks, a buffer of 1; 66 500 states | requests are handled in order, once (`HandledInOrder`); each is always in one place (`EachInOnePlace`); pending ones are read (`PendingAreRead`); all of it as the abstract log has it (`SettlesRequests`, with its fairness); each tick is on its way, heard, in the log, or lost with the connection (`TicksAccounted`), and the last only if that was ever down or the last flush took too long (`OnlyACutDrops`) |
| `ini_file` | 2 structures, 2 groups, 2 items, 3 values, 1 edit; 2 816 000 states | what was saved is loaded (`RoundTrip`); foreign entries stay (`ForeignKept`); what is printed is one header and each item once, in order, with its value or stars (`PrintsTheStructure`); a save cut short anywhere brings no old value back, and without an entry of the structure nothing is found (`TornIsNew`) |
| `pool_demo` | 2 threads, 4 tasks | nothing runs once main has spoken (`QuietWhenSaid`); main returns (`MainReturns`) |
| `mock_server` | 1 symbol, a minute of 2 readings; no request and a clock to 10, one and a clock to 8, or two and a clock to 6; 408 000 states | unless main panics, the connection is closed under no goroutine and with no answer owed (`ClosedInOrder`); `OrderIDsAreUnique`, `AnsweredOnce`, `RequestsAnswered`, `ShutdownEnds` of the goroutines, which implement the abstract desk (`AnswersLikeADesk`); `MinutesIncrease`, `StartsWithTwoMinutes`, `GapOnlyWhenBehind` of the candles |

Each of them checks a type invariant as well.

Why the bounds are enough: two tasks are the least that overlap, and three
periods give an array with a settled part, an untried part and an open bar;
proofs remove the bound where it matters most. A look at the pool on every 2nd
turn is the least at which a turn does not look. Two threads are the
pool's own fallback (P:112) and the least of which a reader leaves one; the
configuration also gives pools of one. Three changes of two tables give an old
copy, a new one and a change under a running loop. Three requests against a
limit of one overflow the list, before and after others that are handled; two
ticks against a buffer of one give a full buffer, also on a connection that is
down, and one that is destroyed with a tick in it. A
clock of ten readings, two to the minute, covers the two initial minutes, the seam, and
minutes that are missed because the generator was late. The candles and the requests meet only where
the process ends, so each message takes two readings off the clock (`RequestCost`): many minutes are explored with
few requests, two requests with a clock that still lets the generator wait and fire. One edit is enough for a structure that has changed since the last save,
because initializing changes it too: a save of one, a crash in the middle, and a load.

Runs that show a disagreement between the code and what the repository says:

| Run | Property | What happens |
|---|---|---|
| `chart_quotes_freed` | `QuotesAreFreed` | the array of `HistoryQuotes` (P:229) is never freed, as MT4ServerAPI.h:1183 asks |
| `plugin_cleanup` | `CleanupEnds` | with a reader, `MtSrvCleanup` never returns: the reader never leaves its loop and the pool's destructor waits for it, while dllmain.cpp:80 says resources are cleaned up |
| `plugin_url` | `RefusedUrlIsEmpty` | the test at P:106 has the wrong sense: a configuration with a URL is refused with "NATS URL is not configured" |
| `symbol_feed_swap` | `SpecialSettingsStay` | the second loop of `publish_group_symbols` publishes again, with the symbol's swaps, what the first published with the group's "special securities settings" (MT4ServerAPI.h:291); `published_symbols` is filled and never read |
| `candle_shift` | `HighIsHighestTick` | high, low and close are shifts from open (MT4ServerAPI.h:851), and are published as if they were prices |

### Deadlock

It is checked in `chart_sync`, `ini_file` and the runs of `CandleFeed`. It is not where
the system may really stop: `MtSrvCleanup` is the last thing the plugin does, and
`MtSrvStartup` may refuse; the mock and the demo exit; the server may make no
further change (the bound on the changes), and clients none.

### Fairness

- A thread of a pool, a goroutine, and `main` run when they can go on: weak
  fairness of their steps. A task a worker has taken keeps running.
- Hooks, changes of tables, failures, signals, clients, pauses and restarts have
  none.
- `Plugin` gives the server's thread fairness once it is inside `MtSrvCleanup`. The
  reader has it too, and goes on for ever.
- `NextMsg` comes back, within 2 s in the plugin and 10 s in the mock.
- `TradeReader` gives the network none: a connection may stay down. The
  destructor of a pool with nothing running ends (`DeletePool`).
- `SymbolFeed` gives each thread its steps. That the feed settles needs the server to leave its
  tables alone for long enough, which the bound on the changes grants.
- `MockServer` has strong fairness of `CandlesEnd`: the `select` of
  `PeriodicScheduler` picks at random among what is ready, so that it takes the
  branch of the context in the end, though the timer may be ready too. The
  bounded clock does not give that by itself: a run without it would only show
  that the bound ends the behaviour.
- `IniFile` has only safety properties and no fairness.

In `ini_file` one structure names its group by itself before each of its two items, of which one
has a default and one is required and hidden, and one starts with its only item and relies on the name given to
`load_ini` or `save_ini`, so that both ways to a
name, the second name that is ignored, and the missing name that throws are there.

## 4. Proofs

Every safety invariant of every passing run is a theorem, for every value of the
constants that the assumptions below allow, and so are the three refinements, that of
`RequestLog` without its fairness. Each module has one
inductive invariant, `IInv` (in `ChartSyncProofs`, `PluginProofs` and the others alike),
which TLC has checked on the instance of the run before it was proved. Its named parts
say what the stated properties need to follow from one state to the next.

**`ChartSyncProofs`**, for any set of tasks, any bound on time, any interval between
looks at the pool (`ChartAssumption`: the bound is a natural number, the
interval a positive one):

- `TypeCorrect`, `PointSafety` (`[]PointIsSettled`), `SyncSafety`
  (`[]EndedSyncIsComplete`), `Implements` (`Spec => KeepsPromise`).
- `PointIsSettled` is not inductive by itself: a task
  that is about to write a point must have settled what is below it. So
  `SaveSettled` says that of a task at `save` or `write`; `SweepSettled` gives the
  reason, that a sweep has settled all above its index, and that the point it
  started from, which was in the file, is settled below as well; and
  `LocalsOK` keeps the index inside the array. `SettledBelowGrows` is the lemma
  that lets a fact about the past be used now: candles are never unsettled, and
  the history of the server is only cut at its old end. `Implements` follows
  step by step from `IInv`.

**`PluginProofs`**, for any threads, tasks, rows and cores (`PluginAssumption`,
`PoolAssumption`):

- `TypeCorrect`, `ConnectionSafety` (`[]ConnOutlivesTasks`), `PauseBound`
  (`[]FewRowsAfterPause`).
- The connection: a thread that runs is one the pool was created with, and once the
  pool is destroyed there are no threads, hence no one is busy; the connection goes
  after that.
- The pause: the rows published since the pause are at most those since the last
  multiple of `SleepIterationCount`, one more while the task is between its look and its
  publish. This needs a few facts about `%`, which are in `Lemmas`.

**`SymbolFeedProofs`**, for any threads, symbols, groups, margins and changes
(`FeedAssumption`, `CopiesAssumption`: there are finitely many copies, the margins of a group
are a sequence of names; `PairAssumption`: `None` is no row; `PoolAssumption`):

- `TypeCorrect`, `EveryPair` (`[]EveryPairToldOrLogged`).
- At rest there are no tasks, so the invariant must say of each pair that is not yet
  published, and whose publish has not failed, who will do it. `PairsInv` does: either a task of its symbol or of its group is in the
  queue, or a thread is `Ahead` of it, with the pair already read (`HasRead`) or a row of it
  to come: that of the group (`AtGroup`), a margin with the name of the symbol
  (`AtMargin`), or, if there is none, the symbol in the second loop (`AtSymbol`). It is
  needed that tables keep the place of an entry (`PutProperties`) and have each
  name once (`NamesDiffer`): then a change under a running loop moves no other pair behind its index.
  The task of the changed entry is in the queue, so whatever old copies others hold does not matter.

**`TradeReaderProofs`**, for any numbers of requests and ticks and any limits of the list and
the buffer (`ReaderAssumption`, `LinkAssumption`, `MessageAssumption`: `NoMessage` is no message):

- `TypeCorrect`, `HandledOrder` (`[]HandledInOrder`), `OnePlace` (`[]EachInOnePlace`),
  `TicksInOnePlace` (`[]TicksAccounted`), `NothingDropped` (`[]OnlyACutDrops`),
  `ImplementsLog`: `Spec => Log!Init /\ [][Log!Next]_(Log!vars)`, which is `SettlesRequests`
  without the fairness of the log.
- Requests: that those handled are in order needs that those in hand and pending
  are in order too, and later (`OrderInv`); that each has one place needs that the places cover
  what was sent (`PlacesInv`).
- Ticks: `TicksInv` says that the sequences `out` and `heard` have no tick twice and none in
  common, and that a tick is in none of the places exactly if it is in the log. `CutInv` adds to
  `OnlyACutDrops` that a connection that is down, or was flushed with a rest in its buffer, has been cut.

**`MockServerProofs`**, for any length of the minute, any clock of three minutes or more, any numbers of
requests and symbols (`CandleAssumption`, `MockAssumption`). The clock starts in its third minute, so
that the minute before the start and the one before that are times as well, and the bound must lie behind it:

- `TypeCorrect`, `MinuteOrder` (`[]MinutesIncrease`), `NoGap` (`[]GapOnlyWhenBehind`),
  `FirstMinutes` (`[]StartsWithTwoMinutes`), `CloseInOrder` (`[]ClosedInOrder`),
  `UniqueOrders` (`[]OrderIDsAreUnique`), `SingleAnswers` (`[]AnsweredOnce`),
  `Implements` (`Spec => AnswersLikeADesk`).
- Candles: `TimerOK` says that the timer is set to a minute after the last
  candle and fires no earlier, so a candle made of the time it fired at is of a later minute;
  `PaceOK` that a generator that was never late has the clock in the minute of its timer or the one before.
  The lemmas about `MinuteOf` and `Truncate` rest on those about division in `Lemmas`.
- Answers: `DeskInv` numbers the messages: answered ones come first, then the one in hand,
  then those in the inbox. With it the answers are unique and in order, and `Implements` follows. It also counts
  the answers: when the trade goroutine has ended, all it read is answered, which `CloseInOrder` needs.

**`IniFileProofs`**, for any structures, groups, entries and values (`IniAssumption`: a structure is a
sequence of groups and items; trimming twice is trimming once; `Nothing`, `Garbage` and the stars are no values):

- `TypeCorrect`, `ComesBack` (`[]RoundTrip`), `KeepsForeign` (`[]ForeignKept`),
  `TornSafety` (`[]TornIsNew`), `PrintsIt` (`[]PrintsTheStructure`).
- An operation goes from item to item, so each part of the invariant says what holds of the
  items it has `Seen` and is about the whole structure when the calls are through: `SaveInv` of the tree to be
  written, `FileInv` of the file then, `LoadInv` of the structure that is loaded from it. `TornInv` says the same of a file
  that is not whole: each item of the save is there as it was to be written, or not at all, or in the line that was
  cut, and a load makes of it the value, or a default. `PrintInv` places each item in the stream: below the
  header, after as many lines as items were called before it, which takes facts about cardinalities. `NameInv` says that an archive that took an item has a group, which is why the missing name throws.

**`PoolDemoProofs`**, for any threads and tasks (`PoolAssumption`):

- `TypeCorrect`, `QuietSafety` (`[]QuietWhenSaid`). Main pauses the pool before it waits and nothing resumes it
  (`PausedOnceWaiting`).

The proofs changed the models in three places. The `CASE` of `TradeMode` had overlapping guards,
of which TLA+ may take any: it is now an `IF` in the order in which P:31-38 overwrites.
The type of `saved` in `IniFile` left out that a structure without items can be saved with no group, which
no instance had. `PairAt` finds the margin's symbol without the recursive `SelectSeq`; the tables have each
name once, so that it is the same one.

Only model-checked:

- Every liveness property, for the proof system does neither fairness nor `ENABLED`: `SyncEnds`,
  `HooksGetAThread`, `CleanupEndsUnsubscribed`, `FeedSettles`, `PendingAreRead`, `MainReturns`, `RequestsAnswered`,
  `ShutdownEnds`, and the fairness in `SettlesRequests`.
- The five disagreements of section 3, which are counterexamples.
- `CandleFeed`, which has no property that holds.

## 5. What is assumed, and what is left out

Assumed of what is not in the repository:

- The server does not run a hook across its call of `MtSrvCleanup`, so that the test of
  `mt4plugin` and its use are one step. It changes its tables before it calls the hook.
- Tables only grow, or change an entry in place. A removal would shift the rows under
  a loop by position; nothing in the code publishes removals.
- The pool runs tasks of high priority first and those of one priority in any order, takes
  none while paused, and its destructor waits for those that run.
- The NATS library drops a message that comes to a full list, and says so once. It sends
  what is published in order; what is on the wire when the connection breaks is lost, what
  is in the buffer waits for it to be mended, or given up, and a full buffer refuses.
- Ticks come one at a time. Two threads of the server would publish two ticks in either order.
- The clock of the mock only goes forward. (`Truncate` strips the monotonic reading, so that
  a clock set back would repeat minutes.)
- A task that uses a destroyed topic name (plugin.h:79 is destroyed before the pool has
  waited) has undefined behaviour; `Plugin` keeps the fact that the names are gone, and lets the row count.

Not modelled: lines of the log that are no failures, the layout of JSON and fields that are only
copied, exceptions of `dump()` (json.h:16, for text that is not UTF-8: what the server or the pool
makes of one is not in the repository), the enum and duration items of `ini.h` (no structure has one,
and ini.h:87 and :101 name a base class they do not have),
`publish_all_groups_with_symbols` and `publish_chart` (no caller; they detach the
tasks that are modelled), helpers of the mock without a caller, the vendored header but for
the structures the code reads, and the AsyncAPI description.

Seen on the way, without a run of their own:

- `on_trade_request` logs a number and does nothing else, while spec.yaml:52 has a reply to
  every request (and the mock gives one).
- A required item that is missing makes a load throw after the items before it were set
  (ini.h:179); the only caller throws the structure away.
- A side that is neither name is read as the first of the list, BUY (marshaling.cpp:58).
- Nothing calls `save_ini`. After one that failed, a file with any entry of the structure left in it counts
  as found (P:92), with defaults for the rest.
- An edit of the file between the reading of `save_ini` and its writing is overwritten.
- A sync that meets a rate older than the saved point returns without saving (P:240-243), so that the
  point moves again only when the server has dropped all older rates: until then every sync publishes
  all candles since the first one again.
- A candle whose publish failed counts as settled: the point is saved all the same and it is not
  tried again. `PointIsSettled` is stated accordingly.
- Of two tasks for one pair an older copy may be published last. `EveryPairToldOrLogged` says
  that the current one was published, or failed, not that it was the last; one that failed is not tried again.
- `long_only` overrides the trade mode of a symbol, `close_only` too (P:30-38); a group that comes to
  hide a symbol publishes nothing about it, so that subscribers keep the last record.
- `const_digits` has six entries and is indexed by the digits of a symbol without a test.
- The pool demo pauses the pool before it waits, so that it says "All tasks completed, exiting."
  (main.cpp:16) with tasks in the queue, which the pool's destructor throws away; `QuietWhenSaid` says what is left of it.
- On a closed connection the reader loops without waiting and without a word.
- Nothing creates `./charts/`.
- `MtSrvCleanup` is not in plugin.def; if it is called after a startup without a server, the
  logger it uses is null.

## 6. Plan

Done: the modules, runs and proofs above. Next:

1. `WorkerPool`: state the facts about the pool that `PoolDemoProofs`, `PluginProofs` and
   `SymbolFeedProofs` each prove for themselves (a step of one thread leaves the others; what is in hand was queued) as lemmas
   of the pool.
2. Action properties of `ChartSync` and `TradeReader` that relate two moments, each checked by TLC first, and
   proved from the invariants above.
3. Liveness stays with TLC; larger instances of the runs where time allows.
