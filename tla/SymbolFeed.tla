------------------------------ MODULE SymbolFeed ------------------------------
(***************************************************************************)
(* What the subscribers of the symbol topic are told when the server's     *)
(* symbols and groups change.  A change of a symbol queues a task that     *)
(* goes through the groups of the server with a copy of the symbol; a      *)
(* change of a group queues one that goes through the margins of its copy  *)
(* of the group and then through the symbols of the server.  Tasks overlap *)
(* with each other and with later changes, and leave the queue in any      *)
(* order.                                                                  *)
(***************************************************************************)
EXTENDS WorkerPool, Sequences, SequencesExt

CONSTANTS
  SymbolCopies,          \* the ConSymbol values a change may give
  GroupCopies,           \* the ConGroup values a change may give
  None,                  \* no row read
  SleepIterationCount,
  MaxChanges             \* bound on the changes of the tables

ASSUME FeedAssumption ==
  /\ Tasks = [symbol : SymbolCopies] \cup [group : GroupCopies]
  /\ IsFiniteSet(SymbolCopies) /\ IsFiniteSet(GroupCopies)
  /\ Urgent = {}
  /\ SleepIterationCount \in Nat \ {0}
  /\ MaxChanges \in Nat

VARIABLES
  symbols, groups,   \* the tables of the server, in the order of SymbolsNext, GroupsNext
  changes,           \* how often they changed
  loop, row,         \* the loop each thread's task is in, and its index
  read,              \* the row it has read and not published
  told,              \* records published without an error since the last
                     \* change of their symbol and of their group
  failed,            \* records whose failed publish was logged since then
  latest             \* the last record the subscribers got for each pair

server == <<symbols, groups, changes>>
sweeps == <<loop, row, read>>
feed   == <<told, failed, latest>>
vars   == <<pool, server, sweeps, feed>>

SymbolNames == {s.name : s \in SymbolCopies}
GroupNames  == {g.name : g \in GroupCopies}

-----------------------------------------------------------------------------
(* The structures of the server, as far as the feed reads them, and what    *)
(* make_group_symbol and to_json make of them.  What they copy only (the    *)
(* description, the digits, the sizes) is left out.                         *)

\* A group shows and trades the symbols of a type, in its own lots.
ConGroupSec == [show : BOOLEAN, trade : BOOLEAN, lots : Nat]

\* The trade mode of the server: no trade, close only, full.
ConSymbol == [name : SymbolNames, type : Nat, trade : 0 .. 2, longOnly : BOOLEAN]

ASSUME CopiesAssumption ==
  /\ SymbolCopies \subseteq ConSymbol
  /\ \A g \in GroupCopies :
       /\ \A t \in {s.type : s \in SymbolCopies} : g.sec[t] \in ConGroupSec
       /\ g.margins \in Seq(STRING)

\* The enumeration of models.h: its first three are those of the server.
TRADE_NO == 0
TRADE_LONG_ONLY == 3

TradeMode(g, s) ==
  IF ~g.sec[s.type].trade THEN TRADE_NO
  ELSE IF s.longOnly THEN TRADE_LONG_ONLY
  ELSE s.trade

\* The record of a symbol in a group; special says that a margin of the group
\* was passed and its swaps are used.
GroupSymbol(g, s, special) ==
  [ account_group |-> g.name, symbol |-> s.name, lots |-> g.sec[s.type].lots,
    mode |-> TradeMode(g, s), swap |-> IF special THEN "margin" ELSE "symbol" ]

TradeNames == <<"no_trade", "close_only", "full", "long_only">>

ToJson(r) ==
  [ account_group |-> r.account_group, symbol |-> r.symbol, lots |-> r.lots,
    trade |-> TradeNames[r.mode + 1], swap |-> r.swap ]

Records ==
  {ToJson(GroupSymbol(g, s, special)) : g \in GroupCopies, s \in SymbolCopies, special \in BOOLEAN}

\* The search of publish_symbol_for_groups: the first margin with that name.
HasMargin(g, s) == s.name \in ToSet(g.margins)

-----------------------------------------------------------------------------

\* What a row gives the publish: nothing if the symbol of the margin is
\* unknown.
Pairs == [g : GroupCopies, s : SymbolCopies, special : BOOLEAN]

ASSUME PairAssumption == None \notin Pairs

TypeOK ==
  /\ PoolTypeOK
  /\ symbols \in Seq(SymbolCopies) /\ Len(symbols) <= Cardinality(SymbolNames)
  /\ groups \in Seq(GroupCopies) /\ Len(groups) <= Cardinality(GroupNames)
  /\ changes \in 0 .. MaxChanges
  /\ loop \in [Workers -> {"margins", "rows"}]
  /\ row \in [Workers -> Nat]
  /\ read \in [Workers -> Pairs \cup {None}]
  /\ told \subseteq Records
  /\ failed \subseteq Records
  /\ latest \in [GroupNames \X SymbolNames -> Records \cup {None}]

Init ==
  /\ threads = Workers
  /\ queued = {}
  /\ running = [w \in Workers |-> Idle]
  /\ poolPaused = FALSE
  /\ symbols = <<>> /\ groups = <<>> /\ changes = 0
  /\ loop = [w \in Workers |-> "rows"]
  /\ row = [w \in Workers |-> 1]
  /\ read = [w \in Workers |-> None]
  /\ told = {} /\ failed = {}
  /\ latest = [p \in GroupNames \X SymbolNames |-> None]

\* A table replaces the entry of that name where it is, or appends it.
Put(table, entry) ==
  IF \E k \in DOMAIN table : table[k].name = entry.name
  THEN [k \in DOMAIN table |-> IF table[k].name = entry.name THEN entry ELSE table[k]]
  ELSE Append(table, entry)

\* The server changes a symbol and calls MtSrvSymbolsAdd.  No two equal tasks
\* wait in the queue.
ChangeSymbol(s) ==
  /\ changes < MaxChanges
  /\ [symbol |-> s] \notin queued
  /\ symbols' = Put(symbols, s)
  /\ changes' = changes + 1
  /\ told' = {r \in told : r.symbol # s.name}
  /\ failed' = {r \in failed : r.symbol # s.name}
  /\ DetachTask([symbol |-> s])
  /\ UNCHANGED <<groups, sweeps, latest>>

ChangeGroup(g) ==
  /\ changes < MaxChanges
  /\ [group |-> g] \notin queued
  /\ groups' = Put(groups, g)
  /\ changes' = changes + 1
  /\ told' = {r \in told : r.account_group # g.name}
  /\ failed' = {r \in failed : r.account_group # g.name}
  /\ DetachTask([group |-> g])
  /\ UNCHANGED <<symbols, sweeps, latest>>

-----------------------------------------------------------------------------
(* The tasks.  Indices start at 1 here and at 0 in the code. *)

OfGroup(t) == t \in [group : GroupCopies]

Take(w) ==
  /\ \E t \in Tasks :
       /\ TakeTask(w, t)
       /\ loop' = [loop EXCEPT ![w] = IF OfGroup(t) THEN "margins" ELSE "rows"]
  /\ row' = [row EXCEPT ![w] = 1]
  /\ UNCHANGED <<server, read, feed>>

\* Mutant: the tables are asked for one row too few.
RowCountShort(w) ==
  IF ~OfGroup(running[w]) THEN Len(groups)
  ELSE IF loop[w] = "margins" THEN Len(running[w].group.margins)
  ELSE Len(symbols) - 1

\* How many rows the loop of the task has, as the tables are now.
RowCount(w) ==
  IF ~OfGroup(running[w]) THEN Len(groups)
  ELSE IF loop[w] = "margins" THEN Len(running[w].group.margins)
  ELSE Len(symbols)

MustStop(w) == (row[w] - 1) % SleepIterationCount = 0 /\ poolPaused

AtRow(w) == running[w] # Idle /\ read[w] = None

\* Mutant: the result of SymbolsGet is not tested, so that a margin of an
\* unknown symbol gives a row as well.
PairAtUnchecked(w) ==
  LET t == running[w]
      i == row[w]
  IN  IF ~OfGroup(t)
      THEN [g |-> groups[i], s |-> t.symbol, special |-> HasMargin(groups[i], t.symbol)]
      ELSE IF loop[w] = "rows"
      THEN [g |-> t.group, s |-> symbols[i], special |-> FALSE]
      ELSE LET known == {s \in ToSet(symbols) : s.name = t.group.margins[i]}
           IN  [g |-> t.group, special |-> TRUE,
                s |-> IF known = {} THEN None ELSE CHOOSE s \in known : TRUE]

\* What the loop body works on: the pair of the row, or nothing if SymbolsGet
\* does not know the name in the margin.
PairAt(w) ==
  LET t == running[w]
      i == row[w]
  IN  IF ~OfGroup(t)
      THEN [g |-> groups[i], s |-> t.symbol, special |-> HasMargin(groups[i], t.symbol)]
      ELSE IF loop[w] = "rows"
      THEN [g |-> t.group, s |-> symbols[i], special |-> FALSE]
      ELSE LET known == {s \in ToSet(symbols) : s.name = t.group.margins[i]}
           IN  IF known = {} THEN None
               ELSE [g |-> t.group, s |-> CHOOSE s \in known : TRUE, special |-> TRUE]

\* Mutant: the index stays where it is when there is nothing to publish.
ReadRowStays(w) ==
  /\ AtRow(w) /\ row[w] <= RowCount(w) /\ ~MustStop(w)
  /\ read' = [read EXCEPT ![w] = PairAt(w)]
  /\ row' = IF PairAt(w) = None THEN row ELSE [row EXCEPT ![w] = @ + 1]
  /\ UNCHANGED <<pool, server, loop, feed>>

ReadRow(w) ==
  /\ AtRow(w) /\ row[w] <= RowCount(w) /\ ~MustStop(w)
  /\ read' = [read EXCEPT ![w] = PairAt(w)]
  /\ row' = [row EXCEPT ![w] = @ + 1]
  /\ UNCHANGED <<pool, server, loop, feed>>

\* The group may hide symbols of that type.  A publish may fail: its failure
\* is logged, nothing tries it again, and subscribers keep what they had.
PublishRow(w) ==
  /\ read[w] # None
  /\ read' = [read EXCEPT ![w] = None]
  /\ LET g == read[w].g
         s == read[w].s
         r == ToJson(GroupSymbol(g, s, read[w].special))
     IN  \/ ~g.sec[s.type].show /\ UNCHANGED feed
         \/ /\ g.sec[s.type].show
            /\ \/ /\ told' = told \cup {r}
                  /\ latest' = [latest EXCEPT ![<<g.name, s.name>>] = r]
                  /\ UNCHANGED failed
               \/ /\ failed' = failed \cup {r}
                  /\ UNCHANGED <<told, latest>>
  /\ UNCHANGED <<pool, server, loop, row>>

\* After the margins come the symbols; after those, or at a paused pool, the
\* task ends.
RowsRunOut(w) ==
  /\ AtRow(w) /\ row[w] > RowCount(w)
  /\ IF loop[w] = "margins"
     THEN /\ loop' = [loop EXCEPT ![w] = "rows"]
          /\ row' = [row EXCEPT ![w] = 1]
          /\ UNCHANGED pool
     ELSE FinishTask(w) /\ UNCHANGED <<loop, row>>
  /\ UNCHANGED <<server, read, feed>>

StopTask(w) ==
  /\ AtRow(w) /\ row[w] <= RowCount(w) /\ MustStop(w)
  /\ FinishTask(w)
  /\ UNCHANGED <<server, sweeps, feed>>

PausePool ==
  /\ ~poolPaused
  /\ Pause
  /\ UNCHANGED <<server, sweeps, feed>>

Work(w) == Take(w) \/ ReadRow(w) \/ PublishRow(w) \/ RowsRunOut(w) \/ StopTask(w)

Next ==
  \/ \E s \in SymbolCopies : ChangeSymbol(s)
  \/ \E g \in GroupCopies : ChangeGroup(g)
  \/ \E w \in Workers : Work(w)
  \/ PausePool

\* A thread that can go on does.
Spec == Init /\ [][Next]_vars /\ \A w \in Workers : WF_vars(Work(w))

-----------------------------------------------------------------------------
(* Properties. *)

Quiet == queued = {} /\ Busy = {} /\ ~poolPaused

\* What subscribers are to be told of a symbol in a group.
AsItIs(g, s) ==
  [ account_group |-> g.name, symbol |-> s.name, lots |-> g.sec[s.type].lots,
    trade |-> IF ~g.sec[s.type].trade THEN "no_trade"
              ELSE IF s.longOnly THEN "long_only"
              ELSE <<"no_trade", "close_only", "full">>[s.trade + 1],
    swap |-> IF HasMargin(g, s) THEN "margin" ELSE "symbol" ]

\* Whatever overlapped and in whatever order the tasks ran: once they are
\* done, every symbol that a group shows, as both are now, has been published
\* since either changed, with the swaps of the group's margin if it has one,
\* or the failure to publish just that record is in the log.  The task of the
\* change that came last sees to it (plugin.cpp:281, 323).  A record that
\* failed is not tried again, so that subscribers may be left without it.
EveryPairToldOrLogged ==
  Quiet =>
    \A g \in ToSet(groups), s \in ToSet(symbols) :
      g.sec[s.type].show => AsItIs(g, s) \in told \cup failed

\* The feed settles, if the server leaves its tables alone for long enough:
\* every task that waits is run and ends, whatever rows it skips, or the pool
\* is paused and those that run end.
FeedSettles == <>[](Busy = {} /\ (queued = {} \/ poolPaused))

\* MT4ServerAPI.h:291 calls the margins of a group its "special securities
\* settings": what subscribers are left with would have the margin's swaps.
SpecialSettingsStay ==
  Quiet =>
    \A g \in ToSet(groups), s \in ToSet(symbols) :
      g.sec[s.type].show /\ HasMargin(g, s) /\ latest[g.name, s.name] # None
        => latest[g.name, s.name].swap = "margin"

=============================================================================
