------------------------------ MODULE ChartSync ------------------------------
(***************************************************************************)
(* publish_chart_by_symbol: the pool tasks that publish the candles of one *)
(* (symbol, period) and remember in a .timepoint file how far they got.    *)
(* Several tasks for the same file may run at once, the pool may be paused *)
(* under them, and the server process may stop and start again.            *)
(*                                                                         *)
(* Time is counted in periods: the rate of period k has ctm = k, and 0 is  *)
(* the value load_chart_point returns when there is nothing to read.  The  *)
(* newest rate of the server is the bar still being built; a rate is       *)
(* closed once a newer one exists.                                         *)
(***************************************************************************)
EXTENDS Integers

CONSTANTS
  Tasks,                \* tasks of this (symbol, period) that may overlap
  MaxTime,              \* bound on the periods the server ever records
  SleepIterationCount   \* sleep_iteration_count, 64 in the code

ASSUME ChartAssumption ==
  /\ MaxTime \in Nat
  /\ SleepIterationCount \in Nat \ {0}

VARIABLES
  oldest, newest,   \* the server keeps the rates oldest..newest
  point,            \* contents of the .timepoint file, 0 if absent or empty
  paused,           \* m_pool->is_paused()
  pc,               \* where each task is
  first, last,      \* rates[0].ctm and rates[count-1].ctm of the task's array
  from,             \* from_time
  i,                \* the loop index
  outcome,          \* how the task's latest execution ended
  arrays,           \* tasks whose HistoryQuotes array is still allocated
  published,        \* closed candles some subscriber was sent
  failed            \* closed candles whose publish returned an error

server == <<oldest, newest>>
task   == <<pc, first, last, from, i, outcome, arrays>>
vars   == <<server, point, paused, task, published, failed>>

Times     == 0 .. MaxTime
Locations == {"idle", "load", "sweep", "save", "write"}
Outcomes  == {"none", "empty", "reached", "stopped", "unsaved", "saved"}

TypeOK ==
  /\ oldest \in 1 .. MaxTime + 1
  /\ newest \in Times
  /\ point \in Times
  /\ paused \in BOOLEAN
  /\ pc \in [Tasks -> Locations]
  /\ first \in [Tasks -> Nat]
  /\ last \in [Tasks -> Times]
  /\ from \in [Tasks -> Times]
  /\ i \in [Tasks -> Nat]
  /\ outcome \in [Tasks -> Outcomes]
  /\ arrays \subseteq Tasks
  /\ published \subseteq Times
  /\ failed \subseteq Times

Init ==
  /\ oldest = 1
  /\ newest = 0
  /\ point = 0
  /\ paused = FALSE
  /\ pc = [t \in Tasks |-> "idle"]
  /\ first = [t \in Tasks |-> 0]
  /\ last = [t \in Tasks |-> 0]
  /\ from = [t \in Tasks |-> 0]
  /\ i = [t \in Tasks |-> 0]
  /\ outcome = [t \in Tasks |-> "none"]
  /\ arrays = {}
  /\ published = {}
  /\ failed = {}

-----------------------------------------------------------------------------
(* The server's history base. *)

NewRate ==
  /\ newest < MaxTime
  /\ newest' = newest + 1
  /\ UNCHANGED <<oldest, point, paused, task, published, failed>>

PruneRate ==
  /\ oldest < newest
  /\ oldest' = oldest + 1
  /\ UNCHANGED <<newest, point, paused, task, published, failed>>

-----------------------------------------------------------------------------
(* The task body. *)

Goto(t, l) == pc' = [pc EXCEPT ![t] = l]

\* The task ends; its locals go out of scope.
Return(t, how) ==
  /\ Goto(t, "idle")
  /\ outcome' = [outcome EXCEPT ![t] = how]
  /\ first' = [first EXCEPT ![t] = 0]
  /\ from' = [from EXCEPT ![t] = 0]
  /\ i' = [i EXCEPT ![t] = 0]
  /\ UNCHANGED <<last, arrays>>

\* A worker takes the task, which first asks for the rates: none, or all of
\* those the server keeps, oldest first.
NoQuotes(t) ==
  /\ pc[t] = "idle" /\ ~paused
  /\ Return(t, "empty")
  /\ UNCHANGED <<server, point, paused, published, failed>>

HistoryQuotes(t) ==
  /\ pc[t] = "idle" /\ ~paused
  /\ oldest <= newest
  /\ Goto(t, "load")
  /\ first' = [first EXCEPT ![t] = oldest]
  /\ last' = [last EXCEPT ![t] = newest]
  /\ outcome' = [outcome EXCEPT ![t] = "none"]
  /\ arrays' = arrays \cup {t}
  /\ UNCHANGED <<server, point, paused, from, i, published, failed>>

\* Mutant: the sweep starts at count instead of count - 1.
LoadChartPointPastEnd(t) ==
  /\ pc[t] = "load"
  /\ Goto(t, "sweep")
  /\ from' = [from EXCEPT ![t] = point]
  /\ i' = [i EXCEPT ![t] = last[t] - first[t] + 1]
  /\ UNCHANGED <<server, point, paused, first, last, outcome, arrays, published, failed>>

LoadChartPoint(t) ==
  /\ pc[t] = "load"
  /\ Goto(t, "sweep")
  /\ from' = [from EXCEPT ![t] = point]
  /\ i' = [i EXCEPT ![t] = last[t] - first[t]]
  /\ UNCHANGED <<server, point, paused, first, last, outcome, arrays, published, failed>>

Ctm(t)    == first[t] + i[t]
\* Mutant: <= where the code has <.
OldOrSame(t) == Ctm(t) <= from[t]
Old(t)    == Ctm(t) < from[t]
MustStop(t) == i[t] % SleepIterationCount = 0 /\ paused

\* The sweep runs from the newest rate to the oldest.  Meeting a rate older
\* than the saved point ends the task: the point is not saved again.
ReachPoint(t) ==
  /\ pc[t] = "sweep"
  /\ Old(t)
  /\ Return(t, "reached")
  /\ UNCHANGED <<server, point, paused, published, failed>>

\* Mutant: break where the code has return.
StopTaskBreaks(t) ==
  /\ pc[t] = "sweep"
  /\ ~Old(t) /\ MustStop(t)
  /\ Goto(t, "save")
  /\ UNCHANGED <<server, point, paused, first, last, from, i, outcome, arrays, published, failed>>

StopTask(t) ==
  /\ pc[t] = "sweep"
  /\ ~Old(t) /\ MustStop(t)
  /\ Return(t, "stopped")
  /\ UNCHANGED <<server, point, paused, published, failed>>

\* Mutant: an unsigned index never gets below 0, and the sweep starts over.
PublishCandleWraps(t) ==
  /\ pc[t] = "sweep"
  /\ ~Old(t) /\ ~MustStop(t)
  /\ LET closed == {Ctm(t)} \ {last[t]}
     IN  \/ /\ published' = published \cup closed
            /\ failed' = failed
         \/ /\ failed' = failed \cup closed
            /\ published' = published
  /\ i' = [i EXCEPT ![t] = IF @ = 0 THEN last[t] - first[t] ELSE @ - 1]
  /\ UNCHANGED <<server, point, paused, pc, first, last, from, outcome, arrays>>

\* A publish that fails is logged and the sweep goes on.  The last rate of
\* the array was still open when it was read, so it settles nothing.
PublishCandle(t) ==
  /\ pc[t] = "sweep"
  /\ ~Old(t) /\ ~MustStop(t)
  /\ LET closed == {Ctm(t)} \ {last[t]}
     IN  \/ /\ published' = published \cup closed
            /\ failed' = failed
         \/ /\ failed' = failed \cup closed
            /\ published' = published
  /\ IF i[t] = 0
     THEN Goto(t, "save") /\ i' = i
     ELSE pc' = pc /\ i' = [i EXCEPT ![t] = @ - 1]
  /\ UNCHANGED <<server, point, paused, first, last, from, outcome, arrays>>

\* save_chart_point truncates the file and then writes the new value.  Nothing
\* creates ./charts/, so the open may fail; no result is tested.
OpenChartPoint(t) ==
  /\ pc[t] = "save"
  /\ point' = 0
  /\ Goto(t, "write")
  /\ UNCHANGED <<server, paused, first, last, from, i, outcome, arrays, published, failed>>

OpenFails(t) ==
  /\ pc[t] = "save"
  /\ Return(t, "unsaved")
  /\ UNCHANGED <<server, point, paused, published, failed>>

\* Mutant: the newest rate of the server is saved, not that of the array.
WriteNewestPoint(t) ==
  /\ pc[t] = "write"
  /\ \/ point' = newest /\ Return(t, "saved")
     \/ point' = point /\ Return(t, "unsaved")
  /\ UNCHANGED <<server, paused, published, failed>>

WriteChartPoint(t) ==
  /\ pc[t] = "write"
  /\ \/ point' = last[t] /\ Return(t, "saved")
     \/ point' = point /\ Return(t, "unsaved")
  /\ UNCHANGED <<server, paused, published, failed>>

TaskStep(t) ==
  \/ LoadChartPoint(t)
  \/ ReachPoint(t) \/ StopTask(t) \/ PublishCandle(t)
  \/ OpenChartPoint(t) \/ OpenFails(t) \/ WriteChartPoint(t)

-----------------------------------------------------------------------------
(* The process around the tasks. *)

PausePool ==
  /\ ~paused
  /\ paused' = TRUE
  /\ UNCHANGED <<server, point, task, published, failed>>

\* The process ends, in order or not, and a new one starts: only the file and
\* what has left for the subscribers survive.
Restart ==
  /\ paused' = FALSE
  /\ pc' = [t \in Tasks |-> "idle"]
  /\ first' = [t \in Tasks |-> 0]
  /\ last' = [t \in Tasks |-> 0]
  /\ from' = [t \in Tasks |-> 0]
  /\ i' = [t \in Tasks |-> 0]
  /\ outcome' = [t \in Tasks |-> "none"]
  /\ arrays' = {}
  /\ UNCHANGED <<server, point, published, failed>>

Next ==
  \/ NewRate \/ PruneRate
  \/ \E t \in Tasks : NoQuotes(t) \/ HistoryQuotes(t) \/ TaskStep(t)
  \/ PausePool \/ Restart

\* Once a worker has taken a task it keeps running it.
Fairness == \A t \in Tasks : WF_vars(TaskStep(t))

Spec == Init /\ [][Next]_vars /\ Fairness

-----------------------------------------------------------------------------
(* Properties. *)

Settled == published \cup failed

\* Every closed candle the server still keeps and that is older than p has
\* been sent, or its failure has been logged.
SettledBelow(p) == (oldest .. p - 1) \subseteq Settled

\* The saved point never gets ahead of the work: whatever stops, fails or
\* overlaps, a later sync that trusts the point in the file (plugin.cpp:233)
\* skips no candle that was never tried.
PointIsSettled == SettledBelow(point)

\* A sync that came to its own end, by meeting the saved point
\* (plugin.cpp:240) or by sweeping the whole array, has left no closed candle
\* of its array untried; only a paused pool cuts it short of that.
EndedSyncIsComplete ==
  \A t \in Tasks :
    outcome[t] \in {"reached", "unsaved", "saved"} => SettledBelow(last[t])

\* The promise of ResumePoint, kept step by step: in particular the file is
\* only ever emptied, or given a time below which everything is settled.
Promise == INSTANCE ResumePoint WITH settled <- Settled

KeepsPromise == Promise!Spec

\* Every task a worker has taken ends (or its process does): the worker is
\* given back to the pool.
SyncEnds == \A t \in Tasks : pc[t] # "idle" ~> pc[t] = "idle"

\* MT4ServerAPI.h:1183 asks the caller to HEAP_FREE the array of
\* HistoryQuotes: a task that has ended would own none.
QuotesAreFreed == \A t \in Tasks : pc[t] = "idle" => t \notin arrays

=============================================================================
