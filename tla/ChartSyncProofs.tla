--------------------------- MODULE ChartSyncProofs ---------------------------
(***************************************************************************)
(* Theorems of ChartSync, for every set of tasks, every bound on the time  *)
(* and every stop interval.                                                *)
(***************************************************************************)
EXTENDS ChartSync, TLAPS

\* A running task holds a non-empty array of rates the server had or has, and
\* the index of its sweep stays inside that array.
LocalsOK ==
  \A t \in Tasks :
    /\ pc[t] # "idle" => first[t] \in 1 .. oldest /\ first[t] <= last[t]
    /\ pc[t] = "sweep" => Ctm(t) <= last[t]

\* What a sweep has behind it: the array above the index, and, because from is
\* a point that was in the file, everything below from.
SweepSettled ==
  \A t \in Tasks :
    pc[t] = "sweep" =>
      /\ (Ctm(t) + 1 .. last[t] - 1) \subseteq Settled
      /\ SettledBelow(from[t])

\* Only a sweep of the whole array gets to the saving of the point.
SaveSettled ==
  \A t \in Tasks : pc[t] \in {"save", "write"} => SettledBelow(last[t])

\* PointIsSettled and EndedSyncIsComplete speak of the file and of ended tasks;
\* what makes them inductive is what the running tasks have already done.
IInv ==
  /\ TypeOK
  /\ LocalsOK
  /\ PointIsSettled
  /\ SweepSettled
  /\ SaveSettled
  /\ EndedSyncIsComplete

-----------------------------------------------------------------------------

\* Once settled below p, always: candles only leave the server's history, and
\* nothing that was sent or logged is taken back.
LEMMA SettledBelowGrows ==
  ASSUME TypeOK, TypeOK', oldest <= oldest', Settled \subseteq Settled',
         NEW p \in Times, SettledBelow(p)
  PROVE  SettledBelow(p)'
BY DEF SettledBelow, TypeOK, Times

LEMMA InitIInv == Init => IInv
<1> SUFFICES ASSUME Init PROVE IInv
  OBVIOUS
<1>1. TypeOK
  <2>1. oldest \in 1 .. MaxTime + 1 /\ newest \in Times /\ point \in Times
    BY ChartAssumption DEF Init, Times
  <2>2. /\ pc \in [Tasks -> Locations] /\ outcome \in [Tasks -> Outcomes]
        /\ first \in [Tasks -> Nat] /\ i \in [Tasks -> Nat]
    BY DEF Init, Locations, Outcomes
  <2>3. last \in [Tasks -> Times] /\ from \in [Tasks -> Times]
    BY ChartAssumption DEF Init, Times
  <2>4. paused \in BOOLEAN /\ arrays \subseteq Tasks
    BY DEF Init
  <2>5. published \subseteq Times /\ failed \subseteq Times
    BY DEF Init
  <2> QED BY <2>1, <2>2, <2>3, <2>4, <2>5 DEF TypeOK
<1>2. LocalsOK /\ SweepSettled /\ SaveSettled /\ EndedSyncIsComplete
  BY DEF Init, LocalsOK, SweepSettled, SaveSettled, EndedSyncIsComplete
<1>3. PointIsSettled
  BY DEF Init, PointIsSettled, SettledBelow
<1> QED BY <1>1, <1>2, <1>3 DEF IInv

\* The steps that end a task: what they owe is that a task which claims to be
\* complete is, and that the file holds a settled point.
LEMMA ReturnStep ==
  ASSUME IInv,
         NEW t \in Tasks, NEW how \in Outcomes,
         Return(t, how),
         UNCHANGED <<server, paused, published, failed>>,
         point' \in Times, SettledBelow(point'),
         how \in {"reached", "unsaved", "saved"} => SettledBelow(last[t])
  PROVE  IInv'
<1> USE DEF IInv
<1>1. TypeOK'
  BY ChartAssumption DEF TypeOK, Return, Goto, server, Locations, Times
<1>2. /\ oldest' = oldest /\ Settled' = Settled
      /\ \A p \in Times : SettledBelow(p) => SettledBelow(p)'
  BY <1>1, SettledBelowGrows DEF server, Settled, TypeOK, Times
<1>3. LocalsOK'
  BY <1>2 DEF LocalsOK, Return, Goto, TypeOK, Ctm
<1>4. PointIsSettled'
  BY <1>2 DEF PointIsSettled, SettledBelow
<1>5. SweepSettled'
  BY <1>2 DEF SweepSettled, Return, Goto, TypeOK, Ctm
<1>6. SaveSettled'
  BY <1>2 DEF SaveSettled, Return, Goto, TypeOK
<1>7. EndedSyncIsComplete'
  BY <1>2 DEF EndedSyncIsComplete, Return, Goto, TypeOK
<1> QED BY <1>1, <1>3, <1>4, <1>5, <1>6, <1>7

\* The steps of the server, of the pool and of a task that leave every task
\* where it is only have to settle no less than before.
LEMMA OutsideStep ==
  ASSUME IInv, TypeOK', UNCHANGED <<point, task>>,
         oldest <= oldest', Settled \subseteq Settled'
  PROVE  IInv'
<1> USE DEF IInv
<1>1. \A p \in Times : SettledBelow(p) => SettledBelow(p)'
  BY SettledBelowGrows
<1>2. LocalsOK'
  BY DEF LocalsOK, task, Ctm, TypeOK
<1>3. PointIsSettled'
  BY <1>1 DEF PointIsSettled, TypeOK, SettledBelow
<1>4. SweepSettled'
  BY <1>1 DEF SweepSettled, task, Ctm, TypeOK
<1>5. SaveSettled'
  BY <1>1 DEF SaveSettled, task, TypeOK
<1>6. EndedSyncIsComplete'
  BY <1>1 DEF EndedSyncIsComplete, task, TypeOK
<1> QED BY <1>2, <1>3, <1>4, <1>5, <1>6

LEMMA HistoryQuotesStep ==
  ASSUME IInv, NEW t \in Tasks, HistoryQuotes(t)
  PROVE  IInv'
<1> USE DEF IInv, HistoryQuotes, Goto, server
<1>1. TypeOK'
  BY DEF TypeOK, Locations, Outcomes, Times
<1>2. /\ Settled' = Settled
      /\ \A p \in Times : SettledBelow(p) => SettledBelow(p)'
  BY <1>1, SettledBelowGrows DEF Settled, TypeOK
<1>3. LocalsOK'
  BY DEF LocalsOK, TypeOK, Ctm
<1>4. PointIsSettled'
  BY <1>2 DEF PointIsSettled, SettledBelow
<1>5. SweepSettled'
  BY <1>2 DEF SweepSettled, TypeOK, Ctm
<1>6. SaveSettled'
  BY <1>2 DEF SaveSettled, TypeOK
<1>7. EndedSyncIsComplete'
  BY <1>2 DEF EndedSyncIsComplete, TypeOK
<1> QED BY <1>1, <1>3, <1>4, <1>5, <1>6, <1>7

\* The sweep starts with nothing above its index, and from is the saved point.
LEMMA LoadChartPointStep ==
  ASSUME IInv, NEW t \in Tasks, LoadChartPoint(t)
  PROVE  IInv'
<1> USE DEF IInv, LoadChartPoint, Goto, server
<1>1. TypeOK'
  BY DEF TypeOK, Locations, Times, LocalsOK
<1>2. /\ Settled' = Settled
      /\ \A p \in Times : SettledBelow(p) => SettledBelow(p)'
  BY <1>1, SettledBelowGrows DEF Settled, TypeOK
<1>3. LocalsOK'
  BY DEF LocalsOK, TypeOK, Ctm, Times
<1>4. PointIsSettled'
  BY <1>2 DEF PointIsSettled, SettledBelow
<1>5. SweepSettled'
  <2>1. ASSUME NEW u \in Tasks, pc'[u] = "sweep", u # t
        PROVE  /\ (Ctm(u) + 1 .. last[u] - 1)' \subseteq Settled'
               /\ SettledBelow(from[u])'
    BY <1>2, <2>1 DEF SweepSettled, TypeOK, Ctm
  <2>2. (Ctm(t) + 1 .. last[t] - 1)' \subseteq Settled'
    BY DEF LocalsOK, TypeOK, Ctm, Times
  <2>3. SettledBelow(from[t])'
    BY <1>4 DEF PointIsSettled, SettledBelow, TypeOK
  <2> QED BY <2>1, <2>2, <2>3 DEF SweepSettled
<1>6. SaveSettled'
  BY <1>2 DEF SaveSettled, TypeOK
<1>7. EndedSyncIsComplete'
  BY <1>2 DEF EndedSyncIsComplete, TypeOK
<1> QED BY <1>1, <1>3, <1>4, <1>5, <1>6, <1>7

\* The candle at the index joins what the sweep has behind it; past index 0
\* the whole array is behind it.
LEMMA PublishCandleStep ==
  ASSUME IInv, NEW t \in Tasks, PublishCandle(t)
  PROVE  IInv'
<1> USE DEF IInv, PublishCandle, Goto, server
<1>1. pc[t] = "sweep" /\ Ctm(t) \in Times /\ Ctm(t) <= last[t]
  BY ChartAssumption DEF LocalsOK, TypeOK, Ctm, Times
<1>2. TypeOK'
  BY <1>1 DEF TypeOK, Locations
<1>3. Settled \subseteq Settled' /\ {Ctm(t)} \ {last[t]} \subseteq Settled'
  BY DEF Settled
<1>4. \A p \in Times : SettledBelow(p) => SettledBelow(p)'
  BY <1>2, <1>3, SettledBelowGrows DEF TypeOK
<1>5. LocalsOK'
  <2>1. first' = first /\ last' = last /\ oldest' = oldest
    OBVIOUS
  <2>2. \A u \in Tasks : i'[u] <= i[u] /\ i'[u] \in Nat /\ i[u] \in Nat
    BY DEF TypeOK
  <2>3. \A u \in Tasks : pc'[u] # pc[u] => u = t /\ pc'[u] = "save"
    BY DEF TypeOK
  <2> QED BY <1>1, <2>1, <2>2, <2>3 DEF LocalsOK, TypeOK, Ctm, Times
<1>6. PointIsSettled'
  BY <1>4 DEF PointIsSettled, TypeOK, SettledBelow
<1>7. (Ctm(t) .. last[t] - 1) \subseteq Settled'
  BY <1>1, <1>3 DEF SweepSettled, TypeOK, Times
<1>8. SweepSettled'
  <2>1. ASSUME NEW u \in Tasks, pc'[u] = "sweep", u # t
        PROVE  /\ (Ctm(u) + 1 .. last[u] - 1)' \subseteq Settled'
               /\ SettledBelow(from[u])'
    BY <1>3, <1>4, <2>1 DEF SweepSettled, TypeOK, Ctm
  <2>2. ASSUME pc'[t] = "sweep"
        PROVE  /\ (Ctm(t) + 1 .. last[t] - 1)' \subseteq Settled'
               /\ SettledBelow(from[t])'
    <3>1. i[t] # 0
      BY <2>2 DEF TypeOK
    <3>2. Ctm(t)' + 1 = Ctm(t) /\ last'[t] = last[t] /\ from'[t] = from[t]
      BY <3>1 DEF TypeOK, Ctm
    <3> QED BY <1>1, <1>4, <1>7, <3>2 DEF SweepSettled, TypeOK
  <2> QED BY <2>1, <2>2 DEF SweepSettled
<1>9. SaveSettled'
  <2>1. ASSUME NEW u \in Tasks, pc'[u] \in {"save", "write"}, u # t
        PROVE  SettledBelow(last[u])'
    BY <1>4, <2>1 DEF SaveSettled, TypeOK
  <2>2. ASSUME pc'[t] \in {"save", "write"}
        PROVE  SettledBelow(last[t])'
    <3>1. i[t] = 0 /\ Ctm(t) = first[t] /\ first[t] <= oldest
      BY <1>1, <2>2 DEF TypeOK, LocalsOK, Ctm
    <3> QED BY <1>7, <3>1 DEF SettledBelow, TypeOK, Times
  <2> QED BY <2>1, <2>2 DEF SaveSettled
<1>10. EndedSyncIsComplete'
  BY <1>4 DEF EndedSyncIsComplete, TypeOK
<1> QED BY <1>2, <1>5, <1>6, <1>8, <1>9, <1>10

LEMMA OpenChartPointStep ==
  ASSUME IInv, NEW t \in Tasks, OpenChartPoint(t)
  PROVE  IInv'
<1> USE DEF IInv, OpenChartPoint, Goto, server
<1>1. TypeOK'
  BY ChartAssumption DEF TypeOK, Locations, Times
<1>2. /\ Settled' = Settled
      /\ \A p \in Times : SettledBelow(p) => SettledBelow(p)'
  BY <1>1, SettledBelowGrows DEF Settled, TypeOK
<1>3. LocalsOK'
  BY DEF LocalsOK, TypeOK, Ctm
<1>4. PointIsSettled'
  BY DEF PointIsSettled, SettledBelow, TypeOK
<1>5. SweepSettled'
  BY <1>2 DEF SweepSettled, TypeOK, Ctm
<1>6. SaveSettled'
  BY <1>2 DEF SaveSettled, TypeOK
<1>7. EndedSyncIsComplete'
  BY <1>2 DEF EndedSyncIsComplete, TypeOK
<1> QED BY <1>1, <1>3, <1>4, <1>5, <1>6, <1>7

LEMMA RestartStep ==
  ASSUME IInv, Restart
  PROVE  IInv'
<1> USE DEF IInv, Restart, server
<1>1. TypeOK'
  <2>1. /\ pc' \in [Tasks -> Locations] /\ outcome' \in [Tasks -> Outcomes]
        /\ first' \in [Tasks -> Nat] /\ i' \in [Tasks -> Nat]
    BY DEF Locations, Outcomes
  <2>2. last' \in [Tasks -> Times] /\ from' \in [Tasks -> Times]
    BY ChartAssumption DEF Times
  <2>3. paused' \in BOOLEAN /\ arrays' \subseteq Tasks
    OBVIOUS
  <2> QED BY <2>1, <2>2, <2>3 DEF TypeOK
<1>2. LocalsOK' /\ SweepSettled' /\ SaveSettled' /\ EndedSyncIsComplete'
  BY DEF LocalsOK, SweepSettled, SaveSettled, EndedSyncIsComplete
<1>3. PointIsSettled'
  BY DEF PointIsSettled, SettledBelow, Settled
<1> QED BY <1>1, <1>2, <1>3

-----------------------------------------------------------------------------

LEMMA StepIInv == IInv /\ [Next]_vars => IInv'
<1> SUFFICES ASSUME IInv, [Next]_vars PROVE IInv'
  OBVIOUS
<1>1. CASE NewRate
  <2>1. TypeOK'
    BY <1>1, ChartAssumption DEF NewRate, IInv, TypeOK, task, Times
  <2> QED BY <1>1, <2>1, OutsideStep DEF NewRate, IInv, TypeOK, Settled
<1>2. CASE PruneRate
  <2>1. TypeOK'
    BY <1>2, ChartAssumption DEF PruneRate, IInv, TypeOK, task, Times
  <2> QED BY <1>2, <2>1, OutsideStep DEF PruneRate, IInv, TypeOK, Settled
<1>3. CASE PausePool
  <2>1. TypeOK'
    BY <1>3 DEF PausePool, IInv, TypeOK, server, task
  <2> QED BY <1>3, <2>1, OutsideStep DEF PausePool, server, IInv, TypeOK, Settled
<1>4. CASE Restart
  BY <1>4, RestartStep
<1>5. ASSUME NEW t \in Tasks, HistoryQuotes(t) PROVE IInv'
  BY <1>5, HistoryQuotesStep
<1>6. ASSUME NEW t \in Tasks, LoadChartPoint(t) PROVE IInv'
  BY <1>6, LoadChartPointStep
<1>7. ASSUME NEW t \in Tasks, PublishCandle(t) PROVE IInv'
  BY <1>7, PublishCandleStep
<1>8. ASSUME NEW t \in Tasks, OpenChartPoint(t) PROVE IInv'
  BY <1>8, OpenChartPointStep
<1>9. ASSUME NEW t \in Tasks,
             NoQuotes(t) \/ ReachPoint(t) \/ StopTask(t) \/ OpenFails(t) \/ WriteChartPoint(t)
      PROVE  IInv'
  <2>1. point \in Times /\ last[t] \in Times /\ SettledBelow(point)
    BY DEF IInv, TypeOK, PointIsSettled
  <2>2. CASE NoQuotes(t)
    BY <2>1, <2>2, ReturnStep DEF NoQuotes, Outcomes, SettledBelow, server, Settled
  <2>3. CASE ReachPoint(t)
    <3>1. SettledBelow(last[t])
      BY <2>3 DEF ReachPoint, Old, IInv, SweepSettled, SettledBelow, Ctm, TypeOK, Times
    <3> QED BY <2>1, <2>3, <3>1, ReturnStep
               DEF ReachPoint, Outcomes, SettledBelow, server, Settled
  <2>4. CASE StopTask(t)
    BY <2>1, <2>4, ReturnStep DEF StopTask, Outcomes, SettledBelow, server, Settled
  <2>5. CASE OpenFails(t)
    <3>1. SettledBelow(last[t])
      BY <2>5 DEF OpenFails, IInv, SaveSettled
    <3> QED BY <2>1, <2>5, <3>1, ReturnStep
               DEF OpenFails, Outcomes, SettledBelow, server, Settled
  <2>6. CASE WriteChartPoint(t)
    <3>1. SettledBelow(last[t])
      BY <2>6 DEF WriteChartPoint, IInv, SaveSettled
    <3>2. point' \in {point, last[t]}
      BY <2>6 DEF WriteChartPoint
    <3>3. PICK how \in {"saved", "unsaved"} : Return(t, how)
      BY <2>6 DEF WriteChartPoint
    <3>4. point' \in Times /\ SettledBelow(point')
      BY <2>1, <3>1, <3>2
    <3>5. how \in Outcomes /\ UNCHANGED <<server, paused, published, failed>>
      BY <2>6 DEF WriteChartPoint, Outcomes
    <3> QED BY <3>1, <3>3, <3>4, <3>5, ReturnStep, Zenon
  <2> QED BY <1>9, <2>2, <2>3, <2>4, <2>5, <2>6
<1>10. CASE UNCHANGED vars
  <2>1. TypeOK'
    BY <1>10 DEF vars, server, task, IInv, TypeOK
  <2> QED BY <1>10, <2>1, OutsideStep DEF vars, server, IInv, TypeOK, Settled
<1> QED
  BY <1>1, <1>2, <1>3, <1>4, <1>5, <1>6, <1>7, <1>8, <1>9, <1>10 DEF Next, TaskStep

LEMMA Invariance == Spec => []IInv
BY InitIInv, StepIInv, PTL DEF Spec

\* Every variable keeps its type, whatever the history, the restarts and the
\* overlapping of tasks.
THEOREM TypeCorrect == Spec => []TypeOK
BY Invariance, PTL DEF IInv

\* plugin.cpp:233 may trust the file: the saved point is never ahead of a
\* candle that was not tried.
THEOREM PointSafety == Spec => []PointIsSettled
BY Invariance, PTL DEF IInv

\* A sync that is not stopped by the pool leaves nothing untried, on either of
\* its two ways out (plugin.cpp:242 and plugin.cpp:265).
THEOREM SyncSafety == Spec => []EndedSyncIsComplete
BY Invariance, PTL DEF IInv

\* The tasks, the file and the restarts implement the promise of ResumePoint.
THEOREM Implements == Spec => KeepsPromise
<1>1. Init => Promise!Init
  BY DEF Init, Promise!Init, Settled
<1>2. IInv /\ IInv' /\ [Next]_vars => [Promise!Next]_(Promise!vars)
  <2> SUFFICES ASSUME IInv, IInv', [Next]_vars
               PROVE  Promise!Next \/ UNCHANGED Promise!vars
    OBVIOUS
  <2> USE DEF Promise!Next, Promise!vars, server
  <2>1. ASSUME oldest' = oldest, Settled' = Settled
        PROVE  point' \in Nat /\ Promise!SettledBelow(point')
    <3>1. point' \in Nat
      BY DEF IInv, TypeOK, Times
    <3>2. (oldest' .. point' - 1) \subseteq Settled'
      BY DEF IInv, PointIsSettled, SettledBelow
    <3> QED BY <2>1, <3>1, <3>2 DEF Promise!SettledBelow
  <2>2. CASE NewRate \/ PausePool \/ UNCHANGED vars
    BY <2>2 DEF NewRate, PausePool, vars, Settled
  <2>3. CASE PruneRate
    BY <2>3 DEF PruneRate, Promise!Expire, Settled
  <2>4. CASE Restart
    BY <2>4 DEF Restart, Settled
  <2>5. ASSUME NEW t \in Tasks, NoQuotes(t) \/ HistoryQuotes(t) \/ TaskStep(t)
        PROVE  Promise!Next \/ UNCHANGED Promise!vars
    <3>1. CASE PublishCandle(t)
      BY <3>1 DEF PublishCandle, Promise!Settle, Settled
    <3>2. CASE OpenChartPoint(t) \/ WriteChartPoint(t)
      BY <2>1, <3>2 DEF OpenChartPoint, WriteChartPoint, Promise!Record, Settled
    <3>3. CASE NoQuotes(t) \/ HistoryQuotes(t) \/ LoadChartPoint(t)
      BY <3>3 DEF NoQuotes, HistoryQuotes, LoadChartPoint, Settled
    <3>4. CASE ReachPoint(t) \/ StopTask(t) \/ OpenFails(t)
      BY <3>4 DEF ReachPoint, StopTask, OpenFails, Settled
    <3> QED BY <2>5, <3>1, <3>2, <3>3, <3>4 DEF TaskStep
  <2> QED BY <2>2, <2>3, <2>4, <2>5 DEF Next
<1> QED BY <1>1, <1>2, Invariance, PTL DEF Spec, KeepsPromise, Promise!Spec

=============================================================================
