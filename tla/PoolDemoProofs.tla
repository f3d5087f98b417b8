---------------------------- MODULE PoolDemoProofs ----------------------------
(***************************************************************************)
(* Theorems of PoolDemo, for every number of threads and tasks.            *)
(***************************************************************************)
EXTENDS PoolDemo, TLAPS

\* Main pauses the pool before it waits, and nothing resumes it.
PausedOnceWaiting ==
  /\ main \in {"wait", "said", "exited"} => poolPaused
  /\ main \in {"said", "exited"} => Busy = {}

IInv == TypeOK /\ PausedOnceWaiting

-----------------------------------------------------------------------------

\* No thread takes a task of a paused pool.
LEMMA TakeStep ==
  ASSUME IInv, NEW w \in Workers, Take(w)
  PROVE  IInv'
<1> USE DEF IInv, TypeOK, PoolTypeOK
<1>1. PICK t \in Tasks : TakeTask(w, t)
  BY DEF Take
<1>2. /\ t \in queued /\ ~poolPaused
      /\ queued' = queued \ {t} /\ running' = [running EXCEPT ![w] = t]
      /\ UNCHANGED <<threads, poolPaused, main, done>>
  BY <1>1 DEF Take, TakeTask
<1>3. TypeOK'
  BY <1>2
<1>4. PausedOnceWaiting'
  BY <1>2 DEF PausedOnceWaiting
<1> QED BY <1>3, <1>4

LEMMA FinishStep ==
  ASSUME IInv, NEW w \in Workers, Finish(w)
  PROVE  IInv'
<1> USE DEF IInv, TypeOK, PoolTypeOK
<1>1. /\ running[w] # Idle /\ running' = [running EXCEPT ![w] = Idle]
      /\ done' = done \cup {running[w]}
      /\ UNCHANGED <<threads, queued, poolPaused, main>>
  BY DEF Finish, FinishTask
<1>2. TypeOK'
  BY <1>1
<1>3. PausedOnceWaiting'
  BY <1>1 DEF PausedOnceWaiting, Busy
<1> QED BY <1>2, <1>3

LEMMA MainStep ==
  ASSUME IInv, Main
  PROVE  IInv'
<1> USE DEF IInv, TypeOK, PoolTypeOK, PausedOnceWaiting, Busy, InHand
<1>1. CASE Submit
  BY <1>1 DEF Submit, DetachTask, pool
<1>2. CASE PauseCall
  BY <1>2 DEF PauseCall, Pause
<1>3. CASE WaitCall
  BY <1>3 DEF WaitCall, WaitOver, pool
<1>4. CASE Return
  BY <1>4 DEF Return, WaitOver, DestroyPool
<1> QED BY <1>1, <1>2, <1>3, <1>4 DEF Main

LEMMA Invariance == Spec => []IInv
<1>1. Init => IInv
  BY DEF Init, IInv, TypeOK, PoolTypeOK, PausedOnceWaiting, Busy, InHand
<1>2. IInv /\ [Next]_vars => IInv'
  <2> SUFFICES ASSUME IInv, [Next]_vars PROVE IInv'
    OBVIOUS
  <2>1. CASE UNCHANGED vars
    BY <2>1 DEF vars, pool, IInv, TypeOK, PoolTypeOK, PausedOnceWaiting, Busy, InHand
  <2> QED BY <2>1, MainStep, TakeStep, FinishStep DEF Next
<1> QED BY <1>1, <1>2, PTL DEF Spec

\* Every variable keeps its type.
THEOREM TypeCorrect == Spec => []TypeOK
BY Invariance, PTL DEF IInv

\* main.cpp:13-16: pause() and then wait() leave nothing running and let
\* nothing start, however many tasks were queued.
THEOREM QuietSafety == Spec => []QuietWhenSaid
<1>1. IInv => QuietWhenSaid
  BY DEF IInv, PausedOnceWaiting, QuietWhenSaid
<1> QED BY <1>1, Invariance, PTL

=============================================================================
