------------------------------ MODULE WorkerPool ------------------------------
(***************************************************************************)
(* What the code relies on of BS::thread_pool<tp::priority | tp::pause>, a *)
(* library that is not in the repository: threads that take detached tasks *)
(* out of one queue, the urgent ones first and those of one priority in    *)
(* any order (the queue is a heap), and take nothing while the pool is     *)
(* paused.  A task that runs is never interrupted.                         *)
(*                                                                         *)
(* The operators are the steps of the pool; the modules that own one say   *)
(* when they happen and what the tasks do.                                 *)
(***************************************************************************)
EXTENDS FiniteSets, Integers

CONSTANTS
  Workers,   \* the threads a pool may have
  Tasks,     \* the tasks that may be detached
  Urgent,    \* those detached with BS::pr::high
  Idle       \* what a thread without a task runs

ASSUME PoolAssumption ==
  /\ IsFiniteSet(Workers)
  /\ Urgent \subseteq Tasks
  /\ Idle \notin Tasks

VARIABLES
  threads,      \* the threads the pool was created with
  queued,       \* tasks detached and not yet taken
  running,      \* the task each thread runs
  poolPaused    \* is_paused()

pool == <<threads, queued, running, poolPaused>>

PoolTypeOK ==
  /\ threads \subseteq Workers
  /\ queued \subseteq Tasks
  /\ running \in [Workers -> Tasks \cup {Idle}]
  /\ poolPaused \in BOOLEAN

NoPool ==
  /\ threads = {}
  /\ queued = {}
  /\ running = [w \in Workers |-> Idle]
  /\ poolPaused = FALSE

Busy == {w \in Workers : running[w] # Idle}

\* The tasks the threads are running.
InHand == {running[w] : w \in Busy}

CreatePool(n) ==
  /\ threads' \in {s \in SUBSET Workers : Cardinality(s) = n}
  /\ UNCHANGED <<queued, running, poolPaused>>

DetachTask(t) ==
  /\ queued' = queued \cup {t}
  /\ UNCHANGED <<threads, running, poolPaused>>

TakeTask(w, t) ==
  /\ w \in threads /\ running[w] = Idle
  /\ t \in queued /\ ~poolPaused
  /\ queued \cap Urgent # {} => t \in Urgent
  /\ queued' = queued \ {t}
  /\ running' = [running EXCEPT ![w] = t]
  /\ UNCHANGED <<threads, poolPaused>>

FinishTask(w) ==
  /\ running' = [running EXCEPT ![w] = Idle]
  /\ UNCHANGED <<threads, queued, poolPaused>>

Pause ==
  /\ poolPaused' = TRUE
  /\ UNCHANGED <<threads, queued, running>>

\* Mutants: wait() for the running tasks or the queue alone, and wait() as if
\* the pool could not be paused.
WaitOverQueueOnly == poolPaused \/ queued = {}
WaitOverUnpaused == Busy = {} /\ queued = {}

\* When wait() returns: no task runs, and none is queued that could run.
WaitOver == Busy = {} /\ (poolPaused \/ queued = {})

\* The threads are joined and the tasks nobody took are destroyed.
DestroyPool ==
  /\ threads' = {}
  /\ queued' = {}
  /\ UNCHANGED <<running, poolPaused>>

=============================================================================
