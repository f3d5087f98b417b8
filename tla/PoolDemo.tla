------------------------------- MODULE PoolDemo -------------------------------
(***************************************************************************)
(* plugins/mock/src/main.cpp: the program that tries the pool out the way  *)
(* the plugin's deleter uses it.  It detaches its tasks, all of them       *)
(* urgent, pauses the pool, waits, says that all tasks completed, and      *)
(* destroys the pool on its way out of main.                               *)
(***************************************************************************)
EXTENDS WorkerPool

ASSUME AllUrgent == Urgent = Tasks

VARIABLES
  main,   \* where main is
  done    \* tasks that have printed "Task i done"

vars == <<pool, main, done>>

TypeOK ==
  /\ PoolTypeOK
  /\ main \in {"submit", "pause", "wait", "said", "exited"}
  /\ done \subseteq Tasks

Init ==
  /\ threads = Workers
  /\ queued = {}
  /\ running = [w \in Workers |-> Idle]
  /\ poolPaused = FALSE
  /\ main = "submit"
  /\ done = {}

Submit ==
  /\ main = "submit"
  /\ \/ /\ \E t \in Tasks \ (queued \cup InHand \cup done) : DetachTask(t)
        /\ main' = main
     \/ /\ Tasks = queued \cup InHand \cup done
        /\ main' = "pause"
        /\ UNCHANGED pool
  /\ UNCHANGED done

PauseCall ==
  /\ main = "pause"
  /\ Pause
  /\ main' = "wait"
  /\ UNCHANGED done

WaitCall ==
  /\ main = "wait"
  /\ WaitOver
  /\ main' = "said"
  /\ UNCHANGED <<pool, done>>

Return ==
  /\ main = "said"
  /\ WaitOver
  /\ DestroyPool
  /\ main' = "exited"
  /\ UNCHANGED done

Main == Submit \/ PauseCall \/ WaitCall \/ Return

Take(w) ==
  /\ \E t \in Tasks : TakeTask(w, t)
  /\ UNCHANGED <<main, done>>

\* Mutant: the thread is given back before the task says its name.
FinishTooEarly(w) ==
  /\ running[w] # Idle
  /\ FinishTask(w)
  /\ done' = done \cup {running'[w]}
  /\ UNCHANGED main

Finish(w) ==
  /\ running[w] # Idle
  /\ FinishTask(w)
  /\ done' = done \cup {running[w]}
  /\ UNCHANGED main

Next == Main \/ \E w \in Workers : Take(w) \/ Finish(w)

\* main and the threads that run a task or can take one are scheduled.
Fairness ==
  /\ WF_vars(Main)
  /\ \A w \in Workers : WF_vars(Take(w)) /\ WF_vars(Finish(w))

Spec == Init /\ [][Next]_vars /\ Fairness

-----------------------------------------------------------------------------

\* Whatever was still running when main paused the pool has ended by the time
\* main speaks, and nothing starts after that (main.cpp:13-16).  That is less
\* than its "All tasks completed, exiting.": tasks that were in the queue at
\* the pause stay there, and are thrown away.
QuietWhenSaid == main \in {"said", "exited"} => Busy = {}

\* Pausing with tasks in the queue does not make wait() hang: main returns.
MainReturns == <>(main = "exited")

=============================================================================
