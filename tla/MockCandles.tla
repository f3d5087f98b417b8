------------------------------ MODULE MockCandles ------------------------------
(***************************************************************************)
(* When the mock publishes candles: candlesGenerator of mock/main.go over  *)
(* TimeframeGenerator and PeriodicScheduler.  First the candles of the two *)
(* minutes up to now, then one at the start of every minute; what the      *)
(* scheduler sees of the clock is read at different moments, and the       *)
(* publishing itself takes time.                                           *)
(*                                                                         *)
(* The operators are the steps of the generator; MockServer runs it as one *)
(* of its goroutines and says when it starts, ends, or fails.              *)
(***************************************************************************)
EXTENDS Integers, Sequences

CONSTANTS
  Minute,     \* the readings of the clock in a minute
  MaxClock    \* bound on the clock; it leaves room for the start

ASSUME CandleAssumption ==
  /\ Minute \in Nat \ {0}
  /\ MaxClock \in Nat /\ MaxClock >= 3 * Minute

VARIABLES
  clock,      \* time.Now()
  candles,    \* where candlesGenerator is
  now,        \* nowTime, truncated when the generator started
  from,       \* the loop variable of TimeframeGenerator
  timer,      \* when the timer is due
  fired,      \* the timestamp in the timer's channel
  published,  \* the times of the candles published, in order
  behind      \* history: a minute began while nobody waited for it

generator == <<clock, candles, now, from, timer, fired, published, behind>>

NotFired == -1

Truncate(t) == t - (t % Minute)

GeneratorTypeOK ==
  /\ clock \in 0 .. MaxClock
  /\ candles \in {"none", "start", "initial", "schedule", "select", "publish", "ended"}
  /\ now \in 0 .. MaxClock
  /\ from \in 0 .. MaxClock
  /\ timer \in 0 .. MaxClock + Minute
  /\ fired \in -1 .. MaxClock
  /\ published \in Seq(0 .. MaxClock)
  /\ behind \in BOOLEAN

\* The mock is started at some time after the first two minutes.
GeneratorInit ==
  /\ clock \in 2 * Minute .. 3 * Minute - 1
  /\ candles = "none"
  /\ now = 0 /\ from = 0 /\ timer = 0 /\ fired = NotFired
  /\ published = <<>>
  /\ behind = FALSE

\* The clock only goes forward.  The generator falls behind when a minute
\* begins while it is publishing, or while the timer for the minute before is
\* still to be served.
Tick ==
  /\ clock < MaxClock
  /\ clock' = clock + 1
  /\ behind' = \/ behind
               \/ candles \in {"initial", "schedule", "publish"} /\ clock' % Minute = 0
               \/ candles = "select" /\ clock' >= timer + Minute
  /\ UNCHANGED <<candles, now, from, timer, fired, published>>

ReadNow ==
  /\ candles = "start"
  /\ now' = Truncate(clock)
  /\ from' = Truncate(now' - 2 * Minute)
  /\ candles' = "initial"
  /\ UNCHANGED <<clock, timer, fired, published, behind>>

\* Mutant: the generator yields before it advances.
InitialYieldsFirst ==
  /\ candles = "initial"
  /\ IF from < now
     THEN /\ from' = from + Minute
          /\ published' = Append(published, from)
          /\ candles' = candles
     ELSE /\ candles' = "schedule"
          /\ UNCHANGED <<from, published>>
  /\ UNCHANGED <<clock, now, timer, fired, behind>>

\* TimeframeGenerator advances before it yields: its first time is not from
\* itself, and its last is now.
Initial ==
  /\ candles = "initial"
  /\ IF from < now
     THEN /\ from' = from + Minute
          /\ published' = Append(published, from')
          /\ candles' = candles
     ELSE /\ candles' = "schedule"
          /\ UNCHANGED <<from, published>>
  /\ UNCHANGED <<clock, now, timer, fired, behind>>

\* Mutants: the minute that has begun, and a minute from now.
ScheduleThisMinute ==
  /\ candles = "schedule"
  /\ timer' = Truncate(clock)
  /\ candles' = "select"
  /\ UNCHANGED <<clock, now, from, fired, published, behind>>

ScheduleFromNow ==
  /\ candles = "schedule"
  /\ timer' = clock + Minute
  /\ candles' = "select"
  /\ UNCHANGED <<clock, now, from, fired, published, behind>>

\* PeriodicScheduler: the start of the minute after this one.
Schedule ==
  /\ candles = "schedule"
  /\ timer' = Truncate(clock) + Minute
  /\ candles' = "select"
  /\ UNCHANGED <<clock, now, from, fired, published, behind>>

\* The timer fires when it is due or later, and leaves the time of that
\* moment in its channel, where it may wait.
Fire ==
  /\ candles = "select" /\ fired = NotFired
  /\ clock >= timer
  /\ fired' = clock
  /\ UNCHANGED <<clock, candles, now, from, timer, published, behind>>

Receive ==
  /\ candles = "select" /\ fired # NotFired
  /\ candles' = "publish"
  /\ UNCHANGED <<clock, now, from, timer, fired, published, behind>>

PublishCandle ==
  /\ candles = "publish"
  /\ published' = Append(published, fired)
  /\ fired' = NotFired
  /\ candles' = "schedule"
  /\ UNCHANGED <<clock, now, from, timer, behind>>

-----------------------------------------------------------------------------
(* Properties. *)

MinuteOf(t) == t \div Minute

\* Candles come in the order of their minutes and no minute comes twice, also
\* where the initial candles meet the scheduled ones, and however late the
\* timer fires, is received, or the publishing ends.
MinutesIncrease ==
  \A k \in 1 .. Len(published) - 1 : MinuteOf(published[k]) < MinuteOf(published[k + 1])

\* The generator starts with the last two minutes, the current one included.
StartsWithTwoMinutes ==
  candles \notin {"none", "start", "initial"} => SubSeq(published, 1, 2) = <<now - Minute, now>>

\* A minute is left out only if it began while the generator was publishing
\* or not yet served for the minute before: neither the truncation nor the
\* second reading of the clock loses one.
GapOnlyWhenBehind ==
  ~behind =>
    \A k \in 1 .. Len(published) - 1 :
      MinuteOf(published[k + 1]) = MinuteOf(published[k]) + 1

=============================================================================
