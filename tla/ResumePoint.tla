----------------------------- MODULE ResumePoint -----------------------------
(***************************************************************************)
(* What publish_chart_by_symbol promises about its .timepoint file, with   *)
(* no tasks in sight: the file holds a time such that no candle older than *)
(* it, which the server still keeps, is left to try.  The point may be     *)
(* lost, in which case everything is tried again, and it may move back; it *)
(* never moves past a candle that was not tried.                           *)
(***************************************************************************)
EXTENDS Integers

VARIABLES
  oldest,    \* the oldest candle the server keeps
  settled,   \* the candles that were sent, or whose failure was logged
  point      \* the saved point, 0 when there is none

vars == <<oldest, settled, point>>

SettledBelow(p) == (oldest .. p - 1) \subseteq settled

Init ==
  /\ oldest = 1
  /\ settled = {}
  /\ point = 0

Settle ==
  /\ settled \subseteq settled'
  /\ UNCHANGED <<oldest, point>>

Expire ==
  /\ oldest' = oldest + 1
  /\ UNCHANGED <<settled, point>>

\* Nothing is below 0: the point may be forgotten at any time.
Record ==
  /\ point' \in Nat
  /\ SettledBelow(point')
  /\ UNCHANGED <<oldest, settled>>

Next == Settle \/ Expire \/ Record

Spec == Init /\ [][Next]_vars

=============================================================================
