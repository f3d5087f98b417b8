------------------------------ MODULE RequestLog ------------------------------
(***************************************************************************)
(* What the plugin promises of trade requests: each, in the order they     *)
(* were sent, is handled once or its failure is logged, or it was lost on  *)
(* the way; none waits for ever.                                           *)
(***************************************************************************)
EXTENDS Integers, Sequences

VARIABLES
  sent,      \* the requests are 1 .. sent
  waiting,   \* those not settled yet
  handled,   \* those handled, in order
  refused,   \* those whose failure was logged
  lost

vars == <<sent, waiting, handled, refused, lost>>

Init == sent = 0 /\ waiting = {} /\ handled = <<>> /\ refused = {} /\ lost = {}

Send ==
  /\ sent' = sent + 1
  /\ \/ waiting' = waiting \cup {sent'} /\ lost' = lost
     \/ waiting' = waiting /\ lost' = lost \cup {sent'}
  /\ UNCHANGED <<handled, refused>>

\* The one that waits longest.
Settle ==
  /\ \E id \in waiting :
       /\ \A other \in waiting : id <= other
       /\ waiting' = waiting \ {id}
       /\ \/ handled' = Append(handled, id) /\ refused' = refused
          \/ handled' = handled /\ refused' = refused \cup {id}
  /\ UNCHANGED <<sent, lost>>

Lose ==
  /\ \E gone \in SUBSET waiting :
       /\ gone # {}
       /\ waiting' = waiting \ gone
       /\ lost' = lost \cup gone
  /\ UNCHANGED <<sent, handled, refused>>

Next == Send \/ Settle \/ Lose

Spec == Init /\ [][Next]_vars /\ WF_vars(Settle \/ Lose)

=============================================================================
