------------------------------- MODULE TradeDesk -------------------------------
(***************************************************************************)
(* What a client may rely on of the answers to trade requests: they come   *)
(* in the order of the requests, one for each, and an accepted order has a *)
(* number above those of all orders before it.  A message that is no       *)
(* request is answered as request 0.                                       *)
(***************************************************************************)
EXTENDS Integers, Sequences

CONSTANT Malformed

VARIABLES
  asked,     \* messages not answered yet, in order
  answers    \* the answers, in order

vars == <<asked, answers>>

Init == asked = <<>> /\ answers = <<>>

Ask ==
  /\ \E m \in 1 .. Len(asked) + Len(answers) + 1 \cup {Malformed} : asked' = Append(asked, m)
  /\ UNCHANGED answers

Accepted(k) == answers[k].code = 0

Reply ==
  /\ asked # <<>>
  /\ asked' = Tail(asked)
  /\ Len(answers') = Len(answers) + 1
  /\ SubSeq(answers', 1, Len(answers)) = answers
  /\ LET last == answers'[Len(answers')]
     IN  /\ last.request = IF Head(asked) = Malformed THEN 0 ELSE Head(asked)
         /\ \/ last.code = 1 /\ last.order = 0
            \/ /\ last.code = 0
               /\ \A k \in DOMAIN answers : Accepted(k) => last.order > answers[k].order

Next == Ask \/ Reply

Spec == Init /\ [][Next]_vars

=============================================================================
