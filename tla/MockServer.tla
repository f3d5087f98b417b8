------------------------------ MODULE MockServer ------------------------------
(***************************************************************************)
(* mock/main.go: the stand-in for the plugin.  Three goroutines of an      *)
(* error group publish candles and ticks and answer trade requests, while  *)
(* main publishes the symbols of the groups and waits for the group.  A    *)
(* signal, or the first goroutine that returns an error, cancels the       *)
(* context.  A failed publish panics: in a goroutine that is the end of    *)
(* the process, for nothing recovers it; in main the deferred nc.Close     *)
(* comes first, under the goroutines that still run.                       *)
(*                                                                         *)
(* The candles are those of MockCandles; the ticks come from the same      *)
(* scheduler and are left out, only how their goroutine ends is kept.      *)
(***************************************************************************)
EXTENDS MockCandles, SequencesExt

CONSTANTS
  Malformed,     \* a message that gives json.Unmarshal no request_id
  MaxRequests,   \* bound on the messages clients send
  RequestCost,   \* bound on both: the readings of the clock a message takes away
  MaxSymbols     \* group symbols main has to publish

ASSUME MockAssumption ==
  /\ Malformed \notin Int
  /\ MaxRequests \in Nat
  /\ RequestCost \in Nat
  /\ MaxSymbols \in Nat

VARIABLES
  main,        \* where main is
  left,        \* group symbols main has not published yet
  cancelled,   \* the context is done
  process,     \* "up", "exited" or "panicked"
  conn,        \* the connection to NATS
  ticks,       \* where the goroutine of the ticks is
  trade,       \* where the trade goroutine is
  inbox,       \* its subscription's pending messages
  message,     \* the message it has read
  orderID,     \* its counter
  sent,        \* messages clients have sent
  answers      \* the responses it has published

life  == <<main, left, cancelled, process, conn>>
desk  == <<trade, inbox, message, orderID, sent, answers>>
vars  == <<life, ticks, generator, desk>>

RequestIDs == 1 .. MaxRequests
Messages   == RequestIDs \cup {Malformed}

TypeOK ==
  /\ GeneratorTypeOK
  /\ main \in {"start", "publish", "wait", "closing", "returned", "panicking"}
  /\ left \in 0 .. MaxSymbols
  /\ cancelled \in BOOLEAN
  /\ process \in {"up", "exited", "panicked"}
  /\ conn \in {"none", "open", "lost", "closed"}
  /\ ticks \in {"none", "running", "ended"}
  /\ trade \in {"none", "subscribing", "looking", "reading", "answering", "ended", "refused", "failed"}
  /\ inbox \in Seq(Messages)
  /\ message \in Messages
  /\ orderID \in 0 .. MaxRequests
  /\ sent \in 0 .. MaxRequests
  /\ answers \in Seq([request : 0 .. MaxRequests, order : 0 .. MaxRequests, code : {0, 1}])

Init ==
  /\ GeneratorInit
  /\ main = "start"
  /\ left = MaxSymbols
  /\ cancelled = FALSE
  /\ process = "up"
  /\ conn = "none"
  /\ ticks = "none"
  /\ trade = "none"
  /\ inbox = <<>> /\ message = Malformed
  /\ orderID = 0 /\ sent = 0 /\ answers = <<>>

Up == process = "up"

-----------------------------------------------------------------------------
(* main. *)

\* nats.Connect under must.Return, then the three errGroup.Go.
Start ==
  /\ Up /\ main = "start"
  /\ \/ /\ conn' = "open"
        /\ main' = "publish"
        /\ candles' = "start"
        /\ ticks' = "running"
        /\ trade' = "subscribing"
        /\ process' = process
     \/ /\ process' = "panicked"
        /\ UNCHANGED <<conn, main, candles, ticks, trade>>
  /\ UNCHANGED <<left, cancelled, clock, now, from, timer, fired, published, behind>>
  /\ UNCHANGED <<inbox, message, orderID, sent, answers>>

\* A goroutine whose publish fails, on a connection that is gone or one that
\* has no room while it is down, ends the process at once.
Panic ==
  /\ conn # "none"
  /\ process' = "panicked"
  /\ UNCHANGED <<main, left, cancelled, conn, ticks, generator, desk>>

\* Mutant: one symbol too many.
PublishSymbolOneMore ==
  /\ Up /\ main = "publish" /\ left >= 0
  /\ conn = "open"
  /\ left' = left - 1
  /\ UNCHANGED <<main, cancelled, process, conn, ticks, generator, desk>>

\* The publish goes out, or main begins to panic.
PublishSymbol ==
  /\ Up /\ main = "publish" /\ left > 0
  /\ \/ conn = "open" /\ left' = left - 1 /\ UNCHANGED main
     \/ main' = "panicking" /\ UNCHANGED left
  /\ UNCHANGED <<cancelled, process, conn, ticks, generator, desk>>

SymbolsPublished ==
  /\ Up /\ main = "publish" /\ left = 0
  /\ main' = "wait"
  /\ UNCHANGED <<left, cancelled, process, conn, ticks, generator, desk>>

\* Mutant: main does not wait for the candles.
SomeEnded == ticks = "ended" /\ trade \in {"ended", "refused", "failed"}

GroupEnded ==
  /\ candles = "ended" /\ ticks = "ended"
  /\ trade \in {"ended", "refused", "failed"}

GroupWait ==
  /\ Up /\ main = "wait"
  /\ GroupEnded
  /\ main' = "closing"
  /\ UNCHANGED <<left, cancelled, process, conn, ticks, generator, desk>>

\* The deferred nc.Close, of a main that returns and of one that panics, and
\* the end of the process.
Close ==
  /\ Up /\ main \in {"closing", "panicking"} /\ conn # "closed"
  /\ conn' = "closed"
  /\ main' = IF main = "closing" THEN "returned" ELSE main
  /\ UNCHANGED <<left, cancelled, process, ticks, generator, desk>>

Exit ==
  /\ Up
  /\ \/ main = "returned" /\ process' = "exited"
     \/ main = "panicking" /\ conn = "closed" /\ process' = "panicked"
  /\ UNCHANGED <<main, left, cancelled, conn, ticks, generator, desk>>

Main == Start \/ PublishSymbol \/ SymbolsPublished \/ GroupWait \/ Close \/ Exit

-----------------------------------------------------------------------------
(* The goroutines. *)

\* The generator goes on without looking at the context, except where it
\* waits for its timer.
CandlesStep ==
  /\ Up
  /\ \/ ReadNow \/ Schedule \/ Fire \/ Receive
     \/ conn = "open" /\ (Initial \/ PublishCandle)
  /\ UNCHANGED <<life, ticks, desk>>

CandlesPanic ==
  /\ Up /\ candles \in {"initial", "publish"}
  /\ Panic

\* PeriodicScheduler leaves its loop if it finds the context done; if the timer
\* is due as well, select takes either.
CandlesEnd ==
  /\ Up /\ candles = "select"
  /\ cancelled
  /\ candles' = "ended"
  /\ UNCHANGED <<life, ticks, clock, now, from, timer, fired, published, behind, desk>>

TicksEnd ==
  /\ Up /\ ticks = "running"
  /\ cancelled
  /\ ticks' = "ended"
  /\ UNCHANGED <<life, generator, desk>>

TicksPanic ==
  /\ Up /\ ticks = "running"
  /\ Panic

\* SubscribeSync may fail; a goroutine that returns an error cancels the
\* context of its group.
Subscribe ==
  /\ Up /\ trade = "subscribing"
  /\ \/ trade' = "refused" /\ cancelled' = TRUE
     \/ conn = "open" /\ trade' = "looking" /\ UNCHANGED cancelled
  /\ UNCHANGED <<main, left, process, conn, ticks, generator, inbox, message, orderID, sent, answers>>

\* Mutant: a loop that does not look.
LookAway ==
  /\ Up /\ trade = "looking"
  /\ trade' = "reading"
  /\ UNCHANGED <<life, ticks, generator, inbox, message, orderID, sent, answers>>

\* LoopUntilCtxDone looks at the context before each turn.
Look ==
  /\ Up /\ trade = "looking"
  /\ trade' = IF cancelled THEN "ended" ELSE "reading"
  /\ UNCHANGED <<life, ticks, generator, inbox, message, orderID, sent, answers>>

\* NextMsg: a message, nothing for ten seconds, or another error: no
\* connection, or messages dropped because too many were pending.
NextMsg ==
  /\ Up /\ trade = "reading"
  /\ conn = "open" /\ inbox # <<>>
  /\ message' = Head(inbox)
  /\ inbox' = Tail(inbox)
  /\ trade' = "answering"
  /\ UNCHANGED <<life, ticks, generator, orderID, sent, answers>>

\* Mutant: a timeout ends the goroutine.
NextMsgTimeoutReturns ==
  /\ Up /\ trade = "reading"
  /\ conn = "open" /\ inbox = <<>>
  /\ trade' = "ended"
  /\ UNCHANGED <<life, ticks, generator, inbox, message, orderID, sent, answers>>

NextMsgTimeout ==
  /\ Up /\ trade = "reading"
  /\ conn = "open" /\ inbox = <<>>
  /\ trade' = "looking"
  /\ UNCHANGED <<life, ticks, generator, inbox, message, orderID, sent, answers>>

NextMsgFails ==
  /\ Up /\ trade = "reading"
  /\ trade' = "failed"
  /\ cancelled' = TRUE
  /\ UNCHANGED <<main, left, process, conn, ticks, generator, inbox, message, orderID, sent, answers>>

\* Mutants: the request is declared outside the loop, so that a malformed
\* message leaves the one before in it; the counter counts rejections only; a
\* message that does not parse is not answered.
AnswerStale ==
  /\ Up /\ trade = "answering" /\ conn = "open"
  /\ LET stale == IF answers = <<>> THEN 0 ELSE Last(answers).request
         id == IF message = Malformed THEN stale ELSE message
     IN  answers' \in {Append(answers, [request |-> id, order |-> orderID + 1, code |-> 0]),
                       Append(answers, [request |-> id, order |-> 0, code |-> 1])}
  /\ orderID' = orderID + 1
  /\ trade' = "looking" /\ message' = Malformed
  /\ UNCHANGED <<life, ticks, generator, inbox, sent>>

AnswerCountsRejections ==
  /\ Up /\ trade = "answering" /\ conn = "open"
  /\ LET id == IF message = Malformed THEN 0 ELSE message
     IN  \/ /\ answers' = Append(answers, [request |-> id, order |-> orderID, code |-> 0])
            /\ orderID' = orderID
         \/ /\ answers' = Append(answers, [request |-> id, order |-> 0, code |-> 1])
            /\ orderID' = orderID + 1
  /\ trade' = "looking" /\ message' = Malformed
  /\ UNCHANGED <<life, ticks, generator, inbox, sent>>

AnswerSkipsMalformed ==
  /\ Up /\ trade = "answering" /\ conn = "open"
  /\ IF message = Malformed
     THEN UNCHANGED <<answers, orderID>>
     ELSE /\ answers' \in {Append(answers, [request |-> message, order |-> orderID + 1, code |-> 0]),
                            Append(answers, [request |-> message, order |-> 0, code |-> 1])}
          /\ orderID' = orderID + 1
  /\ trade' = "looking" /\ message' = Malformed
  /\ UNCHANGED <<life, ticks, generator, inbox, sent>>

\* A message that does not parse is logged and answered all the same, with
\* the zero value of the request unless a request_id was read before the error.
\* Every answer takes a number of the counter, and a toss of a coin decides
\* whether the order gets it.
Answer ==
  /\ Up /\ trade = "answering" /\ conn = "open"
  /\ LET id == IF message = Malformed THEN 0 ELSE message
     IN  answers' \in {Append(answers, [request |-> id, order |-> orderID + 1, code |-> 0]),
                       Append(answers, [request |-> id, order |-> 0, code |-> 1])}
  /\ orderID' = orderID + 1
  /\ trade' = "looking" /\ message' = Malformed
  /\ UNCHANGED <<life, ticks, generator, inbox, sent>>

AnswerPanics ==
  /\ Up /\ trade = "answering"
  /\ Panic

Trade == Subscribe \/ Look \/ NextMsg \/ NextMsgTimeout \/ NextMsgFails \/ Answer \/ AnswerPanics

-----------------------------------------------------------------------------
(* The world. *)

\* Bound: a long time with few messages, or many messages in a short one.
Budgeted == clock + RequestCost * sent <= MaxClock

Pass ==
  /\ Up /\ Tick
  /\ UNCHANGED <<life, ticks, desk>>
  /\ Budgeted'

\* A client sends a request with a number of its own, or something else.  Only
\* a subscription gets it.
Send ==
  /\ Up /\ conn = "open" /\ trade \notin {"none", "subscribing", "refused"}
  /\ sent < MaxRequests
  /\ sent' = sent + 1
  /\ inbox' \in {Append(inbox, sent'), Append(inbox, Malformed)}
  /\ UNCHANGED <<life, ticks, generator, trade, message, orderID, answers>>
  /\ Budgeted'

\* An interrupt or a SIGTERM.
Signal ==
  /\ Up
  /\ cancelled' = TRUE
  /\ UNCHANGED <<main, left, process, conn, ticks, generator, desk>>

\* The library gives the connection up.
LoseConnection ==
  /\ Up /\ conn = "open"
  /\ conn' = "lost"
  /\ UNCHANGED <<main, left, cancelled, process, ticks, generator, desk>>

Next ==
  \/ Main \/ CandlesStep \/ CandlesPanic \/ CandlesEnd \/ TicksEnd \/ TicksPanic \/ Trade
  \/ Send \/ Signal \/ LoseConnection
  \/ Pass

\* The Go scheduler runs every goroutine that can go on, NextMsg and the timers
\* come back within their time, and a select that again and again finds the
\* context done takes that branch some time: it picks at random.
Fairness ==
  /\ WF_vars(Main) /\ WF_vars(Trade)
  /\ WF_vars(CandlesStep \/ CandlesPanic) /\ SF_vars(CandlesEnd)
  /\ WF_vars(TicksEnd)

Spec == Init /\ [][Next]_vars /\ Fairness

-----------------------------------------------------------------------------
(* Properties. *)

\* Unless main itself panics, the connection is closed under no goroutine that
\* could still publish on it, and with no request that was read left without
\* its answer (main.go:157, 274).
ClosedInOrder ==
  conn = "closed" =>
    \/ main = "panicking"
    \/ /\ candles = "ended" /\ ticks = "ended" /\ trade \in {"ended", "refused", "failed"}
       /\ sent = Len(answers) + Len(inbox)

\* Two accepted orders never share a number, whatever was rejected or did not
\* parse in between (main.go:194, 210).
OrderIDsAreUnique ==
  \A j, k \in DOMAIN answers :
    answers[j].code = 0 /\ answers[j].order = answers[k].order => j = k

\* No request is answered twice: a message that does not parse is not taken
\* for the request before it (main.go:205).
AnsweredOnce ==
  \A j, k \in DOMAIN answers :
    answers[j].request # 0 /\ answers[j].request = answers[k].request => j = k

\* The trade goroutine implements the desk: one answer for each message, in
\* order, with growing numbers.
Desk == INSTANCE TradeDesk WITH
  asked <- (IF trade = "answering" THEN <<message>> ELSE <<>>) \o inbox

AnswersLikeADesk == Desk!Spec

\* Every request that reaches the subscription is answered, unless the process
\* is on its way out or the connection is gone.
RequestsAnswered ==
  \A r \in RequestIDs :
    (\E k \in DOMAIN inbox : inbox[k] = r)
      ~> (\/ \E k \in DOMAIN answers : answers[k].request = r
          \/ cancelled \/ conn # "open" \/ ~Up)

\* A signal, or an error of the trade goroutine, ends the process: no
\* goroutine is left waiting, main included.
ShutdownEnds == cancelled ~> ~Up

=============================================================================
