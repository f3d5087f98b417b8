------------------------------ MODULE TradeReader ------------------------------
(***************************************************************************)
(* What goes over the connection of the plugin, from its opening in the    *)
(* constructor to its deleter: ticks out, on the threads of the server,    *)
(* and trade requests in.  A client publishes a request, the library puts  *)
(* it into the pending list of the subscription, the reader task of the    *)
(* pool takes it out with NextMsg, unmarshals it and hands it to           *)
(* on_trade_request.                                                       *)
(*                                                                         *)
(* The library (deliveries, its limits, the end of the connection) is      *)
(* known from the calls of nats.h only.  Of the pool there is only what    *)
(* happens to the reader; the pool is in Plugin.                           *)
(***************************************************************************)
EXTENDS NatsLink

CONSTANTS
  MaxRequests,    \* bound on the requests clients send
  MaxTicks,       \* bound on the ticks of the server
  PendingLimit,   \* 1024 messages in the code
  NoMessage

ASSUME ReaderAssumption ==
  /\ MaxRequests \in Nat /\ MaxTicks \in Nat
  /\ PendingLimit \in Nat \ {0}

VARIABLES
  stage,     \* how far the plugin has come
  reader,    \* where the reader task is
  status,    \* what NextMsg came back with
  message,   \* the message that came with it
  pending,   \* the pending list of the subscription
  slow,      \* the library has dropped a message and not said so yet
  sent,      \* requests clients have sent
  lost,      \* those the library dropped, or had at the end of the subscription
  handled,   \* the requests on_trade_request was called with, in order
  ticks,     \* ticks the server has called the hook with
  logged     \* the failures in the log of the server

library == <<pending, slow, sent, lost>>
task    == <<reader, status, message>>
effects == <<handled, logged>>
vars    == <<link, stage, library, task, effects, ticks>>

Ids == 1 .. MaxRequests

\* What a request says of its side: one of the two names, anything else, or
\* nothing that can be read, because the text is no JSON or a field is missing
\* or of another type.
Forms    == {"buy", "sell", "other", "unreadable"}
Messages == [id : Ids, form : Forms]

ASSUME MessageAssumption == NoMessage \notin Messages

\* The ticks of the server, one after the other.
FeedTick(n) == [ctm |-> n, bid |-> n, ask |-> n + 1]

ToJson(tick) == [timestamp |-> tick.ctm, bid |-> tick.bid, ask |-> tick.ask]

Ticks == {ToJson(FeedTick(n)) : n \in 1 .. MaxTicks}

Failures ==
  {<<"connect", 0>>, <<"subscribe", 0>>, <<"read", 0>>}
    \cup {<<"request", id>> : id \in Ids} \cup {<<"tick", n>> : n \in 1 .. MaxTicks}

TypeOK ==
  /\ conn \in {"none", "up", "down", "closed", "gone"}
  /\ out \in Seq(Ticks) /\ Len(out) <= Buffer
  /\ heard \in Seq(Ticks) /\ dropped \subseteq Ticks /\ cut \in BOOLEAN
  /\ stage \in {"connecting", "subscribing", "live", "cleaning", "draining", "flushed", "unloaded"}
  /\ reader \in {"none", "queued", "calling", "back"}
  /\ status \in {"none", "ok", "timeout", "closed", "error"}
  /\ message \in Messages \cup {NoMessage}
  /\ pending \in Seq(Messages) /\ Len(pending) <= PendingLimit
  /\ slow \in BOOLEAN
  /\ sent \in 0 .. MaxRequests
  /\ lost \subseteq Ids
  /\ handled \in Seq([id : Ids, side : {"BUY", "SELL"}])
  /\ ticks \in 0 .. MaxTicks
  /\ logged \subseteq Failures

Init ==
  /\ NoLink
  /\ stage = "connecting"
  /\ reader = "none"
  /\ status = "none" /\ message = NoMessage
  /\ pending = <<>> /\ slow = FALSE
  /\ sent = 0 /\ lost = {}
  /\ handled = <<>>
  /\ ticks = 0
  /\ logged = {}

LogError(failure) == logged' = logged \cup {failure}

-----------------------------------------------------------------------------
(* The library. *)

PendingIds == {m.id : m \in ToSet(pending)}

\* A client publishes: without a subscription, or while the connection is not
\* up, nobody gets the message.  At its limit the subscription drops it.
Publish ==
  /\ sent < MaxRequests
  /\ sent' = sent + 1
  /\ \E f \in Forms :
       IF reader = "none" \/ conn # "up"
       THEN lost' = lost \cup {sent'} /\ UNCHANGED <<pending, slow>>
       ELSE IF Len(pending) < PendingLimit
       THEN /\ pending' = Append(pending, [id |-> sent', form |-> f])
            /\ UNCHANGED <<slow, lost>>
       ELSE /\ lost' = lost \cup {sent'}
            /\ slow' = TRUE
            /\ UNCHANGED pending
  /\ UNCHANGED <<link, stage, task, effects, ticks>>

\* What is pending when the subscription ends is not given out any more.
SubscriptionEnds ==
  /\ lost' = lost \cup PendingIds
  /\ pending' = <<>>
  /\ UNCHANGED <<slow, sent>>

ConnectionCloses ==
  /\ GiveUp
  /\ SubscriptionEnds
  /\ UNCHANGED <<stage, task, effects, ticks>>

Network ==
  /\ Hear \/ Break \/ Mend
  /\ UNCHANGED <<stage, library, task, effects, ticks>>

NextMsgReturns(s, m) ==
  /\ reader = "calling"
  /\ reader' = "back"
  /\ status' = s
  /\ message' = m
  /\ UNCHANGED <<link, stage, sent, lost, effects, ticks>>

NextMsg ==
  \/ /\ Alive /\ ~slow /\ pending # <<>>
     /\ pending' = Tail(pending)
     /\ NextMsgReturns("ok", Head(pending))
     /\ UNCHANGED slow
  \/ /\ Alive /\ ~slow /\ pending = <<>>
     /\ NextMsgReturns("timeout", NoMessage)
     /\ UNCHANGED <<pending, slow>>
  \/ /\ Alive /\ slow
     /\ slow' = FALSE
     /\ NextMsgReturns("error", NoMessage)
     /\ UNCHANGED pending
  \/ /\ conn = "closed"
     /\ NextMsgReturns("closed", NoMessage)
     /\ UNCHANGED <<pending, slow>>

-----------------------------------------------------------------------------
(* The beginning, the ticks and the end. *)

\* The constructor logs what fails and returns.
Connect ==
  /\ stage = "connecting"
  /\ \/ /\ ConnectTo
        /\ stage' = "subscribing"
        /\ UNCHANGED logged
     \/ /\ stage' = "live"
        /\ LogError(<<"connect", 0>>)
        /\ UNCHANGED link
  /\ UNCHANGED <<library, task, handled, ticks>>

\* subscribe_sync and detach_task, at high priority.
Subscribe ==
  /\ stage = "subscribing"
  /\ stage' = "live"
  /\ \/ Alive /\ reader' = "queued" /\ UNCHANGED logged
     \/ LogError(<<"subscribe", 0>>) /\ UNCHANGED reader
  /\ UNCHANGED <<link, library, status, message, handled, ticks>>

\* Mutant: the result of publish is not looked at.
HandleTickUnchecked ==
  /\ stage = "live" /\ ticks < MaxTicks
  /\ ticks' = ticks + 1
  /\ PublishString(ToJson(FeedTick(ticks'))) \/ (PublishRefused /\ UNCHANGED link)
  /\ UNCHANGED <<stage, library, task, effects>>

\* The hook MtSrvHistoryTickApply with plugin::handle(const FeedTick*), on a
\* thread of the server: there is no task between the tick and its publish.
HandleTick ==
  /\ stage = "live" /\ ticks < MaxTicks
  /\ ticks' = ticks + 1
  /\ \/ PublishString(ToJson(FeedTick(ticks'))) /\ UNCHANGED logged
     \/ PublishRefused /\ LogError(<<"tick", ticks'>>) /\ UNCHANGED link
  /\ UNCHANGED <<stage, library, task, handled>>

\* mt4plugin is cleared and the pool paused.
MtSrvCleanup ==
  /\ stage = "live"
  /\ stage' = "cleaning"
  /\ UNCHANGED <<link, library, task, effects, ticks>>

\* A reader no thread has taken is destroyed with the queue of the pool, and
\* the subscription with it.  For one that runs the pool waits for ever.
DeletePool ==
  /\ stage = "cleaning" /\ reader \in {"none", "queued"}
  /\ stage' = "draining"
  /\ reader' = "none"
  /\ SubscriptionEnds
  /\ UNCHANGED <<link, status, message, effects, ticks>>

\* The deleter of the connection, which is not called for a null one.
CloseConnection ==
  /\ \/ stage = "draining" /\ Flush /\ stage' = "flushed"
     \/ stage = "flushed" /\ Destroy /\ stage' = "unloaded"
     \/ stage = "draining" /\ conn = "none" /\ stage' = "unloaded" /\ UNCHANGED link
  /\ UNCHANGED <<library, task, effects, ticks>>

-----------------------------------------------------------------------------
(* The reader task. *)

\* A thread of the pool takes the task, unless the pool is paused.
Start ==
  /\ reader = "queued" /\ stage = "live"
  /\ reader' = "calling"
  /\ UNCHANGED <<link, stage, library, status, message, effects, ticks>>

\* The reader calls NextMsg again, whatever it came back with.
Again ==
  /\ reader' = "calling"
  /\ status' = "none"
  /\ message' = NoMessage
  /\ UNCHANGED <<link, stage, library, ticks>>

Back(s) == reader = "back" /\ status = s

\* Mutant: the side is passed on as it was written.
SideAsWritten(form) == form

\* The names of order_side in marshaling.cpp:58; a value that is no name is
\* read as the first of them.
Side(form) == IF form = "sell" THEN "SELL" ELSE "BUY"

Readable(m) == m.form # "unreadable"

\* Mutant: a message that cannot be read is let go in silence.
RefuseInSilence ==
  /\ Back("ok") /\ ~Readable(message)
  /\ Again
  /\ UNCHANGED effects

\* on_trade_request logs the number of the request; no response is published.
OnTradeRequest ==
  /\ Back("ok") /\ Readable(message)
  /\ handled' = Append(handled, [id |-> message.id, side |-> Side(message.form)])
  /\ Again
  /\ UNCHANGED logged

Refuse ==
  /\ Back("ok") /\ ~Readable(message)
  /\ LogError(<<"request", message.id>>)
  /\ Again
  /\ UNCHANGED handled

\* Mutants: an error that holds a text is taken for a request, the one before;
\* a timeout ends the task.
NothingToReadHandlesLast ==
  /\ Back("timeout") \/ Back("closed")
  /\ handled' = IF handled = <<>> THEN handled ELSE Append(handled, Last(handled))
  /\ Again
  /\ UNCHANGED logged

NothingToReadReturns ==
  /\ Back("timeout") \/ Back("closed")
  /\ status' = "none"
  /\ UNCHANGED <<link, stage, library, reader, message, effects, ticks>>

\* Neither a timeout nor a closed connection is an error to the reader: their
\* error is an expected that holds a text (nats.h:101-104).
NothingToRead ==
  /\ Back("timeout") \/ Back("closed")
  /\ Again
  /\ UNCHANGED effects

\* Other errors are logged, and the loop goes on.
ReadFails ==
  /\ Back("error")
  /\ LogError(<<"read", 0>>)
  /\ Again
  /\ UNCHANGED handled

Reader == Start \/ OnTradeRequest \/ Refuse \/ NothingToRead \/ ReadFails

Next ==
  \/ Publish \/ ConnectionCloses \/ Network \/ NextMsg
  \/ Connect \/ Subscribe \/ HandleTick
  \/ MtSrvCleanup \/ DeletePool \/ CloseConnection
  \/ Reader

\* The pool has a thread for the first task it gets, NextMsg comes back within
\* two seconds, and the destructor of a pool with nothing running ends.
Fairness == WF_vars(NextMsg) /\ WF_vars(Reader) /\ WF_vars(DeletePool)

Spec == Init /\ [][Next]_vars /\ Fairness

-----------------------------------------------------------------------------
(* Properties. *)

InHand     == IF message = NoMessage THEN {} ELSE {message.id}
HandledIds == {h.id : h \in ToSet(handled)}
Refused    == {id \in Ids : <<"request", id>> \in logged}

\* p is a set of pairs of a name and a set: x is in exactly one of them.
InExactlyOne(x, p) ==
  LET found == {place \in p : x \in place[2]} IN \E place \in found : found = {place}

\* Requests are handled in the order they were sent and none of them twice,
\* whatever is dropped, refused, or fails in between (plugin.cpp:173-187).
HandledInOrder ==
  \A j, k \in DOMAIN handled : j < k => handled[j].id < handled[k].id

\* Every request is in exactly one place: none disappears but those the
\* library lost, and the failure to read one is logged.
EachInOnePlace ==
  \A id \in 1 .. sent :
    InExactlyOne(id, {<<"pending", PendingIds>>, <<"hand", InHand>>, <<"handled", HandledIds>>,
                      <<"refused", Refused>>, <<"lost", lost>>})

\* Every tick the server gave is on its way as the server gave it, was heard,
\* is in the log as a failure, or went down with the connection: also when
\* the plugin never had a connection, when it is lost or mended in between,
\* and at the end (plugin.cpp:201).
TicksAccounted ==
  \A n \in 1 .. ticks :
    LET tick == [timestamp |-> n, bid |-> n, ask |-> n + 1]
    IN  \/ InExactlyOne(tick, {<<"out", ToSet(out)>>, <<"heard", ToSet(heard)>>,
                               <<"dropped", dropped>>}) /\ <<"tick", n>> \notin logged
        \/ <<"tick", n>> \in logged /\ tick \notin ToSet(out \o heard) \cup dropped

\* A connection that was never down loses no tick, not even one published
\* just before MtSrvCleanup, unless NATS does not take the rest within the
\* second that the deleter waits (nats.h:20-22).
OnlyACutDrops == dropped # {} => cut

\* Once requests are pending they are handled or refused, or the connection or
\* the subscription is gone: neither a timeout, nor a message dropped at the
\* limit, nor one that cannot be read, nor a pool that is being taken apart
\* around the reader, stops it.
PendingAreRead ==
  \A id \in Ids :
    id \in PendingIds ~> (id \in HandledIds \cup Refused \/ conn = "closed" \/ reader = "none")

\* The reader implements the log: a request is settled once, in order, and
\* none waits for ever.
Log == INSTANCE RequestLog WITH
  waiting <- PendingIds \cup InHand,
  handled <- [k \in DOMAIN handled |-> handled[k].id],
  refused <- Refused

SettlesRequests == Log!Spec

=============================================================================
