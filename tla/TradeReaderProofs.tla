--------------------------- MODULE TradeReaderProofs ---------------------------
(***************************************************************************)
(* Proofs about the connection: no tick is lost in silence, and trade      *)
(* requests are settled in order, each in one place.                       *)
(*                                                                         *)
(* The invariant has a part for the ticks, whose sequences hold each tick  *)
(* once, and a part for the requests: a request moves from the pending     *)
(* list into the hand of the reader and from there to those handled or     *)
(* refused, and whatever is further on has the smaller number.             *)
(***************************************************************************)
EXTENDS TradeReader, Lemmas

\* The subscription comes after the connection, and only a reader that is back
\* with a message has one.
ReaderInv ==
  /\ stage \in {"connecting", "subscribing"} => reader = "none"
  /\ message # NoMessage <=> reader = "back" /\ status = "ok"

\* The numbers grow along the sequence.
Ascending(s) == \A j, k \in DOMAIN s : j < k => s[j].id < s[k].id

Waiting == PendingIds \cup InHand
Settled == HandledIds \cup Refused

\* What is further on was sent before.
OrderInv ==
  /\ Ascending(pending) /\ Ascending(handled)
  /\ \A id \in InHand, other \in PendingIds : id < other
  /\ \A id \in Settled, other \in Waiting : id < other

\* Those places and what was lost share the requests that were sent.
PlacesInv ==
  /\ Waiting \cup Settled \cup lost = 1 .. sent
  /\ HandledIds \cap Refused = {}
  /\ lost \cap (Waiting \cup Settled) = {}

TickOf(n) == ToJson(FeedTick(n))
Taken     == ToSet(out) \cup ToSet(heard) \cup dropped

\* A tick the connection took is in one place, once; the others are logged.
TicksInv ==
  /\ IsInjective(out)
  /\ ToSet(out) \cap ToSet(heard) = {}
  /\ ToSet(out) \cap dropped = {} /\ ToSet(heard) \cap dropped = {}
  /\ \A n \in 1 .. MaxTicks :
       /\ TickOf(n) \in Taken <=> n <= ticks /\ <<"tick", n>> \notin logged
       /\ <<"tick", n>> \in logged => n <= ticks

\* After the flush an uncut connection has nothing left in its buffer.
CutInv ==
  dropped # {} \/ conn = "down" \/ (stage = "flushed" /\ out # <<>>) => cut

IInv == TypeOK /\ ReaderInv /\ OrderInv /\ PlacesInv /\ TicksInv /\ CutInv

-----------------------------------------------------------------------------
(* Sequences whose numbers grow. *)

LEMMA AscendingAppend ==
  ASSUME NEW S, NEW s \in Seq(S), NEW x \in S, Ascending(s),
         \A m \in ToSet(s) : m.id < x.id
  PROVE  Ascending(Append(s, x))
<1>1. /\ Append(s, x) \in Seq(S) /\ Len(Append(s, x)) = Len(s) + 1 /\ Len(s) \in Nat
      /\ \A k \in 1 .. Len(s) : Append(s, x)[k] = s[k]
      /\ Append(s, x)[Len(s) + 1] = x
  BY AppendProperties, LenProperties
<1> DEFINE a == Append(s, x)
<1>2. DOMAIN a = 1 .. Len(s) + 1 /\ DOMAIN s = 1 .. Len(s)
  BY <1>1, LenProperties
<1> SUFFICES ASSUME NEW j \in DOMAIN a, NEW k \in DOMAIN a, j < k
             PROVE  a[j].id < a[k].id
  BY DEF Ascending
<1>3. j \in 1 .. Len(s) /\ a[j] = s[j]
  BY <1>1, <1>2
<1>4. CASE k \in 1 .. Len(s)
  <2>1. a[k] = s[k]
    BY <1>1, <1>4
  <2> HIDE DEF a
  <2> QED BY <1>2, <1>3, <1>4, <2>1 DEF Ascending
<1>5. CASE k = Len(s) + 1
  <2>1. a[k] = x
    BY <1>1, <1>5
  <2>2. s[j] \in ToSet(s)
    BY <1>2, <1>3 DEF ToSet
  <2> HIDE DEF a
  <2> QED BY <1>3, <2>1, <2>2
<1> QED BY <1>1, <1>2, <1>4, <1>5

LEMMA AscendingTail ==
  ASSUME NEW S, NEW s \in Seq(S), s # <<>>, Ascending(s)
  PROVE  Ascending(Tail(s)) /\ \A m \in ToSet(Tail(s)) : Head(s).id < m.id
<1> DEFINE t == Tail(s)
<1>1. /\ t \in Seq(S) /\ Len(t) = Len(s) - 1 /\ Len(s) \in Nat /\ Len(s) >= 1
      /\ \A k \in 1 .. Len(t) : t[k] = s[k + 1]
      /\ Head(s) = s[1]
  BY HeadTailProperties, EmptySeq
<1> HIDE DEF t
<1>2. DOMAIN t = 1 .. Len(s) - 1 /\ DOMAIN s = 1 .. Len(s)
  BY <1>1, LenProperties
<1>3. \A k \in DOMAIN t : k \in Int /\ k + 1 > 1 /\ k + 1 \in DOMAIN s /\ t[k] = s[k + 1]
  BY <1>1, <1>2
<1>4. Ascending(t)
  <2> SUFFICES ASSUME NEW j \in DOMAIN t, NEW k \in DOMAIN t, j < k
               PROVE  t[j].id < t[k].id
    BY DEF Ascending
  <2>1. j + 1 < k + 1
    BY <1>3
  <2> QED BY <1>3, <2>1 DEF Ascending
<1>5. ASSUME NEW m \in ToSet(t) PROVE Head(s).id < m.id
  <2>1. PICK k \in DOMAIN t : t[k] = m
    BY DEF ToSet
  <2>2. 1 \in DOMAIN s
    BY <1>1, <1>2
  <2> QED BY <1>1, <1>3, <2>1, <2>2 DEF Ascending
<1> QED BY <1>4, <1>5 DEF t

LEMMA AscendingEmpty == Ascending(<<>>)
BY DEF Ascending

-----------------------------------------------------------------------------
(* The types. *)

LEMMA FailuresDiffer ==
  /\ \A id, n : <<"request", id>> # <<"tick", n>>
  /\ \A id : <<"request", id>> # <<"connect", 0>> /\ <<"request", id>> # <<"subscribe", 0>>
              /\ <<"request", id>> # <<"read", 0>>
  /\ \A n : <<"tick", n>> # <<"connect", 0>> /\ <<"tick", n>> # <<"subscribe", 0>>
             /\ <<"tick", n>> # <<"read", 0>>
  /\ \A id, n : (<<"request", id>> = <<"request", n>> <=> id = n)
                 /\ (<<"tick", id>> = <<"tick", n>> <=> id = n)
OBVIOUS

\* A tick is one of those of the server, and no two are alike.
LEMMA TicksDiffer ==
  /\ \A n \in 1 .. MaxTicks : TickOf(n) \in Ticks
  /\ \A j, k \in Int : TickOf(j) = TickOf(k) <=> j = k
BY DEF TickOf, Ticks, ToJson, FeedTick

LEMMA ConstantsAreNumbers ==
  /\ Buffer \in Nat /\ Buffer >= 1 /\ PendingLimit \in Nat /\ PendingLimit >= 1
  /\ MaxRequests \in Nat /\ MaxTicks \in Nat
BY LinkAssumption, ReaderAssumption

LinkTyped == /\ conn \in {"none", "up", "down", "closed", "gone"}
             /\ out \in Seq(Ticks) /\ Len(out) <= Buffer
             /\ heard \in Seq(Ticks) /\ dropped \subseteq Ticks /\ cut \in BOOLEAN

\* The steps of the library keep the types of the link.
LEMMA LinkSteps ==
  ASSUME LinkTyped,
         \/ Hear \/ Break \/ Mend \/ GiveUp \/ ConnectTo \/ Flush \/ Destroy \/ UNCHANGED link
         \/ \E n \in 1 .. MaxTicks : PublishString(TickOf(n))
  PROVE  LinkTyped'
<1> USE DEF LinkTyped
<1>0. Len(out) \in Nat /\ ToSet(out) \subseteq Ticks
  BY LenProperties, ElementOfSeq DEF ToSet
<1>1. CASE Hear
  <2>1. Head(out) \in Ticks /\ Tail(out) \in Seq(Ticks) /\ Len(Tail(out)) = Len(out) - 1
    BY <1>1, HeadTailProperties DEF Hear
  <2> QED BY <1>0, <1>1, <2>1, ConstantsAreNumbers DEF Hear
<1>2. CASE Break
  <2>1. PICK k \in 0 .. Len(out) : /\ dropped' = dropped \cup ToSet(SubSeq(out, 1, k))
                                   /\ out' = SubSeq(out, k + 1, Len(out))
    BY <1>2 DEF Break
  <2>2. /\ SubSeq(out, k + 1, Len(out)) \in Seq(Ticks)
        /\ Len(SubSeq(out, k + 1, Len(out))) = Len(out) - k
        /\ ToSet(SubSeq(out, 1, k)) \subseteq ToSet(out)
    BY SetOfCut
  <2>3. out' \in Seq(Ticks) /\ Len(out') <= Buffer /\ dropped' \subseteq Ticks
    BY <1>0, <2>1, <2>2, ConstantsAreNumbers
  <2> QED BY <1>2, <2>3 DEF Break
<1>3. CASE Mend \/ ConnectTo \/ UNCHANGED link
  BY <1>3 DEF Mend, ConnectTo, link, outgoing
<1>6. CASE Flush
  <2>1. cut' \in BOOLEAN
    BY <1>6 DEF Flush
  <2> QED BY <1>6, <2>1 DEF Flush
<1>4. CASE GiveUp \/ Destroy
  <2>1. <<>> \in Seq(Ticks) /\ Len(<<>>) = 0
    BY EmptySeq
  <2>2. conn' \in {"closed", "gone"} /\ out' = <<>> /\ heard' = heard /\ cut' = cut
        /\ dropped' = dropped \cup ToSet(out)
    BY <1>4 DEF GiveUp, Destroy, End
  <2>3. out' \in Seq(Ticks) /\ Len(out') <= Buffer
    BY <2>1, <2>2, ConstantsAreNumbers
  <2> QED BY <1>0, <2>2, <2>3
<1>5. CASE \E n \in 1 .. MaxTicks : PublishString(TickOf(n))
  <2>1. PICK n \in 1 .. MaxTicks : PublishString(TickOf(n))
    BY <1>5
  <2>2. TickOf(n) \in Ticks
    BY TicksDiffer
  <2>3. Append(out, TickOf(n)) \in Seq(Ticks) /\ Len(Append(out, TickOf(n))) = Len(out) + 1
    BY <2>2, AppendProperties
  <2> QED BY <1>0, <2>1, <2>3, ConstantsAreNumbers DEF PublishString
<1> QED BY <1>1, <1>2, <1>3, <1>4, <1>5, <1>6

RequestsTyped ==
  /\ message \in Messages \cup {NoMessage}
  /\ pending \in Seq(Messages) /\ Len(pending) <= PendingLimit
  /\ sent \in 0 .. MaxRequests
  /\ lost \subseteq Ids
  /\ handled \in Seq([id : Ids, side : {"BUY", "SELL"}])

LEMMA PendingIdsTyped ==
  ASSUME TypeOK
  PROVE  /\ PendingIds \subseteq Ids
         /\ \A j \in DOMAIN pending : pending[j].id \in PendingIds
         /\ Len(pending) \in Nat
<1>1. \A j \in DOMAIN pending : pending[j] \in Messages
  BY LenProperties, ElementOfSeq DEF TypeOK
<1> QED BY <1>1, LenProperties DEF PendingIds, ToSet, Messages, TypeOK

LEMMA TypeStep == TypeOK /\ ReaderInv /\ [Next]_vars => TypeOK'
<1> SUFFICES ASSUME TypeOK, ReaderInv, [Next]_vars PROVE TypeOK'
  OBVIOUS
<1> DEFINE Rest == /\ stage \in {"connecting", "subscribing", "live", "cleaning", "draining", "flushed", "unloaded"}
                   /\ reader \in {"none", "queued", "calling", "back"}
                   /\ status \in {"none", "ok", "timeout", "closed", "error"}
                   /\ slow \in BOOLEAN
                   /\ ticks \in 0 .. MaxTicks
                   /\ logged \subseteq Failures
<1>0. LinkTyped /\ RequestsTyped /\ Rest
  BY DEF TypeOK, LinkTyped, RequestsTyped
<1>1. SUFFICES LinkTyped' /\ RequestsTyped' /\ Rest'
  BY DEF TypeOK, LinkTyped, RequestsTyped
<1> USE ConstantsAreNumbers
<1>2. ASSUME UNCHANGED link PROVE LinkTyped'
  BY <1>0, <1>2, LinkSteps
<1>3. CASE Publish
  <2>1. sent' \in Ids /\ sent' \in 0 .. MaxRequests
    BY <1>0, <1>3 DEF Publish, RequestsTyped, Ids
  <2>2. LinkTyped'
    BY <1>2, <1>3 DEF Publish
  <2>3. Rest'
    BY <1>0, <1>3 DEF Publish, task, effects
  <2>4. PICK f \in Forms :
          \/ lost' = lost \cup {sent'} /\ UNCHANGED pending
          \/ Len(pending) < PendingLimit /\ pending' = Append(pending, [id |-> sent', form |-> f]) /\ UNCHANGED lost
    BY <1>3 DEF Publish
  <2>5. [id |-> sent', form |-> f] \in Messages
    BY <2>1 DEF Messages
  <2>6. Append(pending, [id |-> sent', form |-> f]) \in Seq(Messages)
        /\ Len(Append(pending, [id |-> sent', form |-> f])) = Len(pending) + 1
        /\ Len(pending) \in Nat
    BY <1>0, <2>5, AppendProperties, LenProperties DEF RequestsTyped
  <2>7. lost' \subseteq Ids
    BY <1>0, <2>1, <2>4 DEF RequestsTyped
  <2>8. pending' \in Seq(Messages) /\ Len(pending') <= PendingLimit
    <3>1. CASE pending' = pending
      BY <1>0, <3>1 DEF RequestsTyped
    <3>2. CASE Len(pending) < PendingLimit /\ pending' = Append(pending, [id |-> sent', form |-> f])
      <4>1. pending' \in Seq(Messages) /\ Len(pending') = Len(pending) + 1
        BY <2>6, <3>2
      <4> QED BY <2>6, <3>2, <4>1
    <3> QED BY <2>4, <3>1, <3>2
  <2> QED BY <1>0, <1>3, <2>1, <2>2, <2>3, <2>7, <2>8 DEF RequestsTyped, Publish, task, effects
<1>4. ASSUME SubscriptionEnds PROVE lost' \subseteq Ids /\ pending' \in Seq(Messages) /\ Len(pending') <= PendingLimit
  <2>1. <<>> \in Seq(Messages) /\ Len(<<>>) = 0
    BY EmptySeq
  <2> QED BY <1>0, <1>4, <2>1, PendingIdsTyped DEF SubscriptionEnds, RequestsTyped
<1>5. CASE ConnectionCloses
  <2>1. LinkTyped'
    BY <1>0, <1>5, LinkSteps DEF ConnectionCloses
  <2> QED BY <1>0, <1>4, <1>5, <2>1 DEF ConnectionCloses, SubscriptionEnds, RequestsTyped, task, effects
<1>6. CASE Network
  <2>1. LinkTyped'
    BY <1>0, <1>6, LinkSteps DEF Network
  <2> QED BY <1>0, <1>6, <2>1 DEF Network, RequestsTyped, library, task, effects
<1>7. CASE NextMsg
  <2>1. LinkTyped'
    BY <1>2, <1>7 DEF NextMsg, NextMsgReturns
  <2>2. pending # <<>> => /\ Head(pending) \in Messages /\ Tail(pending) \in Seq(Messages)
                          /\ Len(Tail(pending)) = Len(pending) - 1 /\ Len(pending) \in Nat
    BY <1>0, HeadTailProperties, LenProperties DEF RequestsTyped
  <2>3. \/ pending # <<>> /\ pending' = Tail(pending) /\ message' = Head(pending)
        \/ pending' = pending /\ message' = NoMessage
    BY <1>7 DEF NextMsg, NextMsgReturns
  <2>4. pending' \in Seq(Messages) /\ Len(pending') <= PendingLimit /\ message' \in Messages \cup {NoMessage}
    <3>1. CASE pending # <<>> /\ pending' = Tail(pending) /\ message' = Head(pending)
      <4>1. pending' \in Seq(Messages) /\ Len(pending') = Len(pending) - 1 /\ message' \in Messages
        BY <2>2, <3>1
      <4> QED BY <1>0, <2>2, <3>1, <4>1 DEF RequestsTyped
    <3>2. CASE pending' = pending /\ message' = NoMessage
      BY <1>0, <3>2 DEF RequestsTyped
    <3> QED BY <2>3, <3>1, <3>2
  <2>5. Rest'
    BY <1>0, <1>7 DEF NextMsg, NextMsgReturns, effects
  <2> QED BY <1>0, <1>7, <2>1, <2>4, <2>5 DEF NextMsg, NextMsgReturns, effects, RequestsTyped
<1>8. CASE Connect
  <2>1. LinkTyped'
    BY <1>0, <1>8, LinkSteps DEF Connect
  <2> QED BY <1>0, <1>8, <2>1 DEF Connect, LogError, Failures, RequestsTyped, library, task
<1>9. CASE Subscribe
  <2>1. LinkTyped'
    BY <1>2, <1>9 DEF Subscribe
  <2> QED BY <1>0, <1>9, <2>1 DEF Subscribe, LogError, Failures, RequestsTyped, library
<1>10. CASE HandleTick
  <2>1. ticks' = ticks + 1 /\ ticks' \in 1 .. MaxTicks
    BY <1>0, <1>10 DEF HandleTick
  <2>2. (\E n \in 1 .. MaxTicks : PublishString(TickOf(n))) \/ UNCHANGED link
    BY <1>10, <2>1 DEF HandleTick, TickOf
  <2>3. LinkTyped'
    BY <1>0, <2>2, LinkSteps
  <2>4. logged' \subseteq Failures
    BY <1>0, <1>10, <2>1 DEF HandleTick, LogError, Failures
  <2> QED BY <1>0, <1>10, <2>1, <2>3, <2>4 DEF HandleTick, RequestsTyped, library, task
<1>11. CASE MtSrvCleanup
  <2>1. LinkTyped'
    BY <1>2, <1>11 DEF MtSrvCleanup
  <2> QED BY <1>0, <1>11, <2>1 DEF MtSrvCleanup, RequestsTyped, library, task, effects
<1>12. CASE DeletePool
  <2>1. LinkTyped'
    BY <1>2, <1>12 DEF DeletePool
  <2> QED BY <1>0, <1>4, <1>12, <2>1 DEF DeletePool, SubscriptionEnds, RequestsTyped, effects
<1>13. CASE CloseConnection
  <2>1. LinkTyped'
    BY <1>0, <1>13, LinkSteps DEF CloseConnection
  <2> QED BY <1>0, <1>13, <2>1 DEF CloseConnection, RequestsTyped, library, task, effects
<1>14. CASE Start
  <2>1. LinkTyped'
    BY <1>2, <1>14 DEF Start
  <2> QED BY <1>0, <1>14, <2>1 DEF Start, RequestsTyped, library, effects
<1>15. CASE OnTradeRequest
  <2>1. LinkTyped'
    BY <1>2, <1>15 DEF OnTradeRequest, Again
  <2>2. message \in Messages
    BY <1>0, <1>15 DEF OnTradeRequest, Back, ReaderInv, RequestsTyped
  <2>3. [id |-> message.id, side |-> Side(message.form)] \in [id : Ids, side : {"BUY", "SELL"}]
    BY <2>2 DEF Messages, Side
  <2>4. handled' \in Seq([id : Ids, side : {"BUY", "SELL"}])
    BY <1>0, <1>15, <2>3, AppendProperties DEF OnTradeRequest, RequestsTyped
  <2> QED BY <1>0, <1>15, <2>1, <2>4 DEF OnTradeRequest, Again, RequestsTyped, library
<1>16. CASE Refuse
  <2>1. LinkTyped'
    BY <1>2, <1>16 DEF Refuse, Again
  <2>2. message \in Messages
    BY <1>0, <1>16 DEF Refuse, Back, ReaderInv, RequestsTyped
  <2>3. <<"request", message.id>> \in Failures
    BY <2>2 DEF Messages, Failures
  <2> QED BY <1>0, <1>16, <2>1, <2>3 DEF Refuse, LogError, Again, RequestsTyped, library
<1>17. CASE NothingToRead
  <2>1. LinkTyped'
    BY <1>2, <1>17 DEF NothingToRead, Again
  <2> QED BY <1>0, <1>17, <2>1 DEF NothingToRead, Again, RequestsTyped, library, effects
<1>18. CASE ReadFails
  <2>1. LinkTyped'
    BY <1>2, <1>18 DEF ReadFails, Again
  <2> QED BY <1>0, <1>18, <2>1 DEF ReadFails, LogError, Failures, Again, RequestsTyped, library
<1>19. CASE UNCHANGED vars
  <2>1. LinkTyped'
    BY <1>2, <1>19 DEF vars
  <2> QED BY <1>0, <1>19, <2>1 DEF vars, RequestsTyped, library, task, effects
<1> QED BY <1>3, <1>5, <1>6, <1>7, <1>8, <1>9, <1>10, <1>11, <1>12, <1>13, <1>14, <1>15,
           <1>16, <1>17, <1>18, <1>19 DEF Next, Reader

LEMMA ReaderStep == TypeOK /\ ReaderInv /\ [Next]_vars => ReaderInv'
<1> SUFFICES ASSUME TypeOK, ReaderInv, [Next]_vars PROVE ReaderInv'
  OBVIOUS
<1> USE DEF ReaderInv
<1>1. CASE Publish \/ ConnectionCloses \/ Network \/ HandleTick
  BY <1>1 DEF Publish, ConnectionCloses, Network, HandleTick, task
<1>2. CASE NextMsg
  <2>1. pending # <<>> => Head(pending) \in Messages
    BY HeadTailProperties DEF TypeOK
  <2> QED BY <1>2, <2>1, MessageAssumption DEF NextMsg, NextMsgReturns
<1>3. CASE Connect \/ Subscribe
  BY <1>3 DEF Connect, Subscribe, task
<1>4. CASE MtSrvCleanup \/ DeletePool \/ CloseConnection
  BY <1>4 DEF MtSrvCleanup, DeletePool, CloseConnection, task
<1>5. CASE Start
  BY <1>5 DEF Start
<1>6. CASE OnTradeRequest \/ Refuse \/ NothingToRead \/ ReadFails
  BY <1>6 DEF OnTradeRequest, Refuse, NothingToRead, ReadFails, Again, Back
<1>7. CASE UNCHANGED vars
  BY <1>7 DEF vars, task
<1> QED BY <1>1, <1>2, <1>3, <1>4, <1>5, <1>6, <1>7 DEF Next, Reader

-----------------------------------------------------------------------------
(* The ticks. *)

Apart == /\ IsInjective(out)
         /\ ToSet(out) \cap ToSet(heard) = {}
         /\ ToSet(out) \cap dropped = {} /\ ToSet(heard) \cap dropped = {}

\* What the library does moves ticks from one place to another.
LEMMA LinkKeepsTicks ==
  ASSUME LinkTyped, Apart,
         Hear \/ Break \/ Mend \/ GiveUp \/ ConnectTo \/ Flush \/ Destroy \/ UNCHANGED link
  PROVE  Apart' /\ Taken' = Taken
<1>0. out \in Seq(Ticks) /\ heard \in Seq(Ticks)
  BY DEF LinkTyped
<1>1. CASE Hear
  <2> DEFINE h == Head(out)
             t == Tail(out)
  <2>1. h \in Ticks /\ ToSet(out) = {h} \cup ToSet(t) /\ h \notin ToSet(t) /\ IsInjective(t)
    BY <1>0, <1>1, SetOfTail DEF Hear, Apart
  <2>2. ToSet(Append(heard, h)) = ToSet(heard) \cup {h}
    BY <1>0, <2>1, SetOfAppend
  <2>3. out' = t /\ heard' = Append(heard, h) /\ dropped' = dropped
    BY <1>1 DEF Hear
  <2> HIDE DEF h, t
  <2>4. ToSet(out') = ToSet(t) /\ ToSet(heard') = ToSet(heard) \cup {h} /\ IsInjective(out')
    BY <2>1, <2>2, <2>3
  <2> QED BY <2>1, <2>3, <2>4 DEF Apart, Taken
<1>2. CASE Break
  <2>1. PICK k \in 0 .. Len(out) : /\ dropped' = dropped \cup ToSet(SubSeq(out, 1, k))
                                   /\ out' = SubSeq(out, k + 1, Len(out))
    BY <1>2 DEF Break
  <2> DEFINE f == ToSet(SubSeq(out, 1, k))
             t == SubSeq(out, k + 1, Len(out))
  <2>2. /\ ToSet(out) = f \cup ToSet(t)
        /\ f \cap ToSet(t) = {} /\ IsInjective(t)
    BY <1>0, SetOfCut DEF Apart
  <2>3. heard' = heard /\ dropped' = dropped \cup f /\ out' = t
    BY <1>2, <2>1 DEF Break
  <2> HIDE DEF f, t
  <2>4. ToSet(out') = ToSet(t) /\ ToSet(heard') = ToSet(heard) /\ IsInjective(out')
    BY <2>2, <2>3
  <2> QED BY <2>2, <2>3, <2>4 DEF Apart, Taken
<1>3. CASE Mend \/ ConnectTo \/ Flush \/ UNCHANGED link
  <2>1. out' = out /\ heard' = heard /\ dropped' = dropped
    BY <1>3 DEF Mend, ConnectTo, Flush, link, outgoing
  <2> QED BY <2>1 DEF Apart, Taken
<1>4. CASE GiveUp \/ Destroy
  <2>1. out' = <<>> /\ heard' = heard /\ dropped' = dropped \cup ToSet(out)
    BY <1>4 DEF GiveUp, Destroy, End
  <2>2. ToSet(out') = {} /\ IsInjective(out') /\ ToSet(heard') = ToSet(heard)
    BY <2>1, SetOfEmpty
  <2> QED BY <2>1, <2>2 DEF Apart, Taken
<1> QED BY <1>1, <1>2, <1>3, <1>4

LEMMA TicksStep == TypeOK /\ TicksInv /\ [Next]_vars => TicksInv'
<1> SUFFICES ASSUME TypeOK, TicksInv, [Next]_vars PROVE TicksInv'
  OBVIOUS
<1>1. LinkTyped /\ Apart
  BY DEF TypeOK, LinkTyped, TicksInv, Apart
<1>2. ASSUME Hear \/ Break \/ Mend \/ GiveUp \/ ConnectTo \/ Flush \/ Destroy \/ UNCHANGED link,
             ticks' = ticks, \A n : <<"tick", n>> \in logged' <=> <<"tick", n>> \in logged
      PROVE  TicksInv'
  <2>1. Apart' /\ Taken' = Taken
    BY <1>1, <1>2, LinkKeepsTicks
  <2> HIDE DEF TickOf
  <2>2. \A n : TickOf(n)' = TickOf(n)
    BY DEF TickOf, FeedTick, ToJson
  <2> QED BY <1>2, <2>1, <2>2 DEF TicksInv, Apart
<1>3. ASSUME UNCHANGED link, ticks' = ticks,
             \/ logged' = logged
             \/ \E failure : LogError(failure) /\ \A n : failure # <<"tick", n>>
      PROVE  TicksInv'
  BY <1>2, <1>3 DEF LogError
<1>4. CASE HandleTick
  <2>1. ticks + 1 \in 1 .. MaxTicks /\ ticks \in Nat /\ ticks' = ticks + 1
    BY <1>4, ConstantsAreNumbers DEF HandleTick, TypeOK
  <2> DEFINE tick == TickOf(ticks + 1)
  <2>2. tick \in Ticks /\ tick \notin Taken /\ <<"tick", ticks + 1>> \notin logged
    BY <2>1, TicksDiffer DEF TicksInv
  <2>3. \A n \in 1 .. MaxTicks : (n <= ticks + 1 <=> n <= ticks \/ n = ticks + 1)
                                 /\ (TickOf(n) = tick <=> n = ticks + 1)
    BY <2>1, TicksDiffer
  <2>4. CASE PublishString(tick) /\ UNCHANGED logged
    <3>1. out' = Append(out, tick) /\ heard' = heard /\ dropped' = dropped
      BY <2>4 DEF PublishString
    <3>2. /\ ToSet(Append(out, tick)) = ToSet(out) \cup {tick}
          /\ IsInjective(Append(out, tick))
      BY <1>1, <2>2, SetOfAppend DEF LinkTyped, Apart, Taken
    <3>3. ToSet(out') = ToSet(out) \cup {tick} /\ IsInjective(out') /\ ToSet(heard') = ToSet(heard)
      BY <3>1, <3>2
    <3> HIDE DEF tick
    <3>4. Apart' /\ Taken' = Taken \cup {tick}
      BY <1>1, <2>2, <3>1, <3>3 DEF Apart, Taken
    <3>5. ASSUME NEW n \in 1 .. MaxTicks
          PROVE  /\ TickOf(n) \in Taken' <=> n <= ticks' /\ <<"tick", n>> \notin logged'
                 /\ <<"tick", n>> \in logged' => n <= ticks'
      BY <2>1, <2>2, <2>3, <2>4, <3>4 DEF TicksInv
    <3>6. \A n : TickOf(n)' = TickOf(n)
      BY DEF TickOf, FeedTick, ToJson
    <3> QED BY <3>4, <3>5, <3>6 DEF TicksInv, Apart
  <2>5. CASE UNCHANGED link /\ LogError(<<"tick", ticks + 1>>)
    <3>1. Apart' /\ Taken' = Taken
      BY <1>1, <2>5, LinkKeepsTicks
    <3>2. \A n : <<"tick", n>> \in logged' <=> <<"tick", n>> \in logged \/ n = ticks + 1
      BY <2>5, FailuresDiffer DEF LogError
    <3> HIDE DEF tick
    <3>3. ASSUME NEW n \in 1 .. MaxTicks
          PROVE  /\ TickOf(n) \in Taken' <=> n <= ticks' /\ <<"tick", n>> \notin logged'
                 /\ <<"tick", n>> \in logged' => n <= ticks'
      BY <2>1, <2>2, <2>3, <3>1, <3>2 DEF TicksInv
    <3>4. \A n : TickOf(n)' = TickOf(n)
      BY DEF TickOf, FeedTick, ToJson
    <3> QED BY <3>1, <3>3, <3>4 DEF TicksInv, Apart
  <2>6. \/ PublishString(tick) /\ UNCHANGED logged
        \/ UNCHANGED link /\ LogError(<<"tick", ticks + 1>>)
    BY <1>4, <2>1 DEF HandleTick, TickOf
  <2> QED BY <2>4, <2>5, <2>6
<1>5. CASE Publish \/ NextMsg \/ MtSrvCleanup \/ DeletePool
  BY <1>3, <1>5 DEF Publish, NextMsg, NextMsgReturns, MtSrvCleanup, DeletePool, effects
<1>6. CASE ConnectionCloses \/ Network \/ CloseConnection
  <2>1. Hear \/ Break \/ Mend \/ GiveUp \/ ConnectTo \/ Flush \/ Destroy \/ UNCHANGED link
    BY <1>6 DEF ConnectionCloses, Network, CloseConnection
  <2>2. ticks' = ticks /\ logged' = logged
    BY <1>6 DEF ConnectionCloses, Network, CloseConnection, effects
  <2> QED BY <1>2, <2>1, <2>2
<1>7. CASE Connect
  <2>1. ConnectTo \/ UNCHANGED link
    BY <1>7 DEF Connect
  <2>2. ticks' = ticks /\ \A n : <<"tick", n>> \in logged' <=> <<"tick", n>> \in logged
    BY <1>7, FailuresDiffer DEF Connect, LogError
  <2> QED BY <1>2, <2>1, <2>2
<1>8. CASE Subscribe
  BY <1>3, <1>8, FailuresDiffer DEF Subscribe
<1>9. CASE Start \/ OnTradeRequest \/ NothingToRead
  BY <1>3, <1>9 DEF Start, OnTradeRequest, NothingToRead, Again, effects
<1>10. CASE Refuse \/ ReadFails
  BY <1>3, <1>10, FailuresDiffer DEF Refuse, ReadFails, Again
<1>11. CASE UNCHANGED vars
  BY <1>3, <1>11 DEF vars, effects
<1> QED BY <1>4, <1>5, <1>6, <1>7, <1>8, <1>9, <1>10, <1>11 DEF Next, Reader

LEMMA CutStep == CutInv /\ [Next]_vars => CutInv'
<1> SUFFICES ASSUME CutInv, [Next]_vars PROVE CutInv'
  OBVIOUS
<1> USE DEF CutInv
<1>1. CASE Publish \/ NextMsg \/ Subscribe \/ MtSrvCleanup \/ DeletePool
  BY <1>1 DEF Publish, NextMsg, NextMsgReturns, Subscribe, MtSrvCleanup, DeletePool, link, outgoing
<1>2. CASE ConnectionCloses
  BY <1>2 DEF ConnectionCloses, GiveUp, End
<1>3. CASE Network
  <2>1. CASE Hear
    <3>1. out # <<>> /\ UNCHANGED <<conn, dropped, cut, stage>>
      BY <1>3, <2>1 DEF Network, Hear
    <3> QED BY <3>1
  <2>2. CASE Break
    BY <2>2 DEF Break
  <2>3. CASE Mend
    BY <1>3, <2>3 DEF Network, Mend, outgoing
  <2> QED BY <1>3, <2>1, <2>2, <2>3 DEF Network
<1>4. CASE Connect
  BY <1>4 DEF Connect, ConnectTo, link, outgoing
<1>5. CASE HandleTick
  BY <1>5 DEF HandleTick, PublishString, link, outgoing
<1>6. CASE CloseConnection
  <2>1. CASE Flush /\ stage' = "flushed"
    BY <2>1 DEF Flush
  <2>2. CASE stage = "flushed" /\ Destroy
    <3>1. out' = <<>> /\ cut' = cut /\ conn' = "gone" /\ dropped' = dropped \cup ToSet(out)
      BY <2>2 DEF Destroy, End
    <3>2. dropped' # {} => dropped # {} \/ out # <<>>
      BY <3>1, SetOfEmpty
    <3> QED BY <2>2, <3>1, <3>2
  <2>3. CASE stage' = "unloaded" /\ UNCHANGED link
    BY <2>3 DEF link, outgoing
  <2> QED BY <1>6, <2>1, <2>2, <2>3 DEF CloseConnection
<1>7. CASE Reader
  BY <1>7 DEF Reader, Start, OnTradeRequest, Refuse, NothingToRead, ReadFails, Again, link, outgoing
<1>8. CASE UNCHANGED vars
  BY <1>8 DEF vars, link, outgoing
<1> QED BY <1>1, <1>2, <1>3, <1>4, <1>5, <1>6, <1>7, <1>8 DEF Next

-----------------------------------------------------------------------------
(* The requests: what a step does to the places they are in. *)

NothingMoves    == UNCHANGED <<sent, pending, message, handled, Refused, lost>>
SentAndLost     == /\ sent' = sent + 1 /\ lost' = lost \cup {sent + 1}
                   /\ UNCHANGED <<pending, message, handled, Refused>>
SentAndPending  == /\ sent < MaxRequests /\ sent' = sent + 1
                   /\ \E f \in Forms : pending' = Append(pending, [id |-> sent + 1, form |-> f])
                   /\ UNCHANGED <<message, handled, Refused, lost>>
PendingIsLost   == /\ pending' = <<>> /\ lost' = lost \cup PendingIds
                   /\ UNCHANGED <<sent, message, handled, Refused>>
HeadIsTaken     == /\ pending # <<>> /\ message = NoMessage
                   /\ message' = Head(pending) /\ pending' = Tail(pending)
                   /\ UNCHANGED <<sent, handled, Refused, lost>>
MessageHandled  == /\ message \in Messages /\ message' = NoMessage
                   /\ handled' = Append(handled, [id |-> message.id, side |-> Side(message.form)])
                   /\ UNCHANGED <<sent, pending, Refused, lost>>
MessageRefused  == /\ message \in Messages /\ message' = NoMessage
                   /\ Refused' = Refused \cup {message.id}
                   /\ UNCHANGED <<sent, pending, handled, lost>>

LEMMA Moves ==
  ASSUME TypeOK, ReaderInv, [Next]_vars
  PROVE  \/ NothingMoves \/ SentAndLost \/ SentAndPending \/ PendingIsLost
         \/ HeadIsTaken \/ MessageHandled \/ MessageRefused
<1>1. ASSUME \/ logged' = logged
             \/ \E failure : LogError(failure) /\ \A id : failure # <<"request", id>>
      PROVE  Refused' = Refused
  BY <1>1 DEF LogError, Refused
<1>2. CASE Publish
  BY <1>1, <1>2 DEF Publish, task, effects, SentAndLost, SentAndPending
<1>3. CASE ConnectionCloses \/ DeletePool
  BY <1>1, <1>3 DEF ConnectionCloses, DeletePool, SubscriptionEnds, task, effects, PendingIsLost
<1>4. CASE Network \/ MtSrvCleanup \/ CloseConnection \/ Start
  BY <1>1, <1>4 DEF Network, MtSrvCleanup, CloseConnection, Start, library, task, effects, NothingMoves
<1>5. CASE NextMsg
  BY <1>1, <1>5 DEF NextMsg, NextMsgReturns, effects, ReaderInv, NothingMoves, HeadIsTaken
<1>6. CASE Connect
  BY <1>1, <1>6, FailuresDiffer DEF Connect, library, task, NothingMoves
<1>7. CASE Subscribe
  BY <1>1, <1>7, FailuresDiffer DEF Subscribe, library, NothingMoves
<1>8. CASE HandleTick
  <2>1. \/ logged' = logged
        \/ \E failure : LogError(failure) /\ \A id : failure # <<"request", id>>
    BY <1>8, FailuresDiffer DEF HandleTick
  <2> QED BY <1>1, <1>8, <2>1 DEF HandleTick, library, task, NothingMoves
<1>9. CASE OnTradeRequest
  <2>1. message \in Messages
    BY <1>9 DEF OnTradeRequest, Back, ReaderInv, TypeOK
  <2> QED BY <1>1, <1>9, <2>1 DEF OnTradeRequest, Again, library, MessageHandled
<1>10. CASE Refuse
  <2>1. message \in Messages /\ message.id \in Ids
    BY <1>10 DEF Refuse, Back, ReaderInv, TypeOK, Messages
  <2>2. \A id : <<"request", id>> \in logged' <=> <<"request", id>> \in logged \/ id = message.id
    BY <1>10, FailuresDiffer DEF Refuse, LogError
  <2>3. Refused' = Refused \cup {message.id}
    BY <2>1, <2>2 DEF Refused
  <2> QED BY <1>10, <2>1, <2>3 DEF Refuse, Again, library, MessageRefused
<1>11. CASE NothingToRead
  <2>1. message = NoMessage
    BY <1>11 DEF NothingToRead, Back, ReaderInv
  <2> QED BY <1>1, <1>11, <2>1 DEF NothingToRead, Again, library, effects, NothingMoves
<1>12. CASE ReadFails
  <2>1. message = NoMessage
    BY <1>12 DEF ReadFails, Back, ReaderInv
  <2> QED BY <1>1, <1>12, <2>1, FailuresDiffer DEF ReadFails, Again, library, NothingMoves
<1>13. CASE UNCHANGED vars
  BY <1>1, <1>13 DEF vars, library, task, effects, NothingMoves
<1> QED BY <1>2, <1>3, <1>4, <1>5, <1>6, <1>7, <1>8, <1>9, <1>10, <1>11, <1>12, <1>13
        DEF Next, Reader

\* The numbers in each place after those moves.
LEMMA NumbersMove ==
  ASSUME TypeOK, Ascending(pending)
  PROVE  /\ pending' = pending => PendingIds' = PendingIds
         /\ message' = message => InHand' = InHand
         /\ handled' = handled => HandledIds' = HandledIds
         /\ SentAndPending => PendingIds' = PendingIds \cup {sent + 1}
         /\ PendingIsLost => PendingIds' = {}
         /\ HeadIsTaken => /\ InHand = {} /\ InHand' \cup PendingIds' = PendingIds
                           /\ \A id \in InHand', other \in PendingIds' : id < other
         /\ MessageHandled => /\ InHand = {message.id} /\ InHand' = {}
                              /\ HandledIds' = HandledIds \cup {message.id}
         /\ MessageRefused => InHand = {message.id} /\ InHand' = {}
<1> DEFINE Requests == [id : Ids, side : {"BUY", "SELL"}]
<1>0. pending \in Seq(Messages) /\ handled \in Seq(Requests) /\ sent \in 0 .. MaxRequests
  BY DEF TypeOK
<1>1. /\ pending' = pending => PendingIds' = PendingIds
      /\ message' = message => InHand' = InHand
      /\ handled' = handled => HandledIds' = HandledIds
  BY DEF PendingIds, InHand, HandledIds
<1>2. ASSUME SentAndPending PROVE PendingIds' = PendingIds \cup {sent + 1}
  <2>1. PICK f \in Forms : pending' = Append(pending, [id |-> sent + 1, form |-> f])
    BY <1>2 DEF SentAndPending
  <2> DEFINE new == [id |-> sent + 1, form |-> f]
  <2>2. new \in Messages /\ new.id = sent + 1 /\ pending' = Append(pending, new)
    BY <1>0, <1>2, <2>1, ConstantsAreNumbers DEF SentAndPending, Messages, Ids
  <2> HIDE DEF new
  <2>3. ToSet(pending') = ToSet(pending) \cup {new}
    BY <1>0, <2>2, SetOfAppend
  <2> QED BY <2>2, <2>3 DEF PendingIds
<1>3. ASSUME PendingIsLost PROVE PendingIds' = {}
  BY <1>3, SetOfEmpty DEF PendingIsLost, PendingIds
<1>4. ASSUME HeadIsTaken
      PROVE  /\ InHand = {} /\ InHand' \cup PendingIds' = PendingIds
             /\ \A id \in InHand', other \in PendingIds' : id < other
  <2> DEFINE h == Head(pending)
             t == Tail(pending)
  <2>1. h \in Messages /\ ToSet(pending) = {h} \cup ToSet(t) /\ \A m \in ToSet(t) : h.id < m.id
    BY <1>0, <1>4, SetOfTail, AscendingTail DEF HeadIsTaken
  <2>2. message = NoMessage /\ message' = h /\ pending' = t
    BY <1>4 DEF HeadIsTaken
  <2> HIDE DEF h, t
  <2>3. h # NoMessage
    BY <2>1, MessageAssumption
  <2>4. InHand = {} /\ InHand' = {h.id}
    BY <2>2, <2>3 DEF InHand
  <2>5. PendingIds' = {m.id : m \in ToSet(t)}
    BY <2>2 DEF PendingIds
  <2>6. PendingIds = {h.id} \cup PendingIds'
    BY <2>1, <2>5 DEF PendingIds
  <2>7. \A other \in PendingIds' : h.id < other
    BY <2>1, <2>5
  <2> QED BY <2>4, <2>6, <2>7
<1>5. ASSUME MessageHandled \/ MessageRefused PROVE InHand = {message.id} /\ InHand' = {}
  BY <1>5, MessageAssumption DEF MessageHandled, MessageRefused, InHand
<1>6. ASSUME MessageHandled PROVE HandledIds' = HandledIds \cup {message.id}
  <2> DEFINE new == [id |-> message.id, side |-> Side(message.form)]
  <2>1. new \in Requests /\ new.id = message.id /\ handled' = Append(handled, new)
    BY <1>6 DEF MessageHandled, Messages, Side
  <2> HIDE DEF new, Requests
  <2>2. ToSet(handled') = ToSet(handled) \cup {new}
    BY <1>0, <2>1, SetOfAppend
  <2> QED BY <2>1, <2>2 DEF HandledIds
<1> QED BY <1>1, <1>2, <1>3, <1>4, <1>5, <1>6

LEMMA RequestsStep ==
  TypeOK /\ TypeOK' /\ ReaderInv /\ OrderInv /\ PlacesInv /\ [Next]_vars => OrderInv' /\ PlacesInv'
<1> SUFFICES ASSUME TypeOK, TypeOK', ReaderInv, OrderInv, PlacesInv, [Next]_vars
             PROVE  OrderInv' /\ PlacesInv'
  OBVIOUS
<1> DEFINE Requests == [id : Ids, side : {"BUY", "SELL"}]
<1>0. pending \in Seq(Messages) /\ handled \in Seq(Requests) /\ sent \in Nat
      /\ Ascending(pending) /\ Ascending(handled)
  BY ConstantsAreNumbers DEF TypeOK, OrderInv
<1>1. /\ PendingIds \subseteq 1 .. sent /\ InHand \subseteq 1 .. sent
      /\ HandledIds \subseteq 1 .. sent /\ Refused \subseteq 1 .. sent /\ lost \subseteq 1 .. sent
  BY DEF PlacesInv, Waiting, Settled
<1> USE DEF Waiting, Settled
<1>2. CASE NothingMoves
  BY <1>2, NumbersMove DEF NothingMoves, OrderInv, PlacesInv
<1>3. CASE SentAndLost
  <2>1. UNCHANGED <<PendingIds, InHand, HandledIds, Refused, pending, handled>>
    BY <1>0, <1>3, NumbersMove DEF SentAndLost
  <2>2. OrderInv'
    BY <2>1 DEF OrderInv
  <2>3. lost' = lost \cup {sent + 1} /\ sent' = sent + 1 /\ 1 .. sent + 1 = (1 .. sent) \cup {sent + 1}
        /\ sent + 1 \notin 1 .. sent
    BY <1>0, <1>3 DEF SentAndLost
  <2> QED BY <1>1, <2>1, <2>2, <2>3 DEF PlacesInv
<1>4. CASE SentAndPending
  <2>1. UNCHANGED <<InHand, HandledIds, Refused, handled, lost>> /\ PendingIds' = PendingIds \cup {sent + 1}
    BY <1>0, <1>4, NumbersMove DEF SentAndPending
  <2>2. sent' = sent + 1 /\ 1 .. sent + 1 = (1 .. sent) \cup {sent + 1}
        /\ sent + 1 \notin 1 .. sent /\ \A n \in 1 .. sent : n < sent + 1
    BY <1>0, <1>4 DEF SentAndPending
  <2>3. Ascending(pending')
    <3>1. PICK f \in Forms : pending' = Append(pending, [id |-> sent + 1, form |-> f])
      BY <1>4 DEF SentAndPending
    <3>2. [id |-> sent + 1, form |-> f] \in Messages
      BY <1>0, <2>2 DEF Messages, Ids, TypeOK
    <3>3. \A m \in ToSet(pending) : m.id < sent + 1
      BY <1>1, <2>2 DEF PendingIds
    <3> QED BY <1>0, <3>1, <3>2, <3>3, AscendingAppend
  <2>4. OrderInv'
    BY <1>1, <2>1, <2>2, <2>3 DEF OrderInv
  <2> QED BY <1>1, <2>1, <2>2, <2>4 DEF PlacesInv
<1>5. CASE PendingIsLost
  <2>1. UNCHANGED <<InHand, HandledIds, Refused, handled, sent>> /\ PendingIds' = {}
        /\ lost' = lost \cup PendingIds
    BY <1>0, <1>5, NumbersMove DEF PendingIsLost
  <2>2. Ascending(pending')
    BY <1>5, AscendingEmpty DEF PendingIsLost
  <2>3. OrderInv'
    BY <2>1, <2>2 DEF OrderInv
  <2>4. PendingIds \cap InHand = {} /\ PendingIds \cap (HandledIds \cup Refused) = {}
    BY <1>1 DEF OrderInv
  <2> QED BY <2>1, <2>3, <2>4 DEF PlacesInv
<1>6. CASE HeadIsTaken
  <2>1. UNCHANGED <<HandledIds, Refused, handled, sent, lost>> /\ InHand = {}
        /\ InHand' \cup PendingIds' = PendingIds
        /\ \A id \in InHand', other \in PendingIds' : id < other
    BY <1>0, <1>6, NumbersMove DEF HeadIsTaken
  <2>2. Ascending(pending')
    BY <1>0, <1>6, AscendingTail DEF HeadIsTaken
  <2>3. OrderInv'
    BY <2>1, <2>2 DEF OrderInv
  <2> QED BY <2>1, <2>3 DEF PlacesInv
<1>7. CASE MessageHandled
  <2>1. UNCHANGED <<PendingIds, Refused, pending, sent, lost>> /\ InHand = {message.id}
        /\ InHand' = {} /\ HandledIds' = HandledIds \cup {message.id}
    BY <1>0, <1>7, NumbersMove DEF MessageHandled
  <2>2. Ascending(handled')
    <3> DEFINE new == [id |-> message.id, side |-> Side(message.form)]
    <3>1. new \in Requests /\ new.id = message.id /\ handled' = Append(handled, new)
      BY <1>7 DEF MessageHandled, Messages, Side
    <3>2. \A h \in ToSet(handled) : h.id < message.id
      BY <2>1 DEF OrderInv, HandledIds
    <3> HIDE DEF new
    <3> QED BY <1>0, <3>1, <3>2, AscendingAppend
  <2>3. message.id \notin Refused /\ message.id \notin lost
    BY <1>1, <2>1 DEF OrderInv, PlacesInv
  <2>4. OrderInv'
    BY <2>1, <2>2 DEF OrderInv
  <2> QED BY <2>1, <2>3, <2>4 DEF PlacesInv
<1>8. CASE MessageRefused
  <2>1. UNCHANGED <<PendingIds, HandledIds, pending, handled, sent, lost>> /\ InHand = {message.id}
        /\ InHand' = {} /\ Refused' = Refused \cup {message.id}
    BY <1>0, <1>8, NumbersMove DEF MessageRefused
  <2>2. message.id \notin HandledIds /\ message.id \notin lost
    BY <1>1, <2>1 DEF OrderInv, PlacesInv
  <2>3. OrderInv'
    BY <2>1 DEF OrderInv
  <2> QED BY <2>1, <2>2, <2>3 DEF PlacesInv
<1> QED BY <1>2, <1>3, <1>4, <1>5, <1>6, <1>7, <1>8, Moves

-----------------------------------------------------------------------------
(* The invariant. *)

LEMMA InitOK == Init => IInv
<1> SUFFICES ASSUME Init PROVE IInv
  OBVIOUS
<1> USE DEF Init, NoLink
<1>1. /\ \A S : <<>> \in Seq(S)
      /\ Len(<<>>) = 0 /\ ToSet(<<>>) = {} /\ IsInjective(<<>>)
  BY EmptySeq, SetOfEmpty
<1>2. TypeOK
  <2>1. /\ out \in Seq(Ticks) /\ heard \in Seq(Ticks) /\ pending \in Seq(Messages)
        /\ handled \in Seq([id : Ids, side : {"BUY", "SELL"}])
    BY <1>1
  <2>2. Len(out) <= Buffer /\ Len(pending) <= PendingLimit
    BY <1>1, ConstantsAreNumbers
  <2>3. sent \in 0 .. MaxRequests /\ ticks \in 0 .. MaxTicks
    BY ConstantsAreNumbers
  <2> QED BY <2>1, <2>2, <2>3 DEF TypeOK
<1>3. PendingIds = {} /\ InHand = {} /\ HandledIds = {} /\ Refused = {}
  BY <1>1 DEF PendingIds, InHand, HandledIds, Refused
<1>4. OrderInv /\ PlacesInv
  <2>1. 1 .. 0 = {}
    OBVIOUS
  <2> QED BY <1>3, <2>1, AscendingEmpty DEF OrderInv, PlacesInv, Waiting, Settled
<1>5. TicksInv
  BY <1>1, ConstantsAreNumbers DEF TicksInv, Taken
<1> QED BY <1>2, <1>4, <1>5 DEF IInv, ReaderInv, CutInv

LEMMA Inductive == IInv /\ [Next]_vars => IInv'
BY TypeStep, ReaderStep, RequestsStep, TicksStep, CutStep DEF IInv

LEMMA Invariance == Spec => []IInv
BY InitOK, Inductive, PTL DEF Spec

LEMMA OnlyThere ==
  ASSUME NEW x, NEW p, NEW place \in p, x \in place[2],
         \A other \in p : x \in other[2] => other = place
  PROVE  InExactlyOne(x, p)
BY DEF InExactlyOne

-----------------------------------------------------------------------------
(* The theorems. *)

\* Every variable has its type: the buffer of the library and the pending list
\* stay within their limits.
THEOREM TypeCorrect == Spec => []TypeOK
<1>1. IInv => TypeOK
  BY DEF IInv
<1> QED BY <1>1, Invariance, PTL

\* on_trade_request is called with the requests in the order they were sent and
\* with none of them twice (plugin.cpp:173-187).
THEOREM HandledOrder == Spec => []HandledInOrder
<1>1. IInv => HandledInOrder
  BY DEF IInv, OrderInv, Ascending, HandledInOrder
<1> QED BY <1>1, Invariance, PTL

\* A request that was sent is in one place: pending, in the hand of the reader,
\* handled, logged as refused, or lost by the library.
THEOREM OnePlace == Spec => []EachInOnePlace
<1>1. ASSUME IInv PROVE EachInOnePlace
  <2> SUFFICES ASSUME NEW id \in 1 .. sent
               PROVE  InExactlyOne(id, {<<"pending", PendingIds>>, <<"hand", InHand>>,
                        <<"handled", HandledIds>>, <<"refused", Refused>>, <<"lost", lost>>})
    BY DEF EachInOnePlace
  <2> DEFINE places == {<<"pending", PendingIds>>, <<"hand", InHand>>, <<"handled", HandledIds>>,
                        <<"refused", Refused>>, <<"lost", lost>>}
  <2>1. id \in PendingIds \/ id \in InHand \/ id \in HandledIds \/ id \in Refused \/ id \in lost
    BY <1>1 DEF IInv, PlacesInv, Waiting, Settled
  <2>2. ~ id < id
    OBVIOUS
  <2>3. /\ id \in PendingIds => id \notin InHand /\ id \notin HandledIds /\ id \notin Refused /\ id \notin lost
        /\ id \in InHand => id \notin HandledIds /\ id \notin Refused /\ id \notin lost
        /\ id \in HandledIds => id \notin Refused /\ id \notin lost
        /\ id \in Refused => id \notin lost
    BY <1>1, <2>2 DEF IInv, OrderInv, PlacesInv, Waiting, Settled
  <2>4. \E place \in places : id \in place[2] /\ \A other \in places : id \in other[2] => other = place
    BY <2>1, <2>3
  <2> QED BY <2>4, OnlyThere
<1> QED BY <1>1, Invariance, PTL

\* Every tick of the server is on its way, heard, or dropped, and in one of
\* them, or its failure is in the log and it is in none (plugin.cpp:201).
THEOREM TicksInOnePlace == Spec => []TicksAccounted
<1>1. ASSUME IInv PROVE TicksAccounted
  <2> SUFFICES ASSUME NEW n \in 1 .. ticks
               PROVE  LET tick == [timestamp |-> n, bid |-> n, ask |-> n + 1]
                      IN  \/ InExactlyOne(tick, {<<"out", ToSet(out)>>, <<"heard", ToSet(heard)>>,
                                                 <<"dropped", dropped>>}) /\ <<"tick", n>> \notin logged
                          \/ <<"tick", n>> \in logged /\ tick \notin ToSet(out \o heard) \cup dropped
    BY DEF TicksAccounted
  <2> DEFINE tick == [timestamp |-> n, bid |-> n, ask |-> n + 1]
             places == {<<"out", ToSet(out)>>, <<"heard", ToSet(heard)>>, <<"dropped", dropped>>}
  <2>1. n \in 1 .. MaxTicks /\ n <= ticks /\ tick = TickOf(n)
    BY <1>1, ConstantsAreNumbers DEF IInv, TypeOK, TickOf, FeedTick, ToJson
  <2> HIDE DEF tick
  <2>2. tick \in Taken <=> <<"tick", n>> \notin logged
    BY <1>1, <2>1 DEF IInv, TicksInv
  <2>3. ToSet(out \o heard) = ToSet(out) \cup ToSet(heard)
    BY <1>1, SetOfConcat DEF IInv, TypeOK
  <2>4. CASE tick \notin Taken
    BY <2>2, <2>3, <2>4 DEF Taken, tick
  <2>5. CASE tick \in Taken
    <3>1. \E place \in places : tick \in place[2] /\ \A other \in places : tick \in other[2] => other = place
      BY <1>1, <2>5 DEF IInv, TicksInv, Taken
    <3>2. InExactlyOne(tick, places)
      BY <3>1, OnlyThere
    <3> QED BY <2>2, <2>5, <3>2 DEF tick
  <2> QED BY <2>4, <2>5
<1> QED BY <1>1, Invariance, PTL

\* A connection that was never down, and whose flush was not cut short, drops
\* no tick (nats.h:20-22).
THEOREM NothingDropped == Spec => []OnlyACutDrops
<1>1. IInv => OnlyACutDrops
  BY DEF IInv, CutInv, OnlyACutDrops
<1> QED BY <1>1, Invariance, PTL

-----------------------------------------------------------------------------
(* The log of requests. *)

\* The part of SettlesRequests that is no liveness.
SettlesInOrder == Log!Init /\ [][Log!Next]_(Log!vars)

Numbers == [k \in DOMAIN handled |-> handled[k].id]

LEMMA NumbersOfAppend ==
  ASSUME NEW S, handled \in Seq(S), NEW x \in S, handled' = Append(handled, x),
         x.id \in Ids, \A k \in DOMAIN handled : handled[k].id \in Ids
  PROVE  Numbers' = Append(Numbers, x.id)
<1>1. /\ handled' \in Seq(S) /\ Len(handled') = Len(handled) + 1 /\ Len(handled) \in Nat
      /\ \A k \in 1 .. Len(handled) : handled'[k] = handled[k]
      /\ handled'[Len(handled) + 1] = x
  BY AppendProperties, LenProperties
<1>2. DOMAIN handled = 1 .. Len(handled) /\ DOMAIN handled' = 1 .. Len(handled) + 1
  BY <1>1, LenProperties
<1>3. /\ Numbers \in Seq(Ids) /\ Len(Numbers) = Len(handled)
      /\ \A k \in 1 .. Len(handled) : Numbers[k] = handled[k].id
  BY <1>1, <1>2 DEF Numbers
<1>4. /\ Append(Numbers, x.id) \in Seq(Ids)
      /\ Len(Append(Numbers, x.id)) = Len(handled) + 1
      /\ \A k \in 1 .. Len(handled) : Append(Numbers, x.id)[k] = handled[k].id
      /\ Append(Numbers, x.id)[Len(handled) + 1] = x.id
  BY <1>3, AppendProperties
<1>5. Numbers' = [k \in 1 .. Len(handled) + 1 |-> handled'[k].id]
  BY <1>2 DEF Numbers
<1>6. \A k \in 1 .. Len(handled) + 1 : k \in 1 .. Len(handled) \/ k = Len(handled) + 1
  BY <1>1
<1>7. \A k \in 1 .. Len(handled) + 1 : handled'[k].id = Append(Numbers, x.id)[k]
  BY <1>1, <1>4, <1>6
<1>8. Append(Numbers, x.id) = [k \in 1 .. Len(handled) + 1 |-> Append(Numbers, x.id)[k]]
  BY <1>4, LenProperties
<1> QED BY <1>5, <1>7, <1>8

\* A step of the reader is a step of the log or leaves it as it is: requests are
\* settled in the order they were sent, each is settled once, and what is lost
\* was waiting or was never taken.
THEOREM ImplementsLog == Spec => SettlesInOrder
<1>1. Init => Log!Init
  <2> SUFFICES ASSUME Init PROVE Log!Init
    OBVIOUS
  <2>1. PendingIds = {} /\ InHand = {} /\ Refused = {}
    BY SetOfEmpty DEF Init, PendingIds, InHand, Refused
  <2>2. Numbers = <<>>
    <3>1. handled = <<>> /\ DOMAIN handled = {}
      BY DEF Init
    <3> QED BY <3>1 DEF Numbers
  <2> QED BY <2>1, <2>2 DEF Init, Log!Init, Numbers
<1>2. IInv /\ [Next]_vars => [Log!Next]_(Log!vars)
  <2> SUFFICES ASSUME IInv, [Next]_vars PROVE [Log!Next]_(Log!vars)
    OBVIOUS
  <2>0. TypeOK /\ OrderInv /\ PlacesInv /\ ReaderInv /\ Ascending(pending)
    BY DEF IInv, OrderInv
  <2>1. handled' = handled => Numbers' = Numbers
    BY DEF Numbers
  <2>2. CASE NothingMoves \/ HeadIsTaken
    <3>1. UNCHANGED <<sent, PendingIds \cup InHand, Numbers, Refused, lost>>
      BY <2>0, <2>1, <2>2, NumbersMove DEF NothingMoves, HeadIsTaken
    <3> QED BY <3>1 DEF Log!vars, Numbers
  <2>3. CASE SentAndLost \/ SentAndPending
    <3>1. /\ sent' = sent + 1 /\ UNCHANGED <<Numbers, Refused>>
          /\ \/ /\ PendingIds' \cup InHand' = (PendingIds \cup InHand) \cup {sent'}
                /\ lost' = lost
             \/ /\ PendingIds' \cup InHand' = PendingIds \cup InHand
                /\ lost' = lost \cup {sent'}
      BY <2>0, <2>1, <2>3, NumbersMove DEF SentAndLost, SentAndPending
    <3>2. Log!Send
      BY <3>1 DEF Log!Send, Numbers
    <3> QED BY <3>2 DEF Log!Next
  <2>4. CASE PendingIsLost
    <3>1. /\ UNCHANGED <<sent, Numbers, Refused>> /\ lost' = lost \cup PendingIds
          /\ PendingIds' = {} /\ InHand' = InHand
      BY <2>0, <2>1, <2>4, NumbersMove DEF PendingIsLost
    <3>2. PendingIds \cap InHand = {}
      <4>1. \A id \in 1 .. sent : ~ id < id
        OBVIOUS
      <4> QED BY <2>0, <4>1 DEF OrderInv, PlacesInv, Waiting, Settled
    <3>3. CASE PendingIds = {}
      BY <3>1, <3>3 DEF Log!vars, Numbers
    <3>4. CASE PendingIds # {}
      <4>1. PendingIds' \cup InHand' = (PendingIds \cup InHand) \ PendingIds
        BY <3>1, <3>2
      <4>2. Log!Lose
        BY <3>1, <3>4, <4>1 DEF Log!Lose, Numbers
      <4> QED BY <4>2 DEF Log!Next
    <3> QED BY <3>3, <3>4
  <2>5. CASE MessageHandled \/ MessageRefused
    <3>1. InHand = {message.id} /\ InHand' = {} /\ PendingIds' = PendingIds
          /\ UNCHANGED <<sent, lost>> /\ message \in Messages /\ message.id \in Ids
      BY <2>0, <2>5, NumbersMove DEF MessageHandled, MessageRefused, Messages
    <3>2. \A other \in PendingIds \cup InHand : message.id <= other
      <4>1. PendingIds \subseteq Int /\ message.id \in Int
        BY <2>0, <3>1, PendingIdsTyped DEF Ids
      <4>2. \A other \in PendingIds : message.id < other
        BY <2>0, <3>1 DEF OrderInv
      <4> QED BY <3>1, <4>1, <4>2
    <3>3. PendingIds' \cup InHand' = (PendingIds \cup InHand) \ {message.id}
      <4>1. ~ message.id < message.id
        BY <3>1 DEF Ids
      <4> QED BY <2>0, <3>1, <4>1 DEF OrderInv
    <3>4. \/ Numbers' = Append(Numbers, message.id) /\ Refused' = Refused
          \/ Numbers' = Numbers /\ Refused' = Refused \cup {message.id}
      <4>1. CASE MessageHandled
        <5> DEFINE Requests == [id : Ids, side : {"BUY", "SELL"}]
                   new == [id |-> message.id, side |-> Side(message.form)]
        <5>1. new \in Requests /\ new.id = message.id /\ handled' = Append(handled, new)
              /\ Refused' = Refused
          BY <3>1, <4>1 DEF MessageHandled, Side
        <5>2. handled \in Seq(Requests) /\ \A k \in DOMAIN handled : handled[k].id \in Ids
          <6>1. handled \in Seq(Requests)
            BY <2>0 DEF TypeOK
          <6> HIDE DEF Requests
          <6>2. \A k \in DOMAIN handled : handled[k] \in Requests
            BY <6>1, LenProperties, ElementOfSeq
          <6>3. \A h \in Requests : h.id \in Ids
            BY DEF Requests
          <6> QED BY <6>1, <6>2, <6>3
        <5> HIDE DEF new, Requests
        <5> QED BY <3>1, <5>1, <5>2, NumbersOfAppend
      <4>2. CASE MessageRefused
        BY <2>1, <4>2 DEF MessageRefused
      <4> QED BY <2>5, <4>1, <4>2
    <3>5. Log!Settle
      BY <3>1, <3>2, <3>3, <3>4 DEF Log!Settle, Numbers
    <3> QED BY <3>5 DEF Log!Next
  <2> QED BY <2>0, <2>2, <2>3, <2>4, <2>5, Moves
<1> QED BY <1>1, <1>2, Invariance, PTL DEF Spec, SettlesInOrder

=============================================================================
