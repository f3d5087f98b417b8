--------------------------- MODULE MockServerProofs ---------------------------
(***************************************************************************)
(* Theorems of MockServer and of MockCandles, whose generator it runs, for *)
(* every length of the minute and every number of requests.                *)
(***************************************************************************)
EXTENDS MockServer, Lemmas

OnMinute(t) == t = MinuteOf(t) * Minute

LastPublished == published[Len(published)]

\* How far the initial candles have come, and that they stay the first two.
BegunOK ==
  /\ 2 * Minute <= clock
  /\ candles \in {"none", "start"} => published = <<>>
  /\ candles \notin {"none", "start"} => OnMinute(now) /\ 2 * Minute <= now /\ now <= clock
  /\ candles = "initial" =>
       \/ from = now - 2 * Minute /\ published = <<>>
       \/ from = now - Minute /\ published = <<now - Minute>>
       \/ from = now /\ published = <<now - Minute, now>>
  /\ candles \in {"schedule", "select", "publish", "ended"} =>
       Len(published) >= 2 /\ published[1] = now - Minute /\ published[2] = now

\* The timer is set to the start of a minute after that of the last candle.
TimerOK ==
  /\ \A k \in 1 .. Len(published) : published[k] <= clock
  /\ candles \in {"select", "publish"} => OnMinute(timer) /\ LastPublished < timer
  /\ candles \notin {"select", "publish", "ended"} => fired = NotFired
  /\ fired # NotFired => timer <= fired /\ fired <= clock
  /\ candles = "publish" => fired # NotFired

\* A generator that is not behind has published this minute, or is about to.
PaceOK ==
  ~behind =>
    /\ candles = "initial" => MinuteOf(clock) = MinuteOf(now)
    /\ candles = "schedule" => MinuteOf(clock) = MinuteOf(LastPublished)
    /\ candles \in {"select", "publish"} =>
         clock < timer + Minute /\ MinuteOf(timer) = MinuteOf(LastPublished) + 1

GeneratorInv ==
  /\ GeneratorTypeOK /\ BegunOK /\ TimerOK /\ PaceOK
  /\ MinutesIncrease /\ GapOnlyWhenBehind

\* 1 while the trade goroutine has a message that it has not answered.
Asking == IF trade = "answering" THEN 1 ELSE 0

\* The messages are numbered as they are sent, and each is answered or still
\* to be answered; an answer has the number of its message, or none.
DeskInv ==
  /\ Len(answers) = orderID /\ sent = orderID + Asking + Len(inbox)
  /\ \A k \in 1 .. Len(inbox) : inbox[k] \in {Malformed, orderID + Asking + k}
  /\ trade = "answering" => message \in {Malformed, orderID + 1}
  /\ \A k \in 1 .. Len(answers) :
       /\ answers[k].request \in {0, k}
       /\ answers[k].order = IF answers[k].code = 0 THEN k ELSE 0

\* main starts its goroutines once, and gets past the wait when all have ended;
\* only a main that is through with that, or panics, closes the connection.
LifeInv ==
  /\ main = "start" => candles = "none" /\ ticks = "none" /\ trade = "none" /\ conn = "none"
  /\ main \in {"closing", "returned"} => GroupEnded
  /\ conn = "closed" => main \in {"returned", "panicking"}

IInv == TypeOK /\ GeneratorInv /\ DeskInv /\ LifeInv

-----------------------------------------------------------------------------
(* Minutes. *)

\* The minute of t is the one that t lies in.
LEMMA MinuteIs ==
  ASSUME NEW t \in Int, NEW q \in Int, q * Minute <= t, t < q * Minute + Minute
  PROVE  MinuteOf(t) = q
<1>1. PICK r \in 0 .. Minute - 1 : t = q * Minute + r
  <2>1. PICK m \in Int : m = q * Minute
    BY CandleAssumption
  <2>2. t - m \in 0 .. Minute - 1 /\ t = m + (t - m)
    BY <2>1, CandleAssumption
  <2> QED BY <2>1, <2>2
<1> QED BY <1>1, CandleAssumption, QuotientIsUnique DEF MinuteOf

\* A time lies in its minute, and Truncate goes back to the start of that.
LEMMA MinuteBounds ==
  ASSUME NEW t \in Nat
  PROVE  /\ MinuteOf(t) \in Nat
         /\ MinuteOf(t) * Minute \in Nat
         /\ Truncate(t) = MinuteOf(t) * Minute
         /\ MinuteOf(t) * Minute <= t /\ t < MinuteOf(t) * Minute + Minute
<1>1. PICK q \in Nat : q = t \div Minute
  BY CandleAssumption
<1>2. PICK r \in 0 .. Minute - 1 : r = t % Minute
  BY CandleAssumption
<1>3. t = q * Minute + r
  BY <1>1, <1>2, CandleAssumption, DivisionRemainder
<1>4. PICK m \in Nat : m = q * Minute
  BY CandleAssumption
<1>5. MinuteOf(t) = q /\ Truncate(t) = t - r
  BY <1>1, <1>2 DEF MinuteOf, Truncate
<1>6. t = m + r
  BY <1>3, <1>4
<1>7. m <= t /\ t < m + Minute /\ Truncate(t) = m
  BY <1>2, <1>5, <1>6, CandleAssumption
<1> QED BY <1>4, <1>5, <1>7

LEMMA MinuteType ==
  ASSUME NEW t \in Nat
  PROVE  MinuteOf(t) \in Nat
BY MinuteBounds

\* A later time has no earlier minute.
LEMMA MinuteMonotone ==
  ASSUME NEW s \in Nat, NEW t \in Nat, s <= t
  PROVE  MinuteOf(s) <= MinuteOf(t)
<1> SUFFICES ASSUME MinuteOf(s) > MinuteOf(t) PROVE FALSE
  BY MinuteBounds
<1>1. PICK p \in Nat, q \in Nat : p = MinuteOf(s) /\ q = MinuteOf(t)
  BY MinuteBounds
<1>2. p * Minute <= t /\ t < q * Minute + Minute
  BY <1>1, MinuteBounds
<1>3. p >= q + 1 /\ Minute > 0
  BY <1>1, CandleAssumption
<1>4. p * Minute >= q * Minute + Minute
  <2>1. PICK d \in Nat : p = q + 1 + d
    BY <1>3
  <2> QED BY <2>1, CandleAssumption
<1>5. PICK x \in Int, y \in Int : x = p * Minute /\ y = q * Minute
  BY CandleAssumption
<1>6. x <= t /\ t < y + Minute /\ x >= y + Minute
  BY <1>2, <1>4, <1>5
<1> QED BY <1>6, CandleAssumption

\* Around the start of a minute.
LEMMA OnTheMinute ==
  ASSUME NEW b \in Nat, OnMinute(b)
  PROVE  /\ \A t \in Nat : t < b => MinuteOf(t) < MinuteOf(b)
         /\ \A t \in Nat : b <= t /\ t < b + Minute => MinuteOf(t) = MinuteOf(b)
         /\ OnMinute(b + Minute) /\ MinuteOf(b + Minute) = MinuteOf(b) + 1
         /\ b >= Minute => OnMinute(b - Minute) /\ MinuteOf(b - Minute) = MinuteOf(b) - 1
         /\ Truncate(b) = b /\ b % Minute = 0
<1>1. PICK q \in Nat : q = MinuteOf(b) /\ b = q * Minute
  BY MinuteBounds DEF OnMinute
<1>2. ASSUME NEW t \in Nat, t < b PROVE MinuteOf(t) < MinuteOf(b)
  <2>1. MinuteOf(t) <= q /\ MinuteOf(t) \in Nat
    BY <1>1, <1>2, MinuteMonotone, MinuteBounds
  <2>2. MinuteOf(t) # q
    BY <1>1, <1>2, MinuteBounds
  <2> QED BY <1>1, <2>1, <2>2
<1>3. ASSUME NEW t \in Nat, b <= t, t < b + Minute PROVE MinuteOf(t) = MinuteOf(b)
  BY <1>1, <1>3, MinuteIs
<1>4. OnMinute(b + Minute) /\ MinuteOf(b + Minute) = MinuteOf(b) + 1
  <2>1. (q + 1) * Minute = b + Minute
    BY <1>1, CandleAssumption
  <2>2. MinuteOf(b + Minute) = q + 1
    BY <2>1, CandleAssumption, MinuteIs
  <2> QED BY <1>1, <2>1, <2>2 DEF OnMinute
<1>5. ASSUME b >= Minute PROVE OnMinute(b - Minute) /\ MinuteOf(b - Minute) = MinuteOf(b) - 1
  <2>1. (q - 1) * Minute = b - Minute
    BY <1>1, CandleAssumption
  <2>2. MinuteOf(b - Minute) = q - 1
    BY <2>1, CandleAssumption, MinuteIs
  <2> QED BY <1>1, <2>1, <2>2 DEF OnMinute
<1>6. Truncate(b) = b /\ b % Minute = 0
  <2>1. Truncate(b) = b
    BY <1>1, MinuteBounds
  <2>2. PICK r \in 0 .. Minute - 1 : r = b % Minute
    BY CandleAssumption, NextRemainder
  <2> QED BY <2>1, <2>2 DEF Truncate
<1> QED BY <1>2, <1>3, <1>4, <1>5, <1>6

LEMMA NotBefore ==
  ASSUME NEW b \in Nat, OnMinute(b), NEW t \in Nat, MinuteOf(b) <= MinuteOf(t)
  PROVE  b <= t
<1> SUFFICES ASSUME t < b PROVE FALSE
  OBVIOUS
<1>1. MinuteOf(t) < MinuteOf(b)
  BY OnTheMinute
<1> QED BY <1>1, MinuteType

\* What PeriodicScheduler and the generator rely on of Truncate.
LEMMA TruncateToMinute ==
  ASSUME NEW t \in Nat
  PROVE  /\ Truncate(t) \in Nat /\ Truncate(t) <= t /\ t < Truncate(t) + Minute
         /\ OnMinute(Truncate(t)) /\ MinuteOf(Truncate(t)) = MinuteOf(t)
<1>1. PICK q \in Nat : q = MinuteOf(t) /\ Truncate(t) = q * Minute /\ q * Minute \in Nat
  BY MinuteBounds
<1>2. MinuteOf(Truncate(t)) = q
  BY <1>1, CandleAssumption, MinuteIs
<1> QED BY <1>1, <1>2, MinuteBounds DEF OnMinute

\* As long as no minute begins the minute stays the same.
LEMMA SameMinute ==
  ASSUME NEW t \in Nat, (t + 1) % Minute # 0
  PROVE  MinuteOf(t + 1) = MinuteOf(t)
<1>1. Truncate(t) <= t + 1 /\ t + 1 < Truncate(t) + Minute
  <2>1. PICK r \in 0 .. Minute - 1 : r = t % Minute
    BY CandleAssumption, NextRemainder
  <2>2. PICK n \in 0 .. Minute - 1 : n = (t + 1) % Minute
    <3>1. t + 1 \in Nat
      OBVIOUS
    <3> QED BY <3>1, CandleAssumption, NextRemainder
  <2>3. n = r + 1
    BY <2>1, <2>2, CandleAssumption, NextRemainder
  <2>4. Truncate(t) = t - r
    BY <2>1 DEF Truncate
  <2> QED BY <2>1, <2>2, <2>3, <2>4, CandleAssumption
<1> QED BY <1>1, TruncateToMinute, OnTheMinute
-----------------------------------------------------------------------------
(* The generator. *)

\* A candle for a later minute than the last one, and for the very next one
\* if the generator is not behind.
LEMMA AppendCandle ==
  ASSUME published \in Seq(0 .. MaxClock), MinutesIncrease, GapOnlyWhenBehind, NEW t \in 0 .. MaxClock,
         published # <<>> => MinuteOf(LastPublished) < MinuteOf(t),
         published # <<>> /\ ~behind => MinuteOf(t) = MinuteOf(LastPublished) + 1,
         published' = Append(published, t), behind' = behind
  PROVE  /\ MinutesIncrease' /\ GapOnlyWhenBehind' /\ published' \in Seq(0 .. MaxClock)
         /\ LastPublished' = t /\ Len(published') = Len(published) + 1
         /\ \A k \in 1 .. Len(published) : published'[k] = published[k]
<1>1. /\ published' \in Seq(0 .. MaxClock) /\ Len(published') = Len(published) + 1 /\ Len(published) \in Nat
      /\ \A k \in 1 .. Len(published) : published'[k] = published[k]
      /\ published'[Len(published) + 1] = t
  BY AppendProperties
<1>2. ASSUME NEW k \in 1 .. Len(published') - 1, k = Len(published)
      PROVE  published # <<>> /\ published'[k] = LastPublished /\ published'[k + 1] = t
  BY <1>1, <1>2 DEF LastPublished
<1>3. ASSUME NEW k \in 1 .. Len(published') - 1, k # Len(published)
      PROVE  k \in 1 .. Len(published) - 1 /\ published'[k] = published[k] /\ published'[k + 1] = published[k + 1]
  BY <1>1, <1>3
<1>4. MinutesIncrease'
  BY <1>2, <1>3 DEF MinutesIncrease
<1>5. GapOnlyWhenBehind'
  BY <1>2, <1>3 DEF GapOnlyWhenBehind
<1> QED BY <1>1, <1>4, <1>5 DEF LastPublished

\* What has been published are times of the clock.
LEMMA CandleTimes ==
  ASSUME GeneratorTypeOK
  PROVE  /\ Len(published) \in Nat
         /\ \A k \in 1 .. Len(published) : published[k] \in 0 .. MaxClock
         /\ Len(published) > 0 => LastPublished \in 0 .. MaxClock
<1>1. Len(published) \in Nat /\ \A k \in 1 .. Len(published) : published[k] \in 0 .. MaxClock
  BY LenProperties, ElementOfSeq DEF GeneratorTypeOK
<1> QED BY <1>1 DEF LastPublished

LEMMA TickStep ==
  ASSUME GeneratorInv, Tick
  PROVE  GeneratorInv'
<1> USE DEF GeneratorInv, GeneratorTypeOK, Tick
<1>1. GeneratorTypeOK' /\ MinutesIncrease' /\ GapOnlyWhenBehind' /\ LastPublished' = LastPublished
  BY CandleAssumption DEF MinutesIncrease, GapOnlyWhenBehind, LastPublished
<1>2. BegunOK'
  BY CandleAssumption DEF BegunOK
<1>3. TimerOK'
  BY <1>1, CandleTimes DEF TimerOK
<1>4. PaceOK'
  <2> SUFFICES ASSUME ~behind' PROVE PaceOK'
    BY DEF PaceOK
  <2>1. candles \in {"initial", "schedule", "publish"} => (clock + 1) % Minute # 0
    OBVIOUS
  <2>2. candles \in {"initial", "schedule"} => MinuteOf(clock') = MinuteOf(clock)
    BY <2>1, SameMinute
  <2>3. candles = "publish" => clock + 1 # timer + Minute
    <3> SUFFICES ASSUME candles = "publish" PROVE clock + 1 # timer + Minute
      OBVIOUS
    <3>1. OnMinute(timer) /\ timer \in Nat
      BY CandleAssumption DEF TimerOK
    <3>2. OnMinute(timer + Minute) /\ timer + Minute \in Nat
      BY <3>1, OnTheMinute, CandleAssumption
    <3> QED BY <2>1, <3>2, OnTheMinute
  <2>4. candles = "select" => clock' < timer + Minute
    BY CandleAssumption
  <2> QED BY <1>1, <2>2, <2>3, <2>4, CandleAssumption DEF PaceOK
<1> QED BY <1>1, <1>2, <1>3, <1>4

LEMMA ReadNowStep ==
  ASSUME GeneratorInv, ReadNow
  PROVE  GeneratorInv'
<1> USE DEF GeneratorInv, GeneratorTypeOK, ReadNow
<1>1. /\ now' = Truncate(clock) /\ now' \in Nat /\ now' <= clock /\ clock < now' + Minute
      /\ OnMinute(now') /\ MinuteOf(now') = MinuteOf(clock)
  BY TruncateToMinute
<1>2. 2 * Minute <= now'
  <2>1. OnMinute(2 * Minute) /\ 2 * Minute \in Nat
    <3>1. MinuteOf(2 * Minute) = 2
      BY CandleAssumption, MinuteIs
    <3> QED BY <3>1, CandleAssumption DEF OnMinute
  <2>2. MinuteOf(2 * Minute) <= MinuteOf(now')
    BY <1>1, <2>1, MinuteMonotone DEF BegunOK
  <2> QED BY <1>1, <2>1, <2>2, NotBefore
<1>3. from' = now' - 2 * Minute
  <2>1. PICK n \in Nat, m \in Nat, l \in Nat :
          n = now' /\ m = n - Minute /\ l = m - Minute /\ OnMinute(n)
    BY <1>1, <1>2, CandleAssumption
  <2>2. OnMinute(m)
    BY <2>1, OnTheMinute, CandleAssumption
  <2>3. OnMinute(l)
    BY <2>1, <2>2, OnTheMinute, CandleAssumption
  <2>4. now' - 2 * Minute = l
    BY <2>1, CandleAssumption
  <2> QED BY <2>3, <2>4, OnTheMinute
<1>4. GeneratorTypeOK'
  BY <1>1, <1>2, <1>3, CandleAssumption
<1>5. BegunOK'
  BY <1>1, <1>2, <1>3 DEF BegunOK
<1>6. TimerOK' /\ PaceOK'
  BY <1>1 DEF TimerOK, PaceOK
<1>7. MinutesIncrease' /\ GapOnlyWhenBehind'
  BY DEF MinutesIncrease, GapOnlyWhenBehind
<1> QED BY <1>4, <1>5, <1>6, <1>7

LEMMA InitialStep ==
  ASSUME GeneratorInv, Initial
  PROVE  GeneratorInv'
<1> USE DEF GeneratorInv, GeneratorTypeOK, Initial
<1>1. now \in Nat /\ OnMinute(now) /\ 2 * Minute <= now /\ now <= clock /\ Minute \in Nat /\ Minute > 0
  BY CandleAssumption DEF BegunOK
<1>2. CASE from < now
  <2>1. published' = Append(published, from') /\ from' = from + Minute /\ UNCHANGED <<clock, candles, now, timer, fired, behind>>
    BY <1>2
  <2>2. \/ from' = now - Minute /\ published = <<>> /\ published' = <<now - Minute>>
        \/ from' = now /\ published = <<now - Minute>> /\ published' = <<now - Minute, now>>
    <3>1. CASE from = now - 2 * Minute /\ published = <<>>
      <4>1. from' = now - Minute
        BY <1>1, <2>1, <3>1
      <4> QED BY <2>1, <3>1, <4>1
    <3>2. CASE from = now - Minute /\ published = <<now - Minute>>
      <4>1. from' = now
        BY <1>1, <2>1, <3>2
      <4>2. published' = Append(published, now)
        BY <2>1, <4>1
      <4> QED BY <1>1, <3>2, <4>1, <4>2, AppendToOne
    <3>3. CASE from = now
      BY <1>1, <1>2, <3>3
    <3> QED BY <1>2, <3>1, <3>2, <3>3 DEF BegunOK
  <2>3. from' \in 0 .. MaxClock /\ from' <= clock
    <3>1. from' = now - Minute \/ from' = now
      BY <2>2
    <3>2. clock <= MaxClock
      OBVIOUS
    <3> QED BY <1>1, <3>1, <3>2, CandleAssumption
  <2>4. published # <<>> => MinuteOf(from') = MinuteOf(LastPublished) + 1
    BY <1>1, <2>2, OnTheMinute DEF LastPublished
  <2>5. published # <<>> => MinuteOf(LastPublished) \in Int
    <3>1. published # <<>> => LastPublished = now - Minute /\ now - Minute \in Nat
      BY <1>1, <2>2 DEF LastPublished
    <3> QED BY <3>1, MinuteBounds
  <2>6. /\ MinutesIncrease' /\ GapOnlyWhenBehind' /\ published' \in Seq(0 .. MaxClock)
        /\ LastPublished' = from' /\ Len(published') = Len(published) + 1
        /\ \A k \in 1 .. Len(published) : published'[k] = published[k]
    BY <2>1, <2>3, <2>4, <2>5, AppendCandle
  <2>7. GeneratorTypeOK'
    BY <2>1, <2>3, <2>6
  <2>8. BegunOK'
    BY <1>2, <2>1, <2>2 DEF BegunOK
  <2>9. TimerOK' /\ PaceOK'
    BY <1>1, <1>2, <2>1, <2>2, <2>6 DEF TimerOK, PaceOK
  <2> QED BY <2>6, <2>7, <2>8, <2>9
<1>3. CASE ~(from < now)
  <2>1. candles' = "schedule" /\ UNCHANGED <<clock, from, now, timer, fired, behind, published>>
    BY <1>3
  <2>2. published = <<now - Minute, now>>
    BY <1>1, <1>3 DEF BegunOK
  <2>3. GeneratorTypeOK' /\ MinutesIncrease' /\ GapOnlyWhenBehind' /\ LastPublished' = now
    BY <2>1, <2>2 DEF MinutesIncrease, GapOnlyWhenBehind, LastPublished
  <2>4. BegunOK' /\ TimerOK' /\ PaceOK'
    BY <2>1, <2>2, <2>3 DEF BegunOK, TimerOK, PaceOK
  <2> QED BY <2>3, <2>4
<1> QED BY <1>2, <1>3

LEMMA ScheduleStep ==
  ASSUME GeneratorInv, Schedule
  PROVE  GeneratorInv'
<1> USE DEF GeneratorInv, GeneratorTypeOK, Schedule
<1>1. /\ Truncate(clock) \in Nat /\ Truncate(clock) <= clock /\ clock < Truncate(clock) + Minute
      /\ OnMinute(Truncate(clock)) /\ MinuteOf(Truncate(clock)) = MinuteOf(clock)
  BY TruncateToMinute
<1>2. /\ timer' \in 0 .. MaxClock + Minute /\ clock < timer'
      /\ OnMinute(timer') /\ MinuteOf(timer') = MinuteOf(clock) + 1
  BY <1>1, OnTheMinute, CandleAssumption
<1>3. GeneratorTypeOK' /\ MinutesIncrease' /\ GapOnlyWhenBehind' /\ LastPublished' = LastPublished
  BY <1>2 DEF MinutesIncrease, GapOnlyWhenBehind, LastPublished
<1>4. BegunOK'
  BY DEF BegunOK
<1>5. LastPublished \in Nat /\ LastPublished <= clock
  <2>1. Len(published) \in 1 .. Len(published) /\ LastPublished \in Nat
    BY CandleTimes DEF BegunOK
  <2> QED BY <2>1 DEF TimerOK, LastPublished
<1>6. TimerOK'
  BY <1>2, <1>3, <1>5 DEF TimerOK
<1>7. PaceOK'
  BY <1>1, <1>2, <1>3, CandleAssumption DEF PaceOK
<1> QED BY <1>3, <1>4, <1>6, <1>7

\* The timer fires or is received, or the goroutine is started or ends.
LEMMA WaitingStep ==
  ASSUME GeneratorInv,
         \/ Fire \/ Receive
         \/ /\ \/ candles = "none" /\ candles' = "start"
               \/ candles = "select" /\ candles' = "ended"
            /\ UNCHANGED <<clock, now, from, timer, fired, published, behind>>
         \/ UNCHANGED generator
  PROVE  GeneratorInv'
<1> USE DEF GeneratorInv, GeneratorTypeOK, Fire, Receive, generator
<1>1. UNCHANGED <<clock, now, from, timer, published, behind>>
  OBVIOUS
<1>2. GeneratorTypeOK' /\ MinutesIncrease' /\ GapOnlyWhenBehind' /\ LastPublished' = LastPublished
  BY <1>1 DEF MinutesIncrease, GapOnlyWhenBehind, LastPublished
<1>3. BegunOK'
  BY <1>1 DEF BegunOK
<1>4. TimerOK'
  BY <1>1, <1>2, CandleAssumption DEF TimerOK, NotFired
<1>5. PaceOK'
  BY <1>1, <1>2 DEF PaceOK
<1> QED BY <1>2, <1>3, <1>4, <1>5

LEMMA PublishCandleStep ==
  ASSUME GeneratorInv, PublishCandle
  PROVE  GeneratorInv'
<1> USE DEF GeneratorInv, GeneratorTypeOK, PublishCandle
<1>1. /\ fired # NotFired /\ timer <= fired /\ fired <= clock /\ fired \in 0 .. MaxClock
      /\ OnMinute(timer) /\ LastPublished < timer /\ timer \in Nat
  BY CandleAssumption DEF TimerOK, NotFired
<1>2. LastPublished \in Nat /\ Len(published) >= 2 /\ Len(published) \in Nat
  BY CandleTimes DEF BegunOK
<1>3. /\ MinuteOf(LastPublished) < MinuteOf(timer) /\ MinuteOf(timer) <= MinuteOf(fired)
      /\ MinuteOf(LastPublished) \in Nat /\ MinuteOf(timer) \in Nat /\ MinuteOf(fired) \in Nat
  <2>1. MinuteOf(LastPublished) < MinuteOf(timer)
    BY <1>1, <1>2, OnTheMinute
  <2>2. MinuteOf(timer) <= MinuteOf(fired)
    BY <1>1, MinuteMonotone
  <2> QED BY <1>1, <1>2, <2>1, <2>2, MinuteType
<1>4. ~behind => /\ MinuteOf(fired) = MinuteOf(timer) /\ MinuteOf(clock) = MinuteOf(timer)
                 /\ MinuteOf(timer) = MinuteOf(LastPublished) + 1
  <2>1. ~behind => clock < timer + Minute /\ MinuteOf(timer) = MinuteOf(LastPublished) + 1
    BY DEF PaceOK
  <2> QED BY <1>1, <2>1, OnTheMinute, CandleAssumption
<1>5. /\ MinutesIncrease' /\ GapOnlyWhenBehind' /\ published' \in Seq(0 .. MaxClock)
      /\ LastPublished' = fired /\ Len(published') = Len(published) + 1
      /\ \A k \in 1 .. Len(published) : published'[k] = published[k]
  BY <1>1, <1>3, <1>4, AppendCandle
<1>6. GeneratorTypeOK'
  BY <1>5, CandleAssumption DEF NotFired
<1>7. BegunOK'
  BY <1>2, <1>5 DEF BegunOK
<1>8. TimerOK'
  <2>1. \A k \in 1 .. Len(published') : published'[k] <= clock
    <3>1. published'[Len(published) + 1] = fired
      BY <1>5 DEF LastPublished
    <3> QED BY <1>1, <1>2, <1>5, <3>1 DEF TimerOK
  <2> QED BY <2>1 DEF TimerOK
<1>9. PaceOK'
  BY <1>4, <1>5 DEF PaceOK
<1> QED BY <1>5, <1>6, <1>7, <1>8, <1>9

-----------------------------------------------------------------------------
(* The trade goroutine. *)

LEMMA DeskTypes ==
  ASSUME TypeOK
  PROVE  /\ Len(inbox) \in Nat /\ Len(answers) \in Nat /\ orderID \in Nat /\ sent \in Nat
         /\ \A k \in 1 .. Len(inbox) : inbox[k] \in Messages
         /\ \A k \in 1 .. Len(answers) :
              answers[k] \in [request : 0 .. MaxRequests, order : 0 .. MaxRequests, code : {0, 1}]
<1> DEFINE Answers == [request : 0 .. MaxRequests, order : 0 .. MaxRequests, code : {0, 1}]
<1>1. /\ inbox \in Seq(Messages) /\ answers \in Seq(Answers)
      /\ orderID \in 0 .. MaxRequests /\ sent \in 0 .. MaxRequests
  BY DEF TypeOK
<1>2. /\ Len(inbox) \in Nat /\ Len(answers) \in Nat
      /\ \A k \in 1 .. Len(inbox) : inbox[k] \in Messages
      /\ \A k \in 1 .. Len(answers) : answers[k] \in Answers
  <2> HIDE DEF Answers
  <2> QED BY <1>1, LenProperties, ElementOfSeq
<1>3. orderID \in Nat /\ sent \in Nat
  BY <1>1, MockAssumption
<1> QED BY <1>2, <1>3

\* Wherever the goroutine goes without a message, the desk stays as it is.
LEMMA DeskUntouched ==
  ASSUME DeskInv, UNCHANGED <<inbox, message, orderID, sent, answers>>,
         trade' = "answering" <=> trade = "answering"
  PROVE  DeskInv'
BY DEF DeskInv, Asking

LEMMA NextMsgStep ==
  ASSUME TypeOK, DeskInv, NextMsg
  PROVE  /\ DeskInv'
         /\ inbox' \in Seq(Messages) /\ message' \in Messages
<1>1. /\ trade = "reading" /\ trade' = "answering" /\ inbox # <<>>
      /\ message' = Head(inbox) /\ inbox' = Tail(inbox)
      /\ UNCHANGED <<orderID, sent, answers>>
  BY DEF NextMsg
<1>2. inbox \in Seq(Messages)
  BY DEF TypeOK
<1>3. /\ Len(inbox) \in Nat /\ Len(inbox') = Len(inbox) - 1 /\ Len(inbox) >= 1
      /\ \A k \in 1 .. Len(inbox') : inbox'[k] = inbox[k + 1]
      /\ message' = inbox[1] /\ inbox' \in Seq(Messages) /\ message' \in Messages
  BY <1>1, <1>2, HeadTailProperties
<1>4. Asking = 0 /\ Asking' = 1
  BY <1>1 DEF Asking
<1>5. message' \in {Malformed, orderID + 1}
  BY <1>3, <1>4, DeskTypes DEF DeskInv
<1>6. \A k \in 1 .. Len(inbox') : inbox'[k] \in {Malformed, orderID + 1 + k}
  <2> TAKE k \in 1 .. Len(inbox')
  <2>1. k + 1 \in 1 .. Len(inbox)
    BY <1>3
  <2>2. inbox[k + 1] \in {Malformed, orderID + 0 + (k + 1)}
    BY <1>4, <2>1 DEF DeskInv
  <2>3. orderID + 0 + (k + 1) = orderID + 1 + k
    BY <1>3, DeskTypes
  <2> QED BY <1>3, <2>2, <2>3
<1>7. sent' = orderID' + 1 + Len(inbox')
  BY <1>1, <1>3, <1>4, DeskTypes DEF DeskInv
<1> QED BY <1>1, <1>3, <1>4, <1>5, <1>6, <1>7 DEF DeskInv

\* What Answer appends.
LEMMA AnswerAppends ==
  ASSUME TypeOK, DeskInv, Answer
  PROVE  \E a \in [request : 0 .. MaxRequests, order : 0 .. MaxRequests, code : {0, 1}] :
           /\ answers' = Append(answers, a)
           /\ a.request = IF message = Malformed THEN 0 ELSE message
           /\ a.request \in {0, orderID + 1}
           /\ a.order = IF a.code = 0 THEN orderID + 1 ELSE 0
<1> DEFINE id == IF message = Malformed THEN 0 ELSE message
<1>1. trade = "answering" /\ orderID \in Nat /\ orderID + 1 \in 0 .. MaxRequests
  BY DeskTypes, MockAssumption DEF Answer, TypeOK, DeskInv, Asking
<1>2. id \in 0 .. MaxRequests /\ id \in {0, orderID + 1}
  BY <1>1, MockAssumption DEF TypeOK, DeskInv, Messages, RequestIDs
<1>3. CASE answers' = Append(answers, [request |-> id, order |-> orderID + 1, code |-> 0])
  <2> DEFINE a == [request |-> id, order |-> orderID + 1, code |-> 0]
  <2>1. a \in [request : 0 .. MaxRequests, order : 0 .. MaxRequests, code : {0, 1}]
    BY <1>1, <1>2
  <2> WITNESS a \in [request : 0 .. MaxRequests, order : 0 .. MaxRequests, code : {0, 1}]
  <2> QED BY <1>2, <1>3
<1>4. CASE answers' = Append(answers, [request |-> id, order |-> 0, code |-> 1])
  <2> DEFINE a == [request |-> id, order |-> 0, code |-> 1]
  <2>1. a \in [request : 0 .. MaxRequests, order : 0 .. MaxRequests, code : {0, 1}]
    BY <1>2, MockAssumption
  <2> WITNESS a \in [request : 0 .. MaxRequests, order : 0 .. MaxRequests, code : {0, 1}]
  <2> QED BY <1>2, <1>4
<1> QED BY <1>3, <1>4 DEF Answer

LEMMA AnswerStep ==
  ASSUME TypeOK, DeskInv, Answer
  PROVE  DeskInv' /\ TypeOK'
<1> DEFINE Answers == [request : 0 .. MaxRequests, order : 0 .. MaxRequests, code : {0, 1}]
<1>1. PICK a \in Answers :
        /\ answers' = Append(answers, a)
        /\ a.request \in {0, orderID + 1}
        /\ a.order = IF a.code = 0 THEN orderID + 1 ELSE 0
  BY AnswerAppends
<1>2. /\ trade = "answering" /\ trade' = "looking" /\ orderID' = orderID + 1
      /\ message' = Malformed /\ UNCHANGED <<life, ticks, generator, inbox, sent>>
  BY DEF Answer
<1>3. answers \in Seq(Answers)
  BY DEF TypeOK
<1>4. /\ answers' \in Seq(Answers) /\ Len(answers') = orderID + 1 /\ answers'[orderID + 1] = a
      /\ \A k \in 1 .. orderID : answers'[k] = answers[k]
  <2> HIDE DEF Answers
  <2> QED BY <1>1, <1>3, AppendProperties DEF DeskInv
<1>5. DeskInv'
  <2>1. Asking = 1 /\ Asking' = 0 /\ orderID \in Nat /\ sent \in Nat /\ Len(inbox) \in Nat
    BY <1>2, DeskTypes DEF Asking
  <2>2. Len(answers') = orderID' /\ sent' = orderID' + Asking' + Len(inbox')
    BY <1>2, <1>4, <2>1 DEF DeskInv
  <2>3. \A k \in 1 .. Len(inbox') : inbox'[k] \in {Malformed, orderID' + Asking' + k}
    BY <1>2, <2>1 DEF DeskInv
  <2>4. \A k \in 1 .. Len(answers') :
          /\ answers'[k].request \in {0, k}
          /\ answers'[k].order = IF answers'[k].code = 0 THEN k ELSE 0
    <3> TAKE k \in 1 .. Len(answers')
    <3>1. CASE k = orderID + 1
      BY <1>1, <1>4, <3>1
    <3>2. CASE k # orderID + 1
      <4>1. k \in 1 .. Len(answers) /\ answers'[k] = answers[k]
        BY <1>4, <2>1, <3>2 DEF DeskInv
      <4> QED BY <4>1 DEF DeskInv
    <3> QED BY <3>1, <3>2
  <2> QED BY <1>2, <2>2, <2>3, <2>4 DEF DeskInv
<1>6. TypeOK'
  <2>1. orderID + 1 \in 0 .. MaxRequests
    BY <1>2, DeskTypes, MockAssumption DEF TypeOK, DeskInv, Asking
  <2> QED BY <1>2, <1>4, <2>1 DEF TypeOK, life, generator, GeneratorTypeOK, Messages
<1> QED BY <1>5, <1>6

LEMMA SendStep ==
  ASSUME TypeOK, DeskInv, Send
  PROVE  DeskInv' /\ TypeOK'
<1>1. PICK m \in {sent + 1, Malformed} : inbox' = Append(inbox, m)
  BY DEF Send
<1>2. /\ sent' = sent + 1 /\ sent < MaxRequests
      /\ UNCHANGED <<life, ticks, generator, trade, message, orderID, answers>>
  BY DEF Send
<1>3. m \in Messages /\ inbox \in Seq(Messages) /\ sent + 1 \in 0 .. MaxRequests
  BY <1>2, MockAssumption DEF TypeOK, Messages, RequestIDs
<1>4. /\ inbox' \in Seq(Messages) /\ Len(inbox') = Len(inbox) + 1 /\ inbox'[Len(inbox) + 1] = m
      /\ \A k \in 1 .. Len(inbox) : inbox'[k] = inbox[k]
  BY <1>1, <1>3, AppendProperties
<1>5. DeskInv'
  <2>1. Asking' = Asking /\ Asking \in Nat
    BY <1>2 DEF Asking
  <2>2. sent' = orderID' + Asking' + Len(inbox')
    <3>1. orderID \in Nat /\ Len(inbox) \in Nat
      BY DeskTypes
    <3>2. sent' = sent + 1 /\ sent = orderID + Asking + Len(inbox) /\ orderID' = orderID
      BY <1>2 DEF DeskInv
    <3> QED BY <1>4, <2>1, <3>1, <3>2
  <2>3. \A k \in 1 .. Len(inbox') : inbox'[k] \in {Malformed, orderID' + Asking' + k}
    <3> TAKE k \in 1 .. Len(inbox')
    <3>1. CASE k = Len(inbox) + 1
      <4>1. sent + 1 = orderID + Asking + k
        BY <2>1, <3>1, DeskTypes DEF DeskInv
      <4> QED BY <1>1, <1>2, <1>4, <2>1, <3>1, <4>1
    <3>2. CASE k # Len(inbox) + 1
      <4>1. k \in 1 .. Len(inbox) /\ inbox'[k] = inbox[k]
        BY <1>4, <3>2, DeskTypes
      <4> QED BY <1>2, <2>1, <4>1 DEF DeskInv
    <3> QED BY <3>1, <3>2
  <2> QED BY <1>2, <2>2, <2>3 DEF DeskInv
<1>6. TypeOK'
  BY <1>2, <1>3, <1>4 DEF TypeOK, life, generator, GeneratorTypeOK
<1> QED BY <1>5, <1>6

-----------------------------------------------------------------------------
(* The steps. *)

LEMMA InitIInv == Init => IInv
<1> SUFFICES ASSUME Init PROVE IInv
  OBVIOUS
<1>1. GeneratorTypeOK
  <2>1. clock \in 0 .. MaxClock /\ 0 \in 0 .. MaxClock /\ 0 \in 0 .. MaxClock + Minute /\ -1 \in -1 .. MaxClock
    BY CandleAssumption DEF Init, GeneratorInit
  <2>2. /\ candles = "none" /\ now = 0 /\ from = 0 /\ timer = 0 /\ fired = -1
        /\ published = <<>> /\ behind = FALSE
    BY DEF Init, GeneratorInit, NotFired
  <2>3. published \in Seq(0 .. MaxClock)
    BY <2>2
  <2> QED BY <2>1, <2>2, <2>3 DEF GeneratorTypeOK
<1>2. GeneratorInv
  BY <1>1, CandleAssumption
  DEF Init, GeneratorInit, GeneratorInv, BegunOK, TimerOK, PaceOK, MinutesIncrease, GapOnlyWhenBehind
<1>3. TypeOK
  <2>1. left \in 0 .. MaxSymbols /\ 0 \in 0 .. MaxRequests /\ message \in Messages
    BY MockAssumption DEF Init, Messages
  <2>2. inbox \in Seq(Messages)
    BY DEF Init
  <2>3. answers \in Seq([request : 0 .. MaxRequests, order : 0 .. MaxRequests, code : {0, 1}])
    BY DEF Init
  <2> QED BY <1>1, <2>1, <2>2, <2>3 DEF Init, TypeOK
<1>4. DeskInv /\ LifeInv
  BY DEF Init, GeneratorInit, DeskInv, Asking, LifeInv
<1> QED BY <1>2, <1>3, <1>4 DEF IInv

LEMMA MainStep ==
  ASSUME IInv, Main
  PROVE  IInv'
<1> USE DEF IInv
<1>1. CASE Start
  <2>1. main = "start" /\ candles = "none" /\ ticks = "none" /\ trade = "none" /\ conn = "none"
    BY <1>1 DEF Start, LifeInv
  <2>2. GeneratorInv'
    BY <1>1, <2>1, WaitingStep DEF Start, generator
  <2>3. TypeOK'
    BY <1>1, <2>2 DEF Start, TypeOK, GeneratorInv
  <2>4. DeskInv'
    BY <1>1, <2>1, DeskUntouched DEF Start
  <2>5. LifeInv'
    BY <1>1, <2>1 DEF Start, LifeInv
  <2> QED BY <2>2, <2>3, <2>4, <2>5
<1>2. CASE ~Start
  <2>1. UNCHANGED <<ticks, generator, desk>> /\ main # "start" /\ (main' # "start" \/ main' = main)
    BY <1>2 DEF Main, PublishSymbol, SymbolsPublished, GroupWait, Close, Exit
  <2>2. GeneratorInv' /\ DeskInv'
    BY <2>1, WaitingStep, DeskUntouched DEF desk
  <2>3. TypeOK'
    BY <1>2, <2>1, <2>2, MockAssumption
    DEF Main, PublishSymbol, SymbolsPublished, GroupWait, Close, Exit, TypeOK, GeneratorInv, desk
  <2>4. GroupEnded' <=> GroupEnded
    BY <2>1 DEF GroupEnded, generator, desk
  <2>5. LifeInv'
    BY <1>2, <2>1, <2>4
    DEF Main, PublishSymbol, SymbolsPublished, GroupWait, Close, Exit, LifeInv
  <2> QED BY <2>2, <2>3, <2>5
<1> QED BY <1>1, <1>2

\* What the generator and the clock do is nothing to the rest.
LEMMA CandlesStepStep ==
  ASSUME IInv, CandlesStep \/ CandlesEnd \/ Pass
  PROVE  IInv'
<1> USE DEF IInv
<1>1. UNCHANGED <<life, ticks, desk>>
  BY DEF CandlesStep, CandlesEnd, Pass
<1>2. GeneratorInv'
  BY TickStep, ReadNowStep, InitialStep, ScheduleStep, WaitingStep, PublishCandleStep
  DEF CandlesStep, CandlesEnd, Pass
<1>3. TypeOK' /\ DeskInv'
  BY <1>1, <1>2, DeskUntouched DEF TypeOK, GeneratorInv, life, desk
<1>4. candles \notin {"none", "ended"} \/ candles' = candles
  BY DEF CandlesStep, CandlesEnd, Pass, Tick, ReadNow, Schedule, Fire, Receive, Initial, PublishCandle
<1>5. LifeInv'
  BY <1>1, <1>4 DEF LifeInv, GroupEnded, life, desk
<1> QED BY <1>2, <1>3, <1>5

\* Steps that change no more than where the goroutines of ticks and trades are
\* and what has become of the context, the connection and the process.
LEMMA GoroutineStep ==
  ASSUME IInv, TypeOK', UNCHANGED <<main, left, generator, inbox, message, orderID, sent, answers>>,
         trade' = "answering" <=> trade = "answering",
         ticks \notin {"none", "ended"} \/ ticks' = ticks,
         trade \notin {"none", "ended", "refused", "failed"} \/ trade' = trade,
         conn' = conn \/ (conn = "open" /\ conn' = "lost")
  PROVE  IInv'
<1>1. GeneratorInv' /\ DeskInv'
  BY WaitingStep, DeskUntouched DEF IInv
<1>2. LifeInv'
  BY DEF IInv, LifeInv, GroupEnded, generator
<1> QED BY <1>1, <1>2 DEF IInv

LEMMA WorldStep ==
  ASSUME IInv, CandlesPanic \/ TicksEnd \/ TicksPanic \/ Signal \/ LoseConnection \/ AnswerPanics
  PROVE  IInv'
<1>1. TypeOK'
  <2> USE DEF IInv, TypeOK, GeneratorTypeOK, life, generator, desk
  <2>1. CASE TicksEnd
    BY <2>1 DEF TicksEnd
  <2>2. CASE Signal
    BY <2>2 DEF Signal
  <2>3. CASE LoseConnection
    BY <2>3 DEF LoseConnection
  <2>4. CASE Panic
    BY <2>4 DEF Panic
  <2> QED BY <2>1, <2>2, <2>3, <2>4 DEF CandlesPanic, TicksPanic, AnswerPanics
<1> QED
  BY <1>1, GoroutineStep
  DEF CandlesPanic, TicksEnd, TicksPanic, Signal, LoseConnection, AnswerPanics, Panic, life, desk

LEMMA TradeStep ==
  ASSUME IInv, Trade
  PROVE  IInv'
<1>1. CASE Subscribe \/ Look \/ NextMsgTimeout \/ NextMsgFails
  <2>1. TypeOK'
    BY <1>1
    DEF IInv, TypeOK, GeneratorTypeOK, Subscribe, Look, NextMsgTimeout, NextMsgFails, life, generator
  <2> QED
    BY <1>1, <2>1, GoroutineStep DEF Subscribe, Look, NextMsgTimeout, NextMsgFails, life
<1>2. CASE NextMsg
  <2>1. DeskInv' /\ inbox' \in Seq(Messages) /\ message' \in Messages
    BY <1>2, NextMsgStep DEF IInv
  <2>2. GeneratorInv'
    BY <1>2, WaitingStep DEF IInv, NextMsg
  <2>3. TypeOK'
    BY <1>2, <2>1, <2>2 DEF IInv, TypeOK, GeneratorInv, NextMsg, life
  <2>4. LifeInv'
    BY <1>2 DEF IInv, LifeInv, GroupEnded, NextMsg, life, generator
  <2> QED BY <2>1, <2>2, <2>3, <2>4 DEF IInv
<1>3. CASE Answer
  <2>1. DeskInv' /\ TypeOK'
    BY <1>3, AnswerStep DEF IInv
  <2>2. GeneratorInv'
    BY <1>3, WaitingStep DEF IInv, Answer
  <2>3. LifeInv'
    BY <1>3 DEF IInv, LifeInv, GroupEnded, Answer, life, generator
  <2> QED BY <2>1, <2>2, <2>3 DEF IInv
<1>4. CASE AnswerPanics
  BY <1>4, WorldStep
<1> QED BY <1>1, <1>2, <1>3, <1>4 DEF Trade

LEMMA StepIInv == IInv /\ [Next]_vars => IInv'
<1> SUFFICES ASSUME IInv, [Next]_vars PROVE IInv'
  OBVIOUS
<1>1. CASE Send
  <2>1. DeskInv' /\ TypeOK'
    BY <1>1, SendStep DEF IInv
  <2>2. GeneratorInv'
    BY <1>1, WaitingStep DEF IInv, Send
  <2>3. LifeInv'
    BY <1>1 DEF IInv, LifeInv, GroupEnded, Send, life, generator
  <2> QED BY <2>1, <2>2, <2>3 DEF IInv
<1>2. CASE UNCHANGED vars
  <2>1. TypeOK'
    BY <1>2 DEF IInv, TypeOK, GeneratorTypeOK, vars, life, generator, desk
  <2> QED BY <1>2, <2>1, GoroutineStep DEF vars, life, desk
<1> QED BY <1>1, <1>2, MainStep, CandlesStepStep, WorldStep, TradeStep DEF Next

LEMMA Invariance == Spec => []IInv
BY InitIInv, StepIInv, PTL DEF Spec

-----------------------------------------------------------------------------

\* Every variable keeps its type.
THEOREM TypeCorrect == Spec => []TypeOK
BY Invariance, PTL DEF IInv

\* The candles come in the order of their minutes, none twice, whatever the
\* length of the minute is in readings of the clock.
THEOREM MinuteOrder == Spec => []MinutesIncrease
BY Invariance, PTL DEF IInv, GeneratorInv

\* No minute is left out by a generator that was never late.
THEOREM NoGap == Spec => []GapOnlyWhenBehind
BY Invariance, PTL DEF IInv, GeneratorInv

\* main.go:157, 250-270: the deferred close of a main that does not panic comes
\* after the last goroutine, with every request that was read answered.
THEOREM CloseInOrder == Spec => []ClosedInOrder
<1>1. IInv => ClosedInOrder
  <2> SUFFICES ASSUME IInv, conn = "closed", main # "panicking"
               PROVE  GroupEnded /\ sent = Len(answers) + Len(inbox)
    BY DEF ClosedInOrder, GroupEnded
  <2>1. GroupEnded
    BY DEF IInv, LifeInv
  <2>2. Asking = 0
    BY <2>1 DEF GroupEnded, Asking
  <2> QED BY <2>1, <2>2, DeskTypes DEF IInv, DeskInv
<1> QED BY <1>1, Invariance, PTL

\* main.go:194, 210: an accepted order has the number of its answer.
THEOREM UniqueOrders == Spec => []OrderIDsAreUnique
<1>1. IInv => OrderIDsAreUnique
  <2> SUFFICES ASSUME IInv, NEW j \in DOMAIN answers, NEW k \in DOMAIN answers,
                      answers[j].code = 0, answers[j].order = answers[k].order
               PROVE  j = k
    BY DEF OrderIDsAreUnique
  <2>1. j \in 1 .. Len(answers) /\ k \in 1 .. Len(answers)
    BY LenProperties DEF IInv, TypeOK
  <2>2. answers[j].order = j /\ answers[k].order \in {0, k}
    BY <2>1 DEF IInv, DeskInv
  <2> QED BY <2>1, <2>2, DeskTypes DEF IInv
<1> QED BY <1>1, Invariance, PTL

\* main.go:205: an answer is for the message of its turn, or for none.
THEOREM SingleAnswers == Spec => []AnsweredOnce
<1>1. IInv => AnsweredOnce
  <2> SUFFICES ASSUME IInv, NEW j \in DOMAIN answers, NEW k \in DOMAIN answers,
                      answers[j].request # 0, answers[j].request = answers[k].request
               PROVE  j = k
    BY DEF AnsweredOnce
  <2>1. j \in 1 .. Len(answers) /\ k \in 1 .. Len(answers)
    BY LenProperties DEF IInv, TypeOK
  <2> QED BY <2>1 DEF IInv, DeskInv
<1> QED BY <1>1, Invariance, PTL

\* The first two candles are those of the minute before now and of now.
THEOREM FirstMinutes == Spec => []StartsWithTwoMinutes
<1>1. IInv => StartsWithTwoMinutes
  <2> SUFFICES ASSUME IInv, candles \notin {"none", "start", "initial"}
               PROVE  SubSeq(published, 1, 2) = <<now - Minute, now>>
    BY DEF StartsWithTwoMinutes
  <2>1. /\ Len(published) >= 2 /\ published[1] = now - Minute /\ published[2] = now
        /\ Len(published) \in Nat /\ \A k \in 1 .. Len(published) : published[k] \in 0 .. MaxClock
    BY CandleTimes DEF IInv, GeneratorInv, BegunOK, GeneratorTypeOK
  <2>2. \A k \in 1 .. 2 : published[k] \in 0 .. MaxClock
    BY <2>1
  <2>3. /\ SubSeq(published, 1, 2) \in Seq(0 .. MaxClock) /\ Len(SubSeq(published, 1, 2)) = 2
        /\ \A k \in 1 .. 2 : SubSeq(published, 1, 2)[k] = published[k]
    BY <2>2, SubSeqProperties
  <2>4. SubSeq(published, 1, 2) = <<SubSeq(published, 1, 2)[1], SubSeq(published, 1, 2)[2]>>
    BY <2>3, TwoElements
  <2> QED BY <2>1, <2>3, <2>4
<1> QED BY <1>1, Invariance, PTL

-----------------------------------------------------------------------------
(* The trade goroutine implements the desk. *)

Asked == (IF trade = "answering" THEN <<message>> ELSE <<>>) \o inbox

LEMMA AskedIs ==
  ASSUME TypeOK
  PROVE  /\ Asked \in Seq(Messages) /\ Len(Asked) = Asking + Len(inbox)
         /\ trade # "answering" => Asked = inbox
         /\ trade = "answering" => Asked = <<message>> \o inbox
<1>1. inbox \in Seq(Messages) /\ message \in Messages
  BY DEF TypeOK
<1>2. CASE trade = "answering"
  BY <1>1, <1>2, Prepended DEF Asked, Asking
<1>3. CASE trade # "answering"
  BY <1>1, <1>3, ConcatEmptySeq DEF Asked, Asking
<1> QED BY <1>2, <1>3

LEMMA SendAsks ==
  ASSUME IInv, IInv', Send
  PROVE  /\ UNCHANGED answers
         /\ \E m \in 1 .. Len(Asked) + Len(answers) + 1 \cup {Malformed} : Asked' = Append(Asked, m)
<1>1. PICK m \in {sent + 1, Malformed} : inbox' = Append(inbox, m)
  BY DEF Send
<1>2. UNCHANGED <<trade, message, answers>> /\ sent < MaxRequests
  BY DEF Send
<1>3. m \in Messages /\ inbox \in Seq(Messages) /\ message \in Messages
  BY <1>2, MockAssumption DEF IInv, TypeOK, Messages, RequestIDs
<1>4. sent + 1 = Len(Asked) + Len(answers) + 1 /\ sent \in Nat
  <2>1. Len(Asked) = Asking + Len(inbox) /\ Asking \in Nat
    BY AskedIs DEF IInv, Asking
  <2>2. sent = Len(answers) + Asking + Len(inbox)
    BY DEF IInv, DeskInv
  <2>3. Len(answers) \in Nat /\ Len(inbox) \in Nat /\ sent \in Nat
    BY DeskTypes DEF IInv
  <2> QED BY <2>1, <2>2, <2>3
<1>5. Asked' = Append(Asked, m)
  <2>1. CASE trade = "answering"
    BY <1>1, <1>2, <1>3, <2>1, Prepended DEF Asked
  <2>2. CASE trade # "answering"
    <3>1. Asked = inbox /\ Asked' = inbox'
      <4>1. inbox' \in Seq(Messages)
        BY DEF IInv, TypeOK
      <4>2. Asked' = <<>> \o inbox'
        BY <1>2, <2>2 DEF Asked
      <4> QED BY <2>2, <4>1, <4>2, AskedIs, ConcatEmptySeq DEF IInv
    <3> QED BY <1>1, <3>1
  <2> QED BY <2>1, <2>2
<1>6. m \in 1 .. Len(Asked) + Len(answers) + 1 \cup {Malformed}
  BY <1>1, <1>4
<1> QED BY <1>2, <1>5, <1>6

LEMMA AnswerReplies ==
  ASSUME IInv, IInv', Answer
  PROVE  Desk!Reply
<1> DEFINE Answers == [request : 0 .. MaxRequests, order : 0 .. MaxRequests, code : {0, 1}]
<1>1. PICK a \in Answers :
        /\ answers' = Append(answers, a)
        /\ a.request = IF message = Malformed THEN 0 ELSE message
        /\ a.order = IF a.code = 0 THEN orderID + 1 ELSE 0
  BY AnswerAppends DEF IInv
<1>2. trade = "answering" /\ trade' = "looking" /\ inbox' = inbox
  BY DEF Answer
<1>3. /\ inbox \in Seq(Messages) /\ message \in Messages /\ answers \in Seq(Answers)
      /\ Len(answers) = orderID /\ orderID \in Nat
  BY DeskTypes DEF IInv, TypeOK, DeskInv
<1>4. Asked # <<>> /\ Head(Asked) = message /\ Asked' = Tail(Asked)
  <2>1. Asked = <<message>> \o inbox /\ Asked' = inbox
    <3>1. Asked' = <<>> \o inbox
      BY <1>2 DEF Asked
    <3> QED BY <1>2, <1>3, <3>1, AskedIs, ConcatEmptySeq DEF IInv
  <2> QED BY <1>3, <2>1, Prepended
<1>5. /\ Len(answers') = Len(answers) + 1 /\ answers'[Len(answers')] = a
      /\ \A k \in 1 .. Len(answers) : answers'[k] = answers[k]
  <2> HIDE DEF Answers
  <2> QED BY <1>1, <1>3, AppendProperties
<1>6. SubSeq(answers', 1, Len(answers)) = answers
  <2> HIDE DEF Answers
  <2>1. \A k \in 1 .. Len(answers) : answers'[k] \in Answers
    BY <1>3, <1>5, ElementOfSeq
  <2>2. /\ SubSeq(answers', 1, Len(answers)) \in Seq(Answers)
        /\ Len(SubSeq(answers', 1, Len(answers))) = Len(answers)
        /\ \A k \in 1 .. Len(answers) : SubSeq(answers', 1, Len(answers))[k] = answers'[k]
    BY <1>3, <2>1, SubSeqProperties
  <2> QED BY <1>3, <1>5, <2>2, SeqEqual
<1>7. \A k \in DOMAIN answers : answers[k].code = 0 => orderID + 1 > answers[k].order
  <2> TAKE k \in DOMAIN answers
  <2>1. k \in 1 .. Len(answers)
    BY <1>3
  <2> QED BY <1>3, <2>1 DEF IInv, DeskInv
<1>8. a.code \in {0, 1}
  BY <1>1
<1> QED
  BY <1>1, <1>3, <1>4, <1>5, <1>6, <1>7, <1>8 DEF Desk!Reply, Desk!Accepted, Asked

\* A message that is taken out of the inbox stays the first that is asked.
LEMMA AskedStays ==
  ASSUME IInv, IInv', [Next]_vars, ~Send, ~Answer
  PROVE  Asked' = Asked /\ answers' = answers
<1>1. CASE NextMsg
  <2>1. inbox \in Seq(Messages) /\ inbox # <<>>
    BY <1>1 DEF IInv, TypeOK, NextMsg
  <2>2. Asked = inbox /\ Asked' = <<Head(inbox)>> \o Tail(inbox) /\ answers' = answers
    <3>1. Asked = inbox /\ trade' = "answering" /\ message' = Head(inbox) /\ inbox' = Tail(inbox)
      BY <1>1, AskedIs DEF IInv, NextMsg
    <3>2. answers' = answers
      BY <1>1 DEF NextMsg
    <3> QED BY <3>1, <3>2 DEF Asked
  <2> QED BY <2>1, <2>2, HeadAndTail
<1>2. CASE ~NextMsg
  <2>1. UNCHANGED <<inbox, message, answers>> /\ (trade' = "answering" <=> trade = "answering")
    <3> USE DEF desk, life
    <3>1. CASE Main
      BY <3>1 DEF Main, Start, PublishSymbol, SymbolsPublished, GroupWait, Close, Exit, IInv, LifeInv
    <3>2. CASE Trade
      BY <1>2, <3>2 DEF Trade, Subscribe, Look, NextMsgTimeout, NextMsgFails, AnswerPanics, Panic
    <3>3. CASE CandlesStep \/ CandlesPanic \/ CandlesEnd \/ TicksEnd \/ TicksPanic
      BY <3>3 DEF CandlesStep, CandlesPanic, CandlesEnd, TicksEnd, TicksPanic, Panic
    <3>4. CASE Signal \/ LoseConnection \/ Pass
      BY <3>4 DEF Signal, LoseConnection, Pass
    <3>5. CASE UNCHANGED vars
      BY <3>5 DEF vars
    <3> QED BY <3>1, <3>2, <3>3, <3>4, <3>5 DEF Next
  <2> QED BY <2>1 DEF Asked
<1> QED BY <1>1, <1>2

\* A client that only knows TradeDesk is served by the mock: one answer for
\* each message, in order, with growing numbers.
THEOREM Implements == Spec => AnswersLikeADesk
<1>1. Init => Desk!Init
  BY DEF Init, Desk!Init
<1>2. IInv /\ IInv' /\ [Next]_vars => [Desk!Next]_(Desk!vars)
  <2> SUFFICES ASSUME IInv, IInv', [Next]_vars
               PROVE  Desk!Next \/ UNCHANGED Desk!vars
    OBVIOUS
  <2>1. CASE Send
    BY <2>1, SendAsks DEF Desk!Next, Desk!Ask, Asked
  <2>2. CASE Answer
    BY <2>2, AnswerReplies DEF Desk!Next
  <2>3. CASE ~Send /\ ~Answer
    BY <2>3, AskedStays DEF Desk!vars, Asked
  <2> QED BY <2>1, <2>2, <2>3
<1> QED BY <1>1, <1>2, Invariance, PTL DEF Spec, AnswersLikeADesk, Desk!Spec

=============================================================================
