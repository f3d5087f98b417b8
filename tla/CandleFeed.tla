------------------------------ MODULE CandleFeed -------------------------------
(***************************************************************************)
(* From the ticks of a period to the candle that is published: the server  *)
(* keeps a RateInfo of integers, publish_chart_by_symbol divides each of   *)
(* its prices by a power of ten.                                           *)
(*                                                                         *)
(* Prices are counted in points, and values of the published doubles in    *)
(* units of 10^-5, in which they are whole for every number of digits the  *)
(* code has a divisor for.                                                 *)
(***************************************************************************)
EXTENDS Integers, Sequences, FiniteSetsExt

CONSTANTS
  MaxPrice,    \* bound on prices
  MaxTicks,    \* bound on the ticks of a period
  MaxPeriods,  \* bound on the periods
  None         \* no candle published

VARIABLES
  digits,    \* of the symbol
  ticks,     \* the prices of the period, in order
  rate,      \* the RateInfo of the period
  candle     \* the candle published from it as it is

vars == <<digits, ticks, rate, candle>>

Prices  == 1 .. MaxPrice
Unit    == 10^5

Init ==
  /\ digits \in 0 .. 5
  /\ ticks = <<>>
  /\ rate = [ctm |-> 0, open |-> 0, high |-> 0, low |-> 0, close |-> 0]
  /\ candle = None

-----------------------------------------------------------------------------
(* The server: the other prices are shifts from open, by MT4ServerAPI.h:851. *)

RateOf(period, prices) ==
  LET open == Head(prices)
      seen == {prices[k] : k \in DOMAIN prices}
  IN  [ ctm |-> period, open |-> open, high |-> Max(seen) - open,
        low |-> Min(seen) - open, close |-> prices[Len(prices)] - open ]

Tick(p) ==
  /\ Len(ticks) < MaxTicks
  /\ ticks' = Append(ticks, p)
  /\ rate' = RateOf(rate.ctm, ticks')
  /\ candle' = None
  /\ UNCHANGED digits

NewPeriod(p) ==
  /\ ticks # <<>> /\ rate.ctm < MaxPeriods
  /\ ticks' = <<p>>
  /\ rate' = RateOf(rate.ctm + 1, ticks')
  /\ candle' = None
  /\ UNCHANGED digits

-----------------------------------------------------------------------------

const_digits == [d \in 0 .. 5 |-> 10^d]

IntPriceToDouble(price) == (price * Unit) \div const_digits[digits]

ToJson(c) ==
  [ timestamp |-> c.ts, open |-> c.open, high |-> c.high, low |-> c.low, close |-> c.close ]

PublishCandle ==
  /\ ticks # <<>>
  /\ candle' = ToJson([ ts    |-> rate.ctm,
                        open  |-> IntPriceToDouble(rate.open),
                        high  |-> IntPriceToDouble(rate.high),
                        low   |-> IntPriceToDouble(rate.low),
                        close |-> IntPriceToDouble(rate.close) ])
  /\ UNCHANGED <<digits, ticks, rate>>

Next ==
  \/ \E p \in Prices : Tick(p) \/ NewPeriod(p)
  \/ PublishCandle

Spec == Init /\ [][Next]_vars

-----------------------------------------------------------------------------
(* The property. *)

\* What a price in points is worth.
Worth(value, price) == value * 10^digits = price * Unit

\* MT4ServerAPI.h:851: "open=11987 => open is 119.87; high=5 => open is
\* 119.92".  The high of the published candle is the price of the highest tick.
HighIsHighestTick ==
  candle # None => Worth(candle.high, Max({ticks[k] : k \in DOMAIN ticks}))

=============================================================================
