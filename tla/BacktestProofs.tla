---------------------------- MODULE BacktestProofs ----------------------------
(***************************************************************************)
(* Theorems about Backtest, for every set of candles, plans, ranges and    *)
(* sizes and every slippage and fee.                                       *)
(*                                                                         *)
(* The invariant of a trade says what the next candle may assume: an open  *)
(* trade has banked nothing and its stop costs the risk; one that took its *)
(* first target has its stop at the entry.                                 *)
(***************************************************************************)
EXTENDS Backtest, SequenceTheorems, TLAPS

Levels(t) == /\ t.units > 0
             /\ 2 * Pnl(t, t.tp1, t.units) >= -t.risk
             /\ Gain(t, t.tp1) <= Gain(t, t.tp2)

OpenInv(t) == /\ ~t.half /\ t.left = 2 * t.units /\ Gross(t) = 0
              /\ t.fees = TakerFee(t.entry, 2 * t.units)
              /\ Pnl(t, t.stop, 2 * t.units) = -t.risk

PartialInv(t) == /\ t.half /\ t.left = t.units /\ t.stop = t.entry
                 /\ Gross(t) = Pnl(t, t.tp1, t.units)
                 /\ t.fees = TakerFee(t.entry, 2 * t.units) + TakerFee(t.tp1, t.units)

ClosedInv(t) == Bounded(t) /\ Pays(t) /\ Explained(t)

TradeInv(t) ==
    /\ t \in Trade /\ Levels(t)
    /\ t.state = "open" => OpenInv(t)
    /\ t.state = "partial" => PartialInv(t)
    /\ t.state = "closed" => ClosedInv(t)

\* What one candle may do to a trade.
Keeps(t, r) ==
    /\ r.side = t.side /\ r.entry = t.entry /\ r.tp1 = t.tp1 /\ r.tp2 = t.tp2
    /\ r.early = t.early /\ r.grade = t.grade /\ r.units = t.units /\ r.risk = t.risk
    /\ r.root = t.root /\ r.openedAt = t.openedAt /\ r.spawned = t.spawned
    /\ t.half => r.half
    /\ r.state = "open" => t.state = "open"

-----------------------------------------------------------------------------
(* Arithmetic.                                                             *)

LEMMA ProductOrder ==
    ASSUME NEW a \in Int, NEW b \in Int, NEW q \in Nat, a <= b
    PROVE  a * q <= b * q
  OBVIOUS

LEMMA GainTyped ==
    ASSUME NEW t \in Trade, NEW p \in Int
    PROVE  Gain(t, p) \in Int
  BY DEF Gain, Trade

\* Profit is a number, ordered as the prices are in the trade's direction.
LEMMA PnlFacts ==
    ASSUME NEW t \in Trade, NEW p \in Int, NEW q \in Nat
    PROVE  /\ Pnl(t, p, q) \in Int
           /\ Gain(t, p) >= 0 => Pnl(t, p, q) >= 0
           /\ Gain(t, p) = 0 => Pnl(t, p, q) = 0
           /\ \A r \in Int : Gain(t, r) <= Gain(t, p) => Pnl(t, r, q) <= Pnl(t, p, q)
<1>1. FeeUnit \in Nat
  BY NumbersAssumption
<1>2. Gain(t, p) \in Int /\ \A r \in Int : Gain(t, r) \in Int
  BY GainTyped
<1>3. Pnl(t, p, q) \in Int
  BY <1>1, <1>2 DEF Pnl
<1>4. ASSUME NEW x \in Int, NEW y \in Int, x <= y
      PROVE  x * q * FeeUnit <= y * q * FeeUnit
  <2>1. x * q <= y * q
    BY <1>4, ProductOrder
  <2>2. x * q \in Int /\ y * q \in Int
    OBVIOUS
  <2> QED BY <2>1, <2>2, <1>1, ProductOrder
<1>5. 0 * q * FeeUnit = 0
  BY <1>1
<1>6. ASSUME Gain(t, p) >= 0 PROVE Pnl(t, p, q) >= 0
  <2>1. ASSUME NEW x \in Int, x >= 0 PROVE x * q * FeeUnit >= 0
    <3>1. x * q >= 0
      BY <2>1
    <3>2. x * q \in Int
      OBVIOUS
    <3> QED BY <3>1, <3>2, <1>1
  <2> QED BY <2>1, <1>2, <1>6 DEF Pnl
<1>7. Gain(t, p) = 0 => Pnl(t, p, q) = 0
  BY <1>5 DEF Pnl
<1>8. ASSUME NEW r \in Int, Gain(t, r) <= Gain(t, p) PROVE Pnl(t, r, q) <= Pnl(t, p, q)
  <2>1. Gain(t, r) \in Int
    BY <1>2
  <2>2. Gain(t, r) * q * FeeUnit <= Gain(t, p) * q * FeeUnit
    BY <1>2, <2>1, <1>4, <1>8
  <2> QED BY <2>2 DEF Pnl
<1> QED BY <1>3, <1>6, <1>7, <1>8

\* Two halves of a quantity earn what the whole does.
LEMMA PnlHalves ==
    ASSUME NEW t \in Trade, NEW p \in Int, NEW q \in Nat
    PROVE  Pnl(t, p, 2 * q) = 2 * Pnl(t, p, q)
<1>1. FeeUnit \in Int /\ Gain(t, p) \in Int
  BY NumbersAssumption, GainTyped
<1>2. ASSUME NEW g \in Int, NEW u \in Int PROVE g * (2 * q) * u = 2 * (g * q * u)
  OBVIOUS
<1> QED BY <1>1, <1>2 DEF Pnl

LEMMA FeeTyped ==
    ASSUME NEW p \in Int, NEW q \in Nat
    PROVE  TakerFee(p, q) \in Nat
<1>1. Abs(p) \in Nat
  BY DEF Abs
<1>2. FeeRate \in Nat
  BY NumbersAssumption
<1>3. ASSUME NEW a \in Nat, NEW f \in Nat PROVE a * q * f \in Nat
  OBVIOUS
<1> QED BY <1>1, <1>2, <1>3 DEF TakerFee

-----------------------------------------------------------------------------
(* One trade on one candle.                                                *)

LEMMA TradeFields ==
    ASSUME NEW t \in Trade
    PROVE  /\ t.side \in {"LONG", "SHORT"} /\ t.half \in BOOLEAN
           /\ t.entry \in Int /\ t.stop \in Int /\ t.tp1 \in Int /\ t.tp2 \in Int
           /\ t.units \in Nat /\ t.left \in Nat /\ t.risk \in Nat /\ t.fees \in Nat
           /\ t.realized \in Int /\ t.root \in Nat /\ t.openedAt \in Nat
           /\ t.state \in {"open", "partial", "closed"}
           /\ t.early \in BOOLEAN /\ t.grade \in {"A", "B"} /\ t.spawned \in BOOLEAN
           /\ t.outcome \in {"none", "stop", "tp2", "partial_then_stop", "time_exit"}
  BY DEF Trade, Sides

\* What a trade's gain depends on.
LEMMA SameGain ==
    ASSUME NEW t, NEW r, r.side = t.side, r.entry = t.entry, NEW p, NEW q
    PROVE  Gain(r, p) = Gain(t, p) /\ Pnl(r, p, q) = Pnl(t, p, q)
  BY DEF Gain, Pnl

\* An exit: the rest is sold, the outcome names the reason.
LEMMA ClosedFacts ==
    ASSUME NEW t \in Trade, NEW p \in Int, NEW reason \in {"stop", "tp2", "time_exit"}
    PROVE  LET r == Closed(t, p, reason) IN
           /\ r \in Trade /\ Keeps(t, r)
           /\ r.state = "closed" /\ r.left = 0 /\ r.half = t.half /\ r.stop = t.stop
           /\ r.outcome = IF reason = "stop" /\ t.half THEN "partial_then_stop" ELSE reason
           /\ r.fees = t.fees + TakerFee(p, t.left)
           /\ Gross(r) = Gross(t) + Pnl(t, p, t.left)
<1> DEFINE r == Closed(t, p, reason)
<1>1. Pnl(t, p, t.left) \in Int /\ TakerFee(p, t.left) \in Nat
  BY PnlFacts, FeeTyped, TradeFields
<1> DEFINE o == IF reason = "stop" /\ t.half THEN "partial_then_stop" ELSE reason
           fees == t.fees + TakerFee(p, t.left)
           realized == t.realized + Pnl(t, p, t.left) - TakerFee(p, t.left)
<1>2. t.left - t.left = 0 /\ fees \in Nat /\ realized \in Int
  BY <1>1, TradeFields
<1>3. o \in {"stop", "tp2", "partial_then_stop", "time_exit"}
  OBVIOUS
<1>4. r = [t EXCEPT !.left = 0, !.fees = fees, !.realized = realized,
                    !.state = "closed", !.outcome = o]
  BY <1>2 DEF Closed, Sold, Trade
<1> HIDE DEF o, r, fees, realized
<1>5. r \in Trade
  BY <1>2, <1>3, <1>4 DEF Trade
<1>6. /\ r.state = "closed" /\ r.left = 0 /\ r.half = t.half /\ r.stop = t.stop
      /\ r.outcome = o /\ r.fees = fees /\ r.realized = realized
  BY <1>4 DEF Trade
<1>7. Keeps(t, r)
  BY <1>4 DEF Keeps, Trade
<1>8. Gross(r) = Gross(t) + Pnl(t, p, t.left)
  BY <1>1, <1>6, TradeFields DEF Gross, fees, realized
<1> QED BY <1>5, <1>6, <1>7, <1>8 DEF o, r, fees

\* The first target: half is sold and the stop is at the entry.
LEMMA TookFirstFacts ==
    ASSUME NEW t, TradeInv(t), t.state = "open"
    PROVE  LET r == TookFirst(t) IN
           TradeInv(r) /\ Keeps(t, r) /\ r.state = "partial"
<1> DEFINE r == TookFirst(t)
           gain == Pnl(t, t.tp1, t.units)
           fee == TakerFee(t.tp1, t.units)
<1>1. t \in Trade /\ OpenInv(t) /\ Levels(t)
  BY DEF TradeInv
<1>2. gain \in Int /\ fee \in Nat
  BY <1>1, PnlFacts, FeeTyped, TradeFields
<1>3. r = [t EXCEPT !.left = t.left - t.units, !.fees = t.fees + fee,
                    !.realized = t.realized + gain - fee,
                    !.state = "partial", !.half = TRUE, !.stop = t.entry]
  BY <1>1 DEF TookFirst, Sold, Trade
<1>4. /\ t.left - t.units = t.units /\ t.fees + fee \in Nat
      /\ t.realized + gain - fee \in Int
  BY <1>1, <1>2, TradeFields DEF OpenInv
<1> HIDE DEF gain, fee, r
<1>5. r \in Trade
  BY <1>1, <1>3, <1>4, TradeFields DEF Trade
<1>6. /\ r.state = "partial" /\ r.half /\ r.left = t.units /\ r.stop = t.entry
      /\ r.fees = t.fees + fee /\ r.realized = t.realized + gain - fee
  BY <1>1, <1>3, <1>4 DEF Trade
<1>7. Keeps(t, r) /\ r.units = t.units /\ r.tp1 = t.tp1 /\ r.tp2 = t.tp2 /\ r.entry = t.entry
      /\ r.side = t.side /\ r.risk = t.risk
  BY <1>1, <1>3 DEF Keeps, Trade
<1>8. Levels(r)
  BY <1>1, <1>7, SameGain DEF Levels
<1>9. Gross(r) = Pnl(r, r.tp1, r.units)
  <2>1. Pnl(r, r.tp1, r.units) = gain
    BY <1>7, SameGain DEF gain
  <2> QED BY <2>1, <1>1, <1>2, <1>6, TradeFields DEF Gross, OpenInv
<1>10. r.fees = TakerFee(r.entry, 2 * r.units) + TakerFee(r.tp1, r.units)
  BY <1>1, <1>6, <1>7 DEF OpenInv, fee
<1>11. PartialInv(r)
  BY <1>6, <1>7, <1>9, <1>10 DEF PartialInv
<1> QED BY <1>5, <1>6, <1>7, <1>8, <1>11 DEF TradeInv, r

\* A trade that is not stopped on a candle closes it ahead of its stop.
LEMMA CloseAhead ==
    ASSUME NEW t \in Trade, NEW c \in Candles, ~StopHit(t, c)
    PROVE  Scale * c.close \in Int /\ Gain(t, t.stop) <= Gain(t, Scale * c.close)
<1>1. /\ c.low \in Nat /\ c.high \in Nat /\ c.close \in Nat
      /\ c.low <= c.close /\ c.close <= c.high
  BY CandlesAssumption DEF Candle, WellFormed
<1> QED BY <1>1, TradeFields DEF StopHit, Worst, Past, Gain, Scale

\* The exits of a trade that took no target yet.
LEMMA OpenExit ==
    ASSUME NEW t, TradeInv(t), t.state = "open", NEW p \in Int,
           NEW reason \in {"stop", "time_exit"},
           Gain(t, t.stop) <= Gain(t, p), reason = "stop" => p = t.stop
    PROVE  TradeInv(Closed(t, p, reason)) /\ Keeps(t, Closed(t, p, reason))
<1> DEFINE r == Closed(t, p, reason)
<1>1. t \in Trade /\ OpenInv(t) /\ Levels(t)
  BY DEF TradeInv
<1>2. /\ r \in Trade /\ Keeps(t, r) /\ r.state = "closed" /\ r.left = 0
      /\ r.half = t.half /\ r.stop = t.stop /\ r.outcome = reason
      /\ r.fees = t.fees + TakerFee(p, t.left)
      /\ Gross(r) = Gross(t) + Pnl(t, p, t.left)
  <2>1. reason \in {"stop", "tp2", "time_exit"}
    OBVIOUS
  <2>2. /\ r \in Trade /\ Keeps(t, r)
        /\ r.state = "closed" /\ r.left = 0 /\ r.half = t.half /\ r.stop = t.stop
        /\ r.outcome = IF reason = "stop" /\ t.half THEN "partial_then_stop" ELSE reason
        /\ r.fees = t.fees + TakerFee(p, t.left)
        /\ Gross(r) = Gross(t) + Pnl(t, p, t.left)
    BY <1>1, <2>1, ClosedFacts
  <2> QED BY <1>1, <2>2 DEF OpenInv
<1> HIDE DEF r
<1>3. /\ Pnl(t, p, 2 * t.units) \in Int /\ 2 * t.units \in Nat
      /\ Pnl(t, t.stop, 2 * t.units) <= Pnl(t, p, 2 * t.units)
  BY <1>1, PnlFacts, TradeFields
<1>4. Gross(r) = Pnl(t, p, 2 * t.units)
  BY <1>1, <1>2, <1>3 DEF OpenInv
<1>5. Bounded(r)
  BY <1>1, <1>2, <1>3, <1>4 DEF Bounded, Keeps, OpenInv
<1>6. Pays(r)
  BY <1>1, <1>2 DEF Pays, OpenInv
<1>7. Explained(r)
  <2>1. reason = "stop" => Gross(r) = -r.risk
    BY <1>1, <1>2, <1>4 DEF OpenInv, Keeps
  <2>2. r.fees = TakerFee(r.entry, 2 * r.units) + TakerFee(p, 2 * r.units)
    BY <1>1, <1>2 DEF OpenInv, Keeps
  <2> QED BY <1>1, <1>2, <2>1, <2>2 DEF Explained, OpenInv
<1>8. Levels(r)
  BY <1>1, <1>2, SameGain DEF Levels, Keeps
<1> QED BY <1>2, <1>5, <1>6, <1>7, <1>8 DEF TradeInv, ClosedInv, r

\* The exits of a trade after its first target: at the entry, at the second
\* target, or early.
LEMMA PartialExit ==
    ASSUME NEW t, TradeInv(t), t.state = "partial", NEW p \in Int,
           NEW reason \in {"stop", "tp2", "time_exit"},
           reason = "stop" => p = t.stop, reason = "tp2" => p = t.tp2,
           reason = "time_exit" => Gain(t, p) >= 0
    PROVE  TradeInv(Closed(t, p, reason)) /\ Keeps(t, Closed(t, p, reason))
<1> DEFINE r == Closed(t, p, reason)
           first == Pnl(t, t.tp1, t.units)
           second == Pnl(t, p, t.units)
<1>1. t \in Trade /\ PartialInv(t) /\ Levels(t)
  BY DEF TradeInv
<1>2. /\ r \in Trade /\ Keeps(t, r) /\ r.state = "closed" /\ r.left = 0 /\ r.half
      /\ r.outcome = IF reason = "stop" THEN "partial_then_stop" ELSE reason
      /\ r.fees = t.fees + TakerFee(p, t.units)
      /\ Gross(r) = first + second
  <2>1. /\ r \in Trade /\ Keeps(t, r)
        /\ r.state = "closed" /\ r.left = 0 /\ r.half = t.half /\ r.stop = t.stop
        /\ r.outcome = IF reason = "stop" /\ t.half THEN "partial_then_stop" ELSE reason
        /\ r.fees = t.fees + TakerFee(p, t.left)
        /\ Gross(r) = Gross(t) + Pnl(t, p, t.left)
    BY <1>1, ClosedFacts
  <2> QED BY <1>1, <2>1 DEF PartialInv
<1> HIDE DEF r
<1>3. first \in Int /\ second \in Int /\ t.risk \in Nat /\ Gain(t, p) \in Int
  BY <1>1, PnlFacts, GainTyped, TradeFields
<1>4. Gain(t, p) >= 0 => second >= 0
  BY <1>1, PnlFacts, TradeFields
<1>5. reason = "stop" => second = 0
  <2>1. Gain(t, t.entry) = 0
    BY <1>1, TradeFields DEF Gain
  <2> QED BY <1>1, <2>1, PnlFacts, TradeFields DEF PartialInv
<1>6. reason = "tp2" => first <= second
  BY <1>1, PnlFacts, TradeFields DEF Levels
<1>7. r.side = t.side /\ r.entry = t.entry /\ r.tp1 = t.tp1 /\ r.tp2 = t.tp2
      /\ r.units = t.units /\ r.risk = t.risk
  BY <1>2 DEF Keeps
<1>8. /\ Pnl(r, r.tp1, r.units) = first /\ Pnl(r, p, r.units) = second
      /\ Gain(r, r.tp2) = Gain(t, t.tp2)
  BY <1>7, SameGain
<1>9. 2 * first >= -t.risk
  BY <1>1 DEF Levels
<1>10. Bounded(r)
  BY <1>2, <1>3, <1>4, <1>5, <1>6, <1>7, <1>9 DEF Bounded
<1>11. Pays(r)
  BY <1>2, <1>3, <1>4, <1>5, <1>8 DEF Pays
<1>12. Explained(r)
  <2>1. r.fees = TakerFee(r.entry, 2 * r.units) + TakerFee(r.tp1, r.units) + TakerFee(p, r.units)
    BY <1>1, <1>2, <1>7 DEF PartialInv
  <2>2. reason = "stop" => p = r.entry /\ Gross(r) = first
    BY <1>1, <1>2, <1>3, <1>5, <1>7 DEF PartialInv
  <2>3. reason = "tp2" => p = r.tp2
    BY <1>7
  <2> HIDE DEF first, second
  <2> QED BY <1>2, <1>8, <2>1, <2>2, <2>3 DEF Explained
<1>13. Levels(r)
  BY <1>1, <1>7, SameGain DEF Levels
<1> QED BY <1>2, <1>10, <1>11, <1>12, <1>13 DEF TradeInv, ClosedInv, r

\* A trade after its first target, on one candle.
LEMMA PartialStep ==
    ASSUME NEW t, TradeInv(t), t.state = "partial", NEW c \in Candles,
           NEW bar \in Nat, NEW weak \in BOOLEAN
    PROVE  TradeInv(Partial(t, c, bar, weak)) /\ Keeps(t, Partial(t, c, bar, weak))
<1>1. t \in Trade /\ PartialInv(t) /\ t.half
  BY DEF TradeInv, PartialInv
<1>2. t.stop \in Int /\ t.tp2 \in Int
  BY <1>1, TradeFields
<1>3. CASE StopHit(t, c)
  BY <1>1, <1>2, <1>3, PartialExit DEF Partial
<1>4. CASE ~StopHit(t, c) /\ Tp2Hit(t, c)
  BY <1>1, <1>2, <1>4, PartialExit DEF Partial
<1>5. CASE ~StopHit(t, c) /\ ~Tp2Hit(t, c) /\ EarlyExit(t, bar, weak)
  <2>1. Scale * c.close \in Int /\ Gain(t, t.stop) <= Gain(t, Scale * c.close)
    BY <1>1, <1>5, CloseAhead
  <2>2. Gain(t, t.stop) = 0
    BY <1>1, TradeFields DEF PartialInv, Gain
  <2>3. Gain(t, Scale * c.close) >= 0
    BY <2>1, <2>2, <1>1, GainTyped
  <2> QED BY <1>1, <1>5, <2>1, <2>3, PartialExit DEF Partial
<1>6. CASE ~StopHit(t, c) /\ ~Tp2Hit(t, c) /\ ~EarlyExit(t, bar, weak)
  BY <1>1, <1>6 DEF Partial, Keeps
<1> QED BY <1>3, <1>4, <1>5, <1>6

\* One trade on one candle (processTradeOnCandle).
LEMMA ProcessedStep ==
    ASSUME NEW t, TradeInv(t), IsOpen(t), NEW c \in Candles,
           NEW bar \in Nat, NEW weak \in BOOLEAN
    PROVE  /\ TradeInv(Processed(t, c, bar, weak)) /\ Keeps(t, Processed(t, c, bar, weak))
<1> DEFINE r == Processed(t, c, bar, weak)
<1>1. t \in Trade /\ t.state \in {"open", "partial"}
  BY TradeFields DEF TradeInv, IsOpen
<1>2. t.stop \in Int
  BY <1>1, TradeFields
<1>3. CASE t.state = "partial"
  BY <1>3, PartialStep DEF Processed
<1>4. CASE t.state = "open" /\ StopHit(t, c)
  <2>1. r = Closed(t, t.stop, "stop")
    BY <1>4 DEF Processed
  <2>2. Gain(t, t.stop) <= Gain(t, t.stop)
    BY <1>1, <1>2, GainTyped
  <2> QED BY <1>1, <1>2, <1>4, <2>1, <2>2, OpenExit
<1>5. CASE t.state = "open" /\ ~StopHit(t, c) /\ Tp1Hit(t, c)
  <2> DEFINE f == TookFirst(t)
  <2>1. TradeInv(f) /\ Keeps(t, f) /\ f.state = "partial" /\ f \in Trade
    BY <1>5, TookFirstFacts DEF TradeInv
  <2>2. f.tp2 = t.tp2 /\ f.tp2 \in Int
    BY <2>1, TradeFields DEF Keeps
  <2>3. r = IF Tp2Hit(t, c) THEN Closed(f, t.tp2, "tp2") ELSE Partial(f, c, bar, weak)
    BY <1>5 DEF Processed
  <2>4. TradeInv(r) /\ Keeps(f, r)
    BY <2>1, <2>2, <2>3, PartialExit, PartialStep
  <2> QED BY <2>1, <2>4 DEF Keeps
<1>6. CASE t.state = "open" /\ ~StopHit(t, c) /\ ~Tp1Hit(t, c) /\ EarlyExit(t, bar, weak)
  <2>1. r = Closed(t, Scale * c.close, "time_exit")
    BY <1>6 DEF Processed
  <2>2. Scale * c.close \in Int /\ Gain(t, t.stop) <= Gain(t, Scale * c.close)
    BY <1>1, <1>6, CloseAhead
  <2> QED BY <1>1, <1>6, <2>1, <2>2, OpenExit
<1>7. CASE t.state = "open" /\ ~StopHit(t, c) /\ ~Tp1Hit(t, c) /\ ~EarlyExit(t, bar, weak)
  BY <1>1, <1>7 DEF Processed, Keeps
<1> QED BY <1>1, <1>3, <1>4, <1>5, <1>6, <1>7

-----------------------------------------------------------------------------
(* A new trade.                                                            *)

\* Levels a trade may be opened with: the stop behind the entry, the targets
\* ahead of the stop, in order.
Placed(l) ==
    /\ l.side \in {"LONG", "SHORT"} /\ l.early \in BOOLEAN /\ l.grade \in {"A", "B"}
    /\ l.entry \in Int /\ l.stop \in Int /\ l.tp1 \in Int /\ l.tp2 \in Int
    /\ Gain(l, l.stop) < 0
    /\ Gain(l, l.stop) <= Gain(l, l.tp1) /\ Gain(l, l.tp1) <= Gain(l, l.tp2)

LEMMA OpenedFacts ==
    ASSUME NEW l, Placed(l), NEW root \in Nat, NEW bar \in Nat, NEW u \in Units
    PROVE  LET r == Opened(l, root, bar, u) IN
           /\ TradeInv(r) /\ r.state = "open" /\ ~r.half
           /\ r.root = root /\ r.openedAt = bar
<1> DEFINE r == Opened(l, root, bar, u)
           fee == TakerFee(l.entry, 2 * u)
           risk == Abs(l.entry - l.stop) * (2 * u) * FeeUnit
           spawned == root # Len(trades) + 1
<1>1. u \in Nat /\ u > 0 /\ 2 * u \in Nat /\ FeeUnit \in Nat
  BY NumbersAssumption
<1>2. Abs(l.entry - l.stop) \in Nat /\ Gain(l, l.stop) = -Abs(l.entry - l.stop)
  BY DEF Placed, Gain, Abs
<1>3. fee \in Nat
  BY <1>1, FeeTyped DEF Placed
<1>4. risk \in Nat
  <2>1. ASSUME NEW a \in Nat, NEW q \in Nat, NEW f \in Nat PROVE a * q * f \in Nat
    OBVIOUS
  <2> QED BY <2>1, <1>1, <1>2
<1>5. spawned \in BOOLEAN
  OBVIOUS
<1> HIDE DEF fee, risk, spawned
<1>6. r = [side |-> l.side, entry |-> l.entry, stop |-> l.stop,
           tp1 |-> l.tp1, tp2 |-> l.tp2, early |-> l.early,
           grade |-> l.grade, units |-> u, left |-> 2 * u,
           root |-> root, openedAt |-> bar, state |-> "open", half |-> FALSE,
           spawned |-> spawned, outcome |-> "none",
           risk |-> risk, fees |-> fee, realized |-> -fee]
  BY DEF Opened, fee, risk, spawned
<1> HIDE DEF r
<1>7. r \in Trade
  BY <1>1, <1>3, <1>4, <1>5, <1>6 DEF Trade, Sides, Placed
<1>8. /\ r.state = "open" /\ ~r.half /\ r.root = root /\ r.openedAt = bar
      /\ r.side = l.side /\ r.entry = l.entry /\ r.stop = l.stop /\ r.tp1 = l.tp1
      /\ r.tp2 = l.tp2 /\ r.units = u /\ r.left = 2 * u /\ r.risk = risk
      /\ r.fees = fee /\ r.realized = -fee
  BY <1>6
<1>9. Pnl(r, r.stop, 2 * u) = -risk
  <2>1. ASSUME NEW a \in Nat, NEW q \in Nat, NEW f \in Nat PROVE (-a) * q * f = -(a * q * f)
    OBVIOUS
  <2>2. Gain(r, r.stop) = -Abs(l.entry - l.stop)
    BY <1>2, <1>8 DEF Gain
  <2> QED BY <2>1, <2>2, <1>1, <1>2 DEF Pnl, risk
<1>10. OpenInv(r)
  BY <1>3, <1>8, <1>9 DEF OpenInv, Gross, fee
<1>11. Gain(r, r.stop) <= Gain(r, r.tp1) /\ Gain(r, r.tp1) <= Gain(r, r.tp2)
  BY <1>8 DEF Placed, Gain
<1>12. 2 * Pnl(r, r.tp1, u) >= -risk
  <2>1. Pnl(r, r.stop, 2 * u) <= Pnl(r, r.tp1, 2 * u) /\ Pnl(r, r.tp1, 2 * u) \in Int
    BY <1>1, <1>7, <1>11, PnlFacts, TradeFields
  <2>2. Pnl(r, r.tp1, 2 * u) = 2 * Pnl(r, r.tp1, u)
    BY <1>1, <1>7, PnlHalves, TradeFields
  <2> QED BY <2>1, <2>2, <1>4, <1>9
<1>13. Levels(r)
  BY <1>1, <1>8, <1>11, <1>12 DEF Levels
<1> QED BY <1>7, <1>8, <1>10, <1>13 DEF TradeInv, r

\* Slippage never turns a plan around: the entry is worsened, the levels keep
\* their order.
LEMMA ExecutedPlaced ==
    ASSUME NEW p \in Plans, following \in Candles, config.realism \in BOOLEAN
    PROVE  Placed(Executed(p))
<1> DEFINE base == IF config.delayed THEN following.open ELSE p.entry
           At(level) == base + level - p.entry
           l == Executed(p)
<1>1. /\ p.side \in {"LONG", "SHORT"} /\ p.early \in BOOLEAN /\ p.grade \in {"A", "B"}
      /\ p.entry \in Nat /\ p.stop \in Nat /\ p.tp1 \in Nat /\ p.tp2 \in Nat
      /\ WellPlanned(p) /\ following.open \in Nat
  BY PlansAssumption, CandlesAssumption DEF Plan, Sides, Candle
<1>2. base \in Nat /\ At(p.stop) \in Int /\ At(p.tp1) \in Int /\ At(p.tp2) \in Int
  BY <1>1
<1>3. Slip \in Nat /\ Scale - Slip \in Nat /\ Scale - Slip > 0 /\ Scale + Slip \in Nat
      /\ Scale \in Nat /\ Scale - Slip <= Scale + Slip
  BY NumbersAssumption DEF Scale
<1>4. /\ l.side = p.side /\ l.early = p.early /\ l.grade = p.grade
      /\ l.entry = IF config.realism THEN Worsened(p.side, base) ELSE Scale * base
      /\ l.stop = IF config.realism THEN Protected(p.side, At(p.stop)) ELSE Scale * At(p.stop)
      /\ l.tp1 = IF config.realism THEN Protected(p.side, At(p.tp1)) ELSE Scale * At(p.tp1)
      /\ l.tp2 = IF config.realism THEN Protected(p.side, At(p.tp2)) ELSE Scale * At(p.tp2)
  BY DEF Executed
<1> DEFINE k == IF ~config.realism THEN Scale
                ELSE IF p.side = "LONG" THEN Scale - Slip ELSE Scale + Slip
<1>5. k \in Nat /\ k > 0
  BY <1>3 DEF Scale
<1>6. /\ l.stop = At(p.stop) * k /\ l.tp1 = At(p.tp1) * k /\ l.tp2 = At(p.tp2) * k
  BY <1>1, <1>2, <1>4, NumbersAssumption DEF Protected, Scale
<1>7. l.entry \in Int /\ IF p.side = "LONG" THEN base * k <= l.entry ELSE l.entry <= base * k
  <2>1. /\ base * (Scale - Slip) <= base * (Scale + Slip)
        /\ base * (Scale - Slip) \in Int /\ base * (Scale + Slip) \in Int
    <3>1. ASSUME NEW x \in Nat, NEW y \in Nat, x <= y PROVE base * x <= base * y
      BY <1>2, <3>1
    <3> QED BY <3>1, <1>2, <1>3
  <2> HIDE DEF base
  <2> QED BY <2>1, <1>1, <1>2, <1>3, <1>4 DEF Worsened, Scale
<1> HIDE DEF At, base, k, l
<1>8. \A x, y \in Int : /\ x * k \in Int
                        /\ x <= y => x * k <= y * k
                        /\ x < y => x * k < y * k
  <2> TAKE x, y \in Int
  <2>1. x * k \in Int /\ y * k \in Int
    BY <1>5
  <2>2. x <= y => x * k <= y * k
    BY <1>5, ProductOrder
  <2>3. x + 1 <= y => x * k + k <= y * k
    <3>1. (x + 1) * k = x * k + k
      BY <1>5
    <3> QED BY <3>1, <1>5, ProductOrder
  <2> QED BY <2>1, <2>2, <2>3, <1>5
<1>9. IF p.side = "LONG"
      THEN At(p.stop) < base /\ At(p.stop) <= At(p.tp1) /\ At(p.tp1) <= At(p.tp2)
      ELSE base < At(p.stop) /\ At(p.tp1) <= At(p.stop) /\ At(p.tp2) <= At(p.tp1)
  BY <1>1, <1>2 DEF WellPlanned, Past, At
<1>10. /\ l.stop \in Int /\ l.tp1 \in Int /\ l.tp2 \in Int /\ base * k \in Int
  BY <1>2, <1>6, <1>8
<1>11. IF p.side = "LONG"
       THEN l.stop < base * k /\ l.stop <= l.tp1 /\ l.tp1 <= l.tp2
       ELSE base * k < l.stop /\ l.tp1 <= l.stop /\ l.tp2 <= l.tp1
  BY <1>2, <1>6, <1>8, <1>9
<1>12. Placed(l)
  BY <1>1, <1>4, <1>7, <1>10, <1>11 DEF Placed, Gain
<1> QED BY <1>12 DEF l

\* A continuation is opened around the close, by the range of the market.
LEMMA ContinuationPlaced ==
    ASSUME NEW t, TradeInv(t), t.state = "partial", NEW c \in Candles,
           NEW atr \in Atrs, RunsOn(t, c, atr)
    PROVE  Placed(Continuation(t, c, atr))
<1> DEFINE l == Continuation(t, c, atr)
           d == 450 * atr
           x == Scale * c.close
<1>1. t \in Trade /\ t.stop = t.entry
  BY DEF TradeInv, PartialInv
<1>2. /\ t.side \in {"LONG", "SHORT"} /\ t.early \in BOOLEAN /\ t.grade \in {"A", "B"}
      /\ t.entry \in Int
  BY <1>1, TradeFields
<1>3. c.close \in Nat /\ atr \in Nat /\ atr > 0
  BY CandlesAssumption, NumbersAssumption DEF Candle, RunsOn
<1>4. d \in Nat /\ d > 0 /\ x \in Int
  BY <1>3 DEF Scale
<1>5. (85 * Abs(t.entry - t.stop)) \div 100 = 0
  BY <1>1, <1>2 DEF Abs
<1>6. /\ l.side = t.side /\ l.early = t.early /\ l.grade = t.grade /\ l.entry = x
      /\ l.stop = IF t.side = "LONG" THEN x + (-d) ELSE x - (-d)
      /\ l.tp1 = IF t.side = "LONG" THEN x + (11 * d) \div 10 ELSE x - (11 * d) \div 10
      /\ l.tp2 = IF t.side = "LONG" THEN x + (28 * d) \div 10 ELSE x - (28 * d) \div 10
  BY <1>4, <1>5 DEF Continuation
<1> HIDE DEF l, d, x
<1>7. /\ (11 * d) \div 10 \in Nat /\ (28 * d) \div 10 \in Nat
      /\ (11 * d) \div 10 <= (28 * d) \div 10
  BY <1>4
<1>8. Placed(l)
  BY <1>2, <1>4, <1>6, <1>7 DEF Placed, Gain
<1> QED BY <1>8 DEF l

-----------------------------------------------------------------------------
(* The trades together.                                                    *)

Rooted(s) == \A id \in 1..Len(s) : s[id].root \in 1..id

\* A trade that shares its signal with an earlier one is the only add-on to it.
Family(s) == \A a, b \in 1..Len(s) :
    a < b /\ s[a].root = s[b].root =>
        /\ s[a].root = a /\ s[a].half /\ s[a].spawned
        /\ \A c \in 1..Len(s) : c > a /\ s[c].root = a => c = b

Healthy(s) == /\ s \in Seq(Trade) /\ \A id \in 1..Len(s) : TradeInv(s[id])
              /\ Rooted(s) /\ Family(s)

OneSignal(s) == \A a, b \in 1..Len(s) :
    IsOpen(s[a]) /\ IsOpen(s[b]) => s[a].root = s[b].root

\* How far back a trade was entered, seen from candle k.
Seen(t, id, k) ==
    IF config.delayed /\ t.root = id THEN k + 1 >= t.openedAt ELSE k >= t.openedAt

Config == [oneTradeAtTime : BOOLEAN, expansion : BOOLEAN, realism : BOOLEAN, delayed : BOOLEAN]

Inv ==
    /\ config \in Config /\ i \in Nat /\ candle \in Candles /\ following \in Candles
    /\ Healthy(trades) /\ due \subseteq OpenTrades
    /\ equity \in Int /\ signalled \in BOOLEAN
    /\ config.oneTradeAtTime => OneSignal(trades)
    /\ \A id \in Ids : Seen(trades[id], id, i)
    /\ \A id \in due : Seen(trades[id], id, i - 1)

\* What a step may do to a trade that it changes.
Follows(t, r) ==
    /\ r.root = t.root /\ r.openedAt = t.openedAt
    /\ t.half => r.half
    /\ t.spawned => r.spawned
    /\ IsOpen(r) => IsOpen(t)

LEMMA Replaced ==
    ASSUME NEW s, Healthy(s), NEW id \in 1..Len(s), NEW r, TradeInv(r), Follows(s[id], r)
    PROVE  LET n == [s EXCEPT ![id] = r] IN
           /\ Healthy(n) /\ Len(n) = Len(s) /\ n[id] = r
           /\ \A j \in 1..Len(s) : j # id => n[j] = s[j]
           /\ OneSignal(s) => OneSignal(n)
<1> DEFINE n == [s EXCEPT ![id] = r]
<1>1. s \in Seq(Trade) /\ r \in Trade
  BY DEF Healthy, TradeInv
<1>2. /\ n \in Seq(Trade) /\ Len(n) = Len(s)
      /\ \A j \in 1..Len(s) : n[j] = IF j = id THEN r ELSE s[j]
  BY <1>1, ExceptSeq
<1>3. Len(s) \in Nat
  BY <1>1, LenProperties
<1> HIDE DEF n
<1>4. \A j \in 1..Len(s) : /\ TradeInv(n[j]) /\ n[j].root = s[j].root
                           /\ s[j].half => n[j].half
                           /\ s[j].spawned => n[j].spawned
                           /\ IsOpen(n[j]) => IsOpen(s[j])
  BY <1>2 DEF Healthy, Follows
<1>5. Rooted(n)
  BY <1>2, <1>4 DEF Healthy, Rooted
<1>6. Family(n)
  BY <1>2, <1>4 DEF Healthy, Family
<1>7. OneSignal(s) => OneSignal(n)
  BY <1>2, <1>4 DEF OneSignal
<1> QED BY <1>2, <1>4, <1>5, <1>6, <1>7 DEF Healthy, n

\* A new trade: of a new signal, or added to one that may be added to.
LEMMA Added ==
    ASSUME NEW s, Healthy(s), NEW r, TradeInv(r),
           \/ r.root = Len(s) + 1
           \/ /\ r.root \in 1..Len(s)
              /\ s[r.root].root = r.root /\ s[r.root].half /\ s[r.root].spawned
              /\ \A c \in 1..Len(s) : s[c].root = r.root => c = r.root
    PROVE  LET n == Append(s, r) IN
           /\ Healthy(n) /\ Len(n) = Len(s) + 1 /\ n[Len(s) + 1] = r
           /\ \A j \in 1..Len(s) : n[j] = s[j]
<1> DEFINE n == Append(s, r)
<1>1. s \in Seq(Trade) /\ r \in Trade
  BY DEF Healthy, TradeInv
<1>2. /\ n \in Seq(Trade) /\ Len(n) = Len(s) + 1 /\ n[Len(s) + 1] = r
      /\ \A j \in 1..Len(s) : n[j] = s[j]
  BY <1>1, AppendProperties
<1>3. Len(s) \in Nat
  BY <1>1, LenProperties
<1> HIDE DEF n
<1>4. \A j \in 1..Len(n) : j \in 1..Len(s) \/ j = Len(s) + 1
  BY <1>2, <1>3
<1>5. \A j \in 1..Len(n) : TradeInv(n[j])
  BY <1>2, <1>4 DEF Healthy
<1>6. Rooted(n)
  BY <1>2, <1>3, <1>4 DEF Healthy, Rooted
<1>7. Family(n)
  <2> SUFFICES ASSUME NEW a \in 1..Len(n), NEW b \in 1..Len(n), a < b, n[a].root = n[b].root
               PROVE  /\ n[a].root = a /\ n[a].half /\ n[a].spawned
                      /\ \A c \in 1..Len(n) : c > a /\ n[c].root = a => c = b
    BY DEF Family
  <2>1. a \in 1..Len(s) /\ n[a] = s[a] /\ s[a].root \in 1..a
    BY <1>2, <1>3, <1>4 DEF Healthy, Rooted
  <2>2. CASE b \in 1..Len(s)
    <3>1. s[a].root = s[b].root
      BY <1>2, <2>1, <2>2
    <3>2. /\ s[a].root = a /\ s[a].half /\ s[a].spawned
          /\ \A c \in 1..Len(s) : c > a /\ s[c].root = a => c = b
      BY <2>1, <2>2, <3>1 DEF Healthy, Family
    <3>3. r.root # a
      <4> SUFFICES ASSUME r.root = a PROVE FALSE
        OBVIOUS
      <4>1. \A c \in 1..Len(s) : s[c].root = a => c = a
        BY <2>1, <1>3
      <4>2. b = a
        BY <2>2, <3>1, <3>2, <4>1
      <4> QED BY <2>1, <4>2
    <3> QED BY <1>2, <1>4, <2>1, <3>2, <3>3
  <2>3. CASE b = Len(s) + 1
    <3>1. r.root = s[a].root
      BY <1>2, <2>1, <2>3
    <3>2. r.root \in 1..Len(s)
      BY <2>1, <3>1, <1>3
    <3>3. /\ s[r.root].root = r.root /\ s[r.root].half /\ s[r.root].spawned
          /\ \A c \in 1..Len(s) : s[c].root = r.root => c = r.root
      BY <3>2, <1>3
    <3>4. a = r.root
      BY <2>1, <3>1, <3>3
    <3> QED BY <1>2, <1>3, <1>4, <2>1, <2>3, <3>3, <3>4
  <2> QED BY <2>2, <2>3, <1>4
<1> QED BY <1>2, <1>5, <1>6, <1>7 DEF Healthy, n

\* Judging a trade that is due.
LEMMA JudgeFacts ==
    ASSUME Inv, NEW id \in due, NEW weak \in BOOLEAN
    PROVE  /\ id \in Ids /\ TradeInv(trades[id]) /\ IsOpen(trades[id])
           /\ TradeInv(Judged(id, weak)) /\ Keeps(trades[id], Judged(id, weak))
           /\ Follows(trades[id], Judged(id, weak))
<1>1. id \in Ids /\ TradeInv(trades[id]) /\ IsOpen(trades[id])
  BY DEF Inv, OpenTrades, Healthy, Ids
<1>2. candle \in Candles /\ i \in Nat
  BY DEF Inv
<1>3. TradeInv(Judged(id, weak)) /\ Keeps(trades[id], Judged(id, weak))
  BY <1>1, <1>2, ProcessedStep DEF Judged
<1>4. Follows(trades[id], Judged(id, weak))
  BY <1>1, <1>3 DEF Follows, Keeps
<1> QED BY <1>1, <1>3, <1>4

LEMMA SpawnedFacts ==
    ASSUME NEW t, TradeInv(t)
    PROVE  LET r == [t EXCEPT !.spawned = TRUE] IN
           /\ TradeInv(r) /\ r.spawned /\ r.half = t.half /\ r.root = t.root
           /\ r.openedAt = t.openedAt /\ r.state = t.state
<1> DEFINE r == [t EXCEPT !.spawned = TRUE]
<1>1. t \in Trade
  BY DEF TradeInv
<1>2. /\ r.spawned /\ r.half = t.half /\ r.root = t.root /\ r.openedAt = t.openedAt
      /\ r.state = t.state /\ r.side = t.side /\ r.entry = t.entry /\ r.stop = t.stop
      /\ r.tp1 = t.tp1 /\ r.tp2 = t.tp2 /\ r.units = t.units /\ r.left = t.left
      /\ r.risk = t.risk /\ r.fees = t.fees /\ r.realized = t.realized
      /\ r.outcome = t.outcome
  BY <1>1 DEF Trade
<1>3. r \in Trade
  BY <1>1 DEF Trade
<1> HIDE DEF r
<1>4. \A p, q : Gain(r, p) = Gain(t, p) /\ Pnl(r, p, q) = Pnl(t, p, q)
  BY <1>2, SameGain
<1>5. Gross(r) = Gross(t)
  BY <1>2 DEF Gross
<1>6. Levels(r)
  BY <1>2, <1>4 DEF TradeInv, Levels
<1>7. /\ r.state = "open" => OpenInv(r)
      /\ r.state = "partial" => PartialInv(r)
  BY <1>2, <1>4, <1>5 DEF TradeInv, OpenInv, PartialInv
<1>8. r.state = "closed" => Bounded(r) /\ Pays(r)
  BY <1>2, <1>4, <1>5 DEF TradeInv, ClosedInv, Bounded, Pays
<1>9. r.state = "closed" => Explained(r)
  BY <1>2, <1>4, <1>5 DEF TradeInv, ClosedInv, Explained
<1>10. TradeInv(r)
  BY <1>3, <1>6, <1>7, <1>8, <1>9 DEF TradeInv, ClosedInv
<1> QED BY <1>2, <1>10 DEF r

-----------------------------------------------------------------------------
(* The invariant.                                                          *)

LEMMA InvInit == Init => Inv
<1> SUFFICES ASSUME Init PROVE Inv
  OBVIOUS
<1>1. /\ trades = << >> /\ due = {} /\ i = 1 /\ equity = InitialBalance
      /\ signalled = FALSE /\ candle \in Candles /\ following \in Candles /\ config \in Config
  BY DEF Init, Config
<1>2. Len(trades) = 0 /\ trades \in Seq(Trade)
  BY <1>1, EmptySeq
<1>3. 1..Len(trades) = {}
  BY <1>2
<1>4. Healthy(trades) /\ OneSignal(trades)
  BY <1>2, <1>3 DEF Healthy, Rooted, Family, OneSignal
<1> QED BY <1>1, <1>3, <1>4, NumbersAssumption DEF Inv, Ids, OpenTrades

\* The next candle: every open trade is due, and one candle older.
LEMMA NextCandleInv == Inv /\ NoSignal => Inv'
<1> SUFFICES ASSUME Inv, NoSignal PROVE Inv'
  OBVIOUS
<1>1. /\ i' = i + 1 /\ candle' = following /\ following' \in Candles
      /\ due' = OpenTrades /\ signalled' = FALSE
      /\ config' = config /\ trades' = trades /\ equity' = equity
  BY DEF NoSignal, NextCandle
<1>2. \A id \in Ids : trades[id].openedAt \in Nat
  BY TradeFields DEF Inv, Healthy, TradeInv, Ids
<1>3. \A id \in Ids : Seen(trades[id], id, i) => Seen(trades[id], id, i + 1)
  BY <1>2 DEF Inv, Seen
<1>4. i + 1 \in Nat /\ (i + 1) - 1 = i
  BY DEF Inv
<1>5. (\A id \in Ids : Seen(trades[id], id, i))'
  BY <1>1, <1>3 DEF Inv, Seen, Ids
<1>6. (\A id \in due : Seen(trades[id], id, i - 1))'
  BY <1>1, <1>4 DEF Inv, Seen, Ids, OpenTrades
<1> QED BY <1>1, <1>4, <1>5, <1>6 DEF Inv, Ids, OpenTrades

\* A step that changes trade id to r and takes it off the list keeps the
\* invariant's parts about the trades.
LEMMA JudgedInv ==
    ASSUME Inv, NEW id \in due, NEW r, TradeInv(r), Follows(trades[id], r),
           trades' = [trades EXCEPT ![id] = r], due' = due \ {id},
           equity' \in Int, UNCHANGED <<config, i, candle, following, signalled>>
    PROVE  Inv'
<1>1. id \in 1..Len(trades) /\ Healthy(trades)
  BY DEF Inv, OpenTrades, Ids
<1>2. /\ Healthy(trades') /\ Len(trades') = Len(trades) /\ trades'[id] = r
      /\ \A j \in 1..Len(trades) : j # id => trades'[j] = trades[j]
      /\ OneSignal(trades) => OneSignal(trades')
  <2> DEFINE n == [trades EXCEPT ![id] = r]
  <2>1. /\ Healthy(n) /\ Len(n) = Len(trades) /\ n[id] = r
        /\ \A j \in 1..Len(trades) : j # id => n[j] = trades[j]
        /\ OneSignal(trades) => OneSignal(n)
    BY <1>1, Replaced
  <2> QED BY <2>1
<1>3. Ids' = Ids
  BY <1>2 DEF Ids
<1>4. \A j \in Ids : /\ trades'[j].root = trades[j].root
                     /\ trades'[j].openedAt = trades[j].openedAt
  BY <1>2 DEF Follows, Ids
<1>5. /\ \A j \in Ids : Seen(trades[j], j, i)'
      /\ \A j \in due' : Seen(trades[j], j, i - 1)'
  BY <1>4 DEF Inv, Seen, OpenTrades
<1>6. due' \subseteq OpenTrades'
  BY <1>2, <1>3 DEF Inv, OpenTrades, Ids
<1> QED BY <1>2, <1>3, <1>5, <1>6 DEF Inv

LEMMA SettleInv ==
    ASSUME Inv, NEW id \in due, SettleTrade(id)
    PROVE  Inv'
<1> PICK weak \in BOOLEAN :
      /\ trades' = [trades EXCEPT ![id] = Judged(id, weak)]
      /\ equity' = equity + Judged(id, weak).realized
      /\ due' = due \ {id}
      /\ UNCHANGED <<config, i, candle, following, signalled>>
  BY DEF SettleTrade
<1>1. TradeInv(Judged(id, weak)) /\ Follows(trades[id], Judged(id, weak))
  BY JudgeFacts
<1>2. equity' \in Int
  BY <1>1, TradeFields DEF TradeInv, Inv
<1> QED BY <1>1, <1>2, JudgedInv

LEMMA HoldInv ==
    ASSUME Inv, NEW id \in due, HoldTrade(id)
    PROVE  Inv'
<1> PICK weak \in BOOLEAN :
      /\ trades' = [trades EXCEPT ![id] = Judged(id, weak)]
      /\ due' = due \ {id}
      /\ UNCHANGED <<config, i, candle, following, equity, signalled>>
  BY DEF HoldTrade
<1>1. TradeInv(Judged(id, weak)) /\ Follows(trades[id], Judged(id, weak))
  BY JudgeFacts
<1>2. equity' \in Int
  BY DEF Inv
<1> QED BY <1>1, <1>2, JudgedInv

\* A continuation: the trade it is added to took its first target on this
\* candle, opened its signal, and nothing was added to it before.
LEMMA ContinueSteps ==
    ASSUME Inv, NEW id \in due, Continue(id)
    PROVE  \E r, n :
             /\ TradeInv(r) /\ Follows(trades[id], r) /\ r.half /\ r.spawned
             /\ r.root = id /\ r.state = "partial" /\ id \in Ids
             /\ \A c \in Ids : trades[c].root = id => c = id
             /\ TradeInv(n) /\ n.state = "open" /\ n.root = id /\ n.openedAt = i
             /\ trades' = Append([trades EXCEPT ![id] = r], n)
             /\ due' = due \ {id}
             /\ UNCHANGED <<config, i, candle, following, equity, signalled>>
<1> PICK weak \in BOOLEAN, atr \in Atrs, units \in Units :
      LET t == Judged(id, weak)
          add == Continuation(t, candle, atr)
      IN  /\ IsOpen(t) /\ MayContinue(id, t) /\ RunsOn(t, candle, atr)
          /\ trades' = Append([trades EXCEPT ![id] = [t EXCEPT !.spawned = TRUE]],
                              Opened(add, t.root, i, units))
          /\ due' = due \ {id}
          /\ UNCHANGED <<config, i, candle, following, equity, signalled>>
  BY DEF Continue
<1> DEFINE t == Judged(id, weak)
           r == [t EXCEPT !.spawned = TRUE]
           n == Opened(Continuation(t, candle, atr), t.root, i, units)
<1>1. /\ id \in Ids /\ TradeInv(trades[id]) /\ IsOpen(trades[id])
      /\ TradeInv(t) /\ Keeps(trades[id], t) /\ Follows(trades[id], t)
  BY JudgeFacts
<1>2. t.state = "partial" /\ t.root = id /\ ~t.spawned /\ t.half
  BY <1>1 DEF MayContinue, TradeInv, PartialInv
<1>3. /\ TradeInv(r) /\ r.spawned /\ r.half /\ r.root = id /\ r.state = "partial"
      /\ Follows(trades[id], r)
  BY <1>1, <1>2, SpawnedFacts DEF Follows, IsOpen
<1>4. candle \in Candles /\ i \in Nat /\ id \in Nat
  BY <1>1 DEF Inv, Ids
<1>5. Placed(Continuation(t, candle, atr))
  BY <1>1, <1>2, <1>4, ContinuationPlaced
<1>6. TradeInv(n) /\ n.state = "open" /\ n.root = id /\ n.openedAt = i
  BY <1>2, <1>4, <1>5, OpenedFacts
<1>7. ASSUME NEW c \in Ids, trades[c].root = id PROVE c = id
  <2>1. Rooted(trades) /\ Family(trades) /\ Len(trades) \in Nat
    BY LenProperties DEF Inv, Healthy
  <2>2. trades[id].root = id /\ ~trades[id].spawned
    BY <1>1, <1>2 DEF Keeps
  <2>3. c >= id
    BY <1>4, <1>7, <2>1 DEF Rooted, Ids
  <2>4. ~(id < c)
    BY <1>1, <1>7, <2>1, <2>2 DEF Family, Ids
  <2> QED BY <2>1, <2>3, <2>4, <1>4 DEF Ids
<1>8. trades' = Append([trades EXCEPT ![id] = r], n)
  OBVIOUS
<1> HIDE DEF r, n
<1> QED BY <1>1, <1>3, <1>6, <1>7, <1>8

LEMMA ContinueInv ==
    ASSUME Inv, NEW id \in due, Continue(id)
    PROVE  Inv'
<1> PICK r, n :
      /\ TradeInv(r) /\ Follows(trades[id], r) /\ r.half /\ r.spawned
      /\ r.root = id /\ r.state = "partial" /\ id \in Ids
      /\ \A c \in Ids : trades[c].root = id => c = id
      /\ TradeInv(n) /\ n.state = "open" /\ n.root = id /\ n.openedAt = i
      /\ trades' = Append([trades EXCEPT ![id] = r], n)
      /\ due' = due \ {id}
      /\ UNCHANGED <<config, i, candle, following, equity, signalled>>
  BY ContinueSteps
<1> DEFINE m == [trades EXCEPT ![id] = r]
<1>1. Healthy(trades) /\ id \in 1..Len(trades)
  BY DEF Inv, Ids
<1>2. /\ Healthy(m) /\ Len(m) = Len(trades) /\ m[id] = r
      /\ \A j \in 1..Len(trades) : j # id => m[j] = trades[j]
      /\ OneSignal(trades) => OneSignal(m)
  BY <1>1, Replaced
<1>3. trades' = Append(m, n) /\ Len(trades) \in Nat
  BY <1>1, LenProperties DEF Healthy
<1> HIDE DEF m
<1>4. \A c \in 1..Len(m) : m[c].root = n.root => c = n.root
  BY <1>1, <1>2 DEF Ids
<1>5. /\ Healthy(trades') /\ Len(trades') = Len(trades) + 1
      /\ trades'[Len(trades) + 1] = n
      /\ \A j \in 1..Len(trades) : trades'[j] = m[j]
  <2>1. /\ n.root \in 1..Len(m) /\ m[n.root].root = n.root
        /\ m[n.root].half /\ m[n.root].spawned
    BY <1>1, <1>2
  <2>2. /\ Healthy(Append(m, n)) /\ Len(Append(m, n)) = Len(m) + 1
        /\ Append(m, n)[Len(m) + 1] = n
        /\ \A j \in 1..Len(m) : Append(m, n)[j] = m[j]
    BY <1>2, <1>4, <2>1, Added
  <2> QED BY <1>2, <1>3, <2>2
<1>6. \A j \in 1..Len(trades') : j \in 1..Len(trades) \/ j = Len(trades) + 1
  BY <1>3, <1>5
<1>7. config.oneTradeAtTime => OneSignal(trades')
  <2> SUFFICES ASSUME OneSignal(trades) PROVE OneSignal(trades')
    BY DEF Inv
  <2>1. OneSignal(m) /\ IsOpen(m[id]) /\ m[id].root = id
    BY <1>2 DEF IsOpen
  <2>2. \A j \in 1..Len(trades') : IsOpen(trades'[j]) => trades'[j].root = id
    BY <1>1, <1>2, <1>5, <1>6, <2>1 DEF OneSignal
  <2> QED BY <2>2 DEF OneSignal
<1>8. \A j \in 1..Len(trades) : /\ trades'[j].root = trades[j].root
                                /\ trades'[j].openedAt = trades[j].openedAt
  BY <1>2, <1>5 DEF Follows
<1>9. i \in Nat /\ n.openedAt = i /\ config' = config /\ i' = i
  BY DEF Inv
<1>10. \A j \in Ids' : Seen(trades[j], j, i)'
  <2> SUFFICES ASSUME NEW j \in Ids' PROVE Seen(trades[j], j, i)'
    OBVIOUS
  <2>1. CASE j \in 1..Len(trades)
    BY <2>1, <1>8, <1>9 DEF Inv, Seen, Ids
  <2>2. CASE j = Len(trades) + 1
    BY <2>2, <1>5, <1>9 DEF Seen
  <2> QED BY <2>1, <2>2, <1>6 DEF Ids
<1>11. \A j \in due' : Seen(trades[j], j, i - 1)'
  BY <1>8, <1>9 DEF Inv, Seen, Ids, OpenTrades
<1>12. due' \subseteq OpenTrades'
  BY <1>2, <1>3, <1>5 DEF Inv, OpenTrades, Ids
<1> QED BY <1>5, <1>7, <1>10, <1>11, <1>12 DEF Inv

\* A new signal: the next trade, of its own signal, entered now or at the next open.
LEMMA SignalSteps ==
    ASSUME Inv, NEW p \in Plans, TakeSignal(p)
    PROVE  \E n :
             /\ TradeInv(n) /\ n.state = "open" /\ n.root = Len(trades) + 1
             /\ n.openedAt = IF config.delayed THEN i + 1 ELSE i
             /\ trades' = Append(trades, n)
<1> PICK units \in Units :
      trades' = Append(trades, Opened(Executed(p), Len(trades) + 1,
                                      IF config.delayed THEN i + 1 ELSE i, units))
  BY DEF TakeSignal, Sizing
<1>1. /\ following \in Candles /\ config.realism \in BOOLEAN /\ i \in Nat
      /\ Len(trades) + 1 \in Nat
  BY LenProperties DEF Inv, Healthy, Config
<1>2. Placed(Executed(p))
  BY <1>1, ExecutedPlaced
<1> DEFINE bar == IF config.delayed THEN i + 1 ELSE i
           n == Opened(Executed(p), Len(trades) + 1, bar, units)
<1>3. bar \in Nat
  BY <1>1
<1>4. TradeInv(n) /\ n.state = "open" /\ n.root = Len(trades) + 1 /\ n.openedAt = bar
  BY <1>1, <1>2, <1>3, OpenedFacts
<1> QED BY <1>4

LEMMA SignalInv ==
    ASSUME Inv, NEW p \in Plans, TakeSignal(p)
    PROVE  Inv'
<1> PICK n :
      /\ TradeInv(n) /\ n.state = "open" /\ n.root = Len(trades) + 1
      /\ n.openedAt = IF config.delayed THEN i + 1 ELSE i
      /\ trades' = Append(trades, n)
  BY SignalSteps
<1>1. /\ due = {} /\ ~Blocked /\ signalled' = TRUE
      /\ UNCHANGED <<config, i, candle, following, due, equity>>
  BY DEF TakeSignal
<1>2. Healthy(trades) /\ Len(trades) \in Nat /\ i \in Nat
  BY LenProperties DEF Inv, Healthy
<1>3. /\ Healthy(trades') /\ Len(trades') = Len(trades) + 1
      /\ trades'[Len(trades) + 1] = n
      /\ \A j \in 1..Len(trades) : trades'[j] = trades[j]
  BY <1>2, Added
<1>4. \A j \in 1..Len(trades') : j \in 1..Len(trades) \/ j = Len(trades) + 1
  BY <1>2, <1>3
<1>5. config.oneTradeAtTime => OneSignal(trades')
  <2> SUFFICES ASSUME config.oneTradeAtTime PROVE OneSignal(trades')
    OBVIOUS
  <2>1. \A j \in 1..Len(trades) : ~IsOpen(trades[j])
    BY <1>1 DEF Blocked, OpenTrades, Ids
  <2> QED BY <1>3, <1>4, <2>1 DEF OneSignal
<1>6. \A j \in Ids' : Seen(trades[j], j, i)'
  <2> SUFFICES ASSUME NEW j \in Ids' PROVE Seen(trades[j], j, i)'
    OBVIOUS
  <2>1. CASE j \in 1..Len(trades)
    BY <2>1, <1>1, <1>3 DEF Inv, Seen, Ids
  <2>2. CASE j = Len(trades) + 1
    BY <2>2, <1>1, <1>2, <1>3 DEF Seen
  <2> QED BY <2>1, <2>2, <1>4 DEF Ids
<1>7. due' = {}
  BY <1>1
<1> QED BY <1>1, <1>3, <1>5, <1>6, <1>7 DEF Inv

LEMMA InvNext == Inv /\ [Next]_vars => Inv'
<1> SUFFICES ASSUME Inv, [Next]_vars PROVE Inv'
  OBVIOUS
<1>1. CASE NoSignal
  BY <1>1, NextCandleInv
<1>2. ASSUME NEW p \in Plans, TakeSignal(p) PROVE Inv'
  BY <1>2, SignalInv
<1>3. ASSUME NEW id \in due, SettleTrade(id) \/ HoldTrade(id) \/ Continue(id) PROVE Inv'
  BY <1>3, SettleInv, HoldInv, ContinueInv
<1>4. CASE UNCHANGED vars
  BY <1>4 DEF vars, Inv, Ids, OpenTrades, Seen
<1> QED BY <1>1, <1>2, <1>3, <1>4 DEF Next

LEMMA InvAlways == Spec => []Inv
<1> QED BY InvInit, InvNext, PTL DEF Spec

-----------------------------------------------------------------------------
(* The theorems.                                                           *)

\* What the replay keeps of its trades and balance is well typed, and what is
\* to be judged is open.
THEOREM TypeCorrect == Spec => []TypeOK
<1>1. Inv => TypeOK
  BY DEF Inv, TypeOK, Healthy, Config
<1> QED BY <1>1, InvAlways, PTL

\* What the invariant of a trade says of its result.
LEMMA TradeResult ==
    ASSUME NEW t, TradeInv(t)
    PROVE  Bounded(t) /\ Pays(t) /\ (~IsOpen(t) => Explained(t))
<1>1. t \in Trade /\ t.state \in {"open", "partial", "closed"} /\ t.risk \in Nat
  BY TradeFields DEF TradeInv
<1>2. Pnl(t, t.tp1, t.units) \in Int
  BY <1>1, PnlFacts, TradeFields
<1>3. CASE t.state = "open"
  BY <1>1, <1>3 DEF TradeInv, OpenInv, Bounded, Pays, IsOpen
<1>4. CASE t.state = "partial"
  BY <1>1, <1>2, <1>4 DEF TradeInv, PartialInv, Levels, Bounded, Pays, IsOpen
<1>5. CASE t.state = "closed"
  BY <1>5 DEF TradeInv, ClosedInv
<1> QED BY <1>1, <1>3, <1>4, <1>5

LEMMA InvTrades == Inv => LossBounded /\ FirstTargetPays /\ ClosedExplained
<1>1. Inv => \A id \in Ids : TradeInv(trades[id])
  BY DEF Inv, Healthy, Ids
<1> QED BY <1>1, TradeResult DEF LossBounded, FirstTargetPays, ClosedExplained

\* No trade loses more than the risk it was sized with, fees apart, whatever
\* the candles, the slippage and the delay.
THEOREM LossesAreBounded == Spec => []LossBounded
<1> QED BY InvTrades, InvAlways, PTL

\* Once a trade took its first target the rest of it gives nothing back.
THEOREM FirstTargetIsKept == Spec => []FirstTargetPays
<1> QED BY InvTrades, InvAlways, PTL

\* The result of a closed trade is a function of its outcome and levels.
THEOREM ResultsFollowOutcomes == Spec => []ClosedExplained
<1> QED BY InvTrades, InvAlways, PTL

\* A signal is added to once, by a trade whose stop is then at its entry.
THEOREM AddOnsAreSafe == Spec => []OneAtRisk
<1>1. Inv => OneAtRisk
  BY DEF Inv, Healthy, Family, OneAtRisk, Ids
<1> QED BY <1>1, InvAlways, PTL

\* With oneTradeAtTime all open trades belong to one signal.
THEOREM OneSignalOpen == Spec => []OneSignalAtATime
<1>1. Inv => OneSignalAtATime
  BY DEF Inv, OneSignal, OneSignalAtATime, OpenTrades, Ids
<1> QED BY <1>1, InvAlways, PTL

-----------------------------------------------------------------------------
(* What each step does to the list of trades.                              *)

\* A judged trade is replaced.
LEMMA JudgedList ==
    ASSUME Inv, NEW id \in due, NEW r, TradeInv(r), trades' = [trades EXCEPT ![id] = r]
    PROVE  /\ id \in Ids /\ Ids' = Ids /\ trades'[id] = r
           /\ \A j \in Ids : j # id => trades'[j] = trades[j]
<1>1. id \in 1..Len(trades) /\ trades \in Seq(Trade) /\ r \in Trade
  BY DEF Inv, OpenTrades, Ids, Healthy, TradeInv
<1> QED BY <1>1, ExceptSeq DEF Ids

\* An add-on follows the trade it is added to onto the list.
LEMMA ContinuedList ==
    ASSUME Inv, NEW id \in due, Continue(id)
    PROVE  /\ Ids' = Ids \cup {Len(trades) + 1} /\ Len(trades) + 1 \notin Ids
           /\ \A j \in Ids : j # id => trades'[j] = trades[j]
           /\ IsOpen(trades'[id]) /\ IsOpen(trades'[Len(trades) + 1])
<1> PICK r, n :
      /\ TradeInv(r) /\ Follows(trades[id], r) /\ r.half /\ r.spawned
      /\ r.root = id /\ r.state = "partial" /\ id \in Ids
      /\ \A c \in Ids : trades[c].root = id => c = id
      /\ TradeInv(n) /\ n.state = "open" /\ n.root = id /\ n.openedAt = i
      /\ trades' = Append([trades EXCEPT ![id] = r], n)
      /\ due' = due \ {id}
      /\ UNCHANGED <<config, i, candle, following, equity, signalled>>
  BY ContinueSteps
<1> DEFINE m == [trades EXCEPT ![id] = r]
<1>1. trades \in Seq(Trade) /\ r \in Trade /\ n \in Trade /\ id \in 1..Len(trades)
  BY DEF Inv, Healthy, TradeInv, Ids
<1>2. /\ m \in Seq(Trade) /\ Len(m) = Len(trades)
      /\ \A j \in 1..Len(trades) : m[j] = IF j = id THEN r ELSE trades[j]
  BY <1>1, ExceptSeq
<1>3. trades' = Append(m, n)
  OBVIOUS
<1> HIDE DEF m
<1>4. /\ Len(trades') = Len(trades) + 1 /\ trades'[Len(trades) + 1] = n
      /\ \A j \in 1..Len(trades) : trades'[j] = m[j]
  BY <1>1, <1>2, <1>3, AppendProperties
<1>5. Len(trades) \in Nat
  BY <1>1, LenProperties
<1> QED BY <1>1, <1>2, <1>4, <1>5 DEF Ids, IsOpen

\* A signal's trade is put at the end of the list.
LEMMA SignalList ==
    ASSUME Inv, NEW p \in Plans, TakeSignal(p)
    PROVE  /\ Ids' = Ids \cup {Len(trades) + 1} /\ Len(trades) + 1 \notin Ids
           /\ \A j \in Ids : trades'[j] = trades[j]
           /\ IsOpen(trades'[Len(trades) + 1])
<1> PICK n :
      /\ TradeInv(n) /\ n.state = "open" /\ n.root = Len(trades) + 1
      /\ n.openedAt = IF config.delayed THEN i + 1 ELSE i
      /\ trades' = Append(trades, n)
  BY SignalSteps
<1>1. trades \in Seq(Trade) /\ n \in Trade
  BY DEF Inv, Healthy, TradeInv
<1>2. /\ Len(trades') = Len(trades) + 1 /\ trades'[Len(trades) + 1] = n
      /\ \A j \in 1..Len(trades) : trades'[j] = trades[j]
  BY <1>1, AppendProperties
<1>3. Len(trades) \in Nat
  BY <1>1, LenProperties
<1> QED BY <1>2, <1>3 DEF Ids, IsOpen

\* Only a trade that is due changes.
LEMMA OnlyDueChange ==
    ASSUME Inv, [Next]_vars, NEW id \in Ids, trades'[id] # trades[id]
    PROVE  id \in due
<1>1. ASSUME NEW d \in due, SettleTrade(d) \/ HoldTrade(d) PROVE id = d
  <2> PICK weak \in BOOLEAN : trades' = [trades EXCEPT ![d] = Judged(d, weak)]
    BY <1>1 DEF SettleTrade, HoldTrade
  <2>1. TradeInv(Judged(d, weak))
    BY JudgeFacts
  <2>2. \A j \in Ids : j # d => trades'[j] = trades[j]
    BY <2>1, JudgedList
  <2> QED BY <2>2
<1>2. ASSUME NEW d \in due, Continue(d) PROVE id = d
  BY <1>2, ContinuedList
<1>3. ASSUME NEW p \in Plans, TakeSignal(p) PROVE FALSE
  BY <1>3, SignalList
<1>4. ~NoSignal /\ ~UNCHANGED vars
  BY DEF NoSignal, vars
<1> QED BY <1>1, <1>2, <1>3, <1>4 DEF Next

\* No trade is judged by the candle it was entered on, unless it was entered
\* at that candle's open.
THEOREM JudgedOnlyLater == Spec => JudgedLater
<1>1. Inv /\ [Next]_vars =>
        [\A id \in Ids : trades'[id] # trades[id] =>
            LET t == trades[id] IN
            IF config.delayed /\ t.root = id THEN i >= t.openedAt ELSE i > t.openedAt]_vars
  <2> SUFFICES ASSUME Inv, [Next]_vars, NEW id \in Ids, trades'[id] # trades[id]
               PROVE  IF config.delayed /\ trades[id].root = id
                      THEN i >= trades[id].openedAt ELSE i > trades[id].openedAt
    OBVIOUS
  <2>1. id \in due
    BY OnlyDueChange
  <2>2. Seen(trades[id], id, i - 1)
    BY <2>1 DEF Inv
  <2>3. trades[id].openedAt \in Nat /\ i \in Nat
    BY TradeFields DEF Inv, Healthy, TradeInv, Ids
  <2> QED BY <2>2, <2>3 DEF Seen
<1> QED BY <1>1, InvAlways, PTL DEF Spec, JudgedLater

-----------------------------------------------------------------------------
(* The ledger.                                                             *)

Settlements == [id \in Ids \ OpenTrades |-> trades[id].realized]

LEMMA LedgerInit == Init => LedgerOfReplay!Init
<1> SUFFICES ASSUME Init PROVE LedgerOfReplay!Init
  OBVIOUS
<1>1. trades = << >> /\ equity = InitialBalance
  BY DEF Init
<1>2. Ids = {}
  BY <1>1 DEF Ids
<1>3. OpenTrades = {}
  BY <1>2 DEF OpenTrades
<1> QED BY <1>1, <1>2, <1>3 DEF LedgerOfReplay!Init

\* A step that leaves the settled trades alone and opens at most trade n.
LEMMA LedgerSame ==
    ASSUME \A j \in Ids \ OpenTrades : trades'[j] = trades[j],
           (Ids \ OpenTrades)' = Ids \ OpenTrades
    PROVE  Settlements' = Settlements
  BY DEF Settlements

LEMMA LedgerStep ==
    Inv /\ [Next]_vars => [LedgerOfReplay!Next]_<<OpenTrades, Settlements, equity>>
<1> SUFFICES ASSUME Inv, [Next]_vars
             PROVE  [LedgerOfReplay!Next]_<<OpenTrades, Settlements, equity>>
  OBVIOUS
<1>1. CASE NoSignal \/ UNCHANGED vars
  <2>1. trades' = trades /\ equity' = equity
    BY <1>1 DEF NoSignal, vars
  <2> QED BY <2>1 DEF OpenTrades, Settlements, Ids
<1>2. ASSUME NEW id \in due, HoldTrade(id)
      PROVE  UNCHANGED <<OpenTrades, Settlements, equity>>
  <2> PICK weak \in BOOLEAN : /\ IsOpen(Judged(id, weak)) /\ equity' = equity
                              /\ trades' = [trades EXCEPT ![id] = Judged(id, weak)]
    BY <1>2 DEF HoldTrade
  <2>1. TradeInv(Judged(id, weak)) /\ IsOpen(trades[id]) /\ id \in Ids
    BY JudgeFacts
  <2>2. /\ Ids' = Ids /\ trades'[id] = Judged(id, weak)
        /\ \A j \in Ids : j # id => trades'[j] = trades[j]
    BY <2>1, JudgedList
  <2>3. OpenTrades' = OpenTrades
    BY <2>1, <2>2 DEF OpenTrades
  <2>4. id \in OpenTrades
    BY <2>1 DEF OpenTrades
  <2> QED BY <2>2, <2>3, <2>4, LedgerSame
<1>3. ASSUME NEW id \in due, SettleTrade(id) PROVE LedgerOfReplay!Next
  <2> PICK weak \in BOOLEAN : /\ ~IsOpen(Judged(id, weak))
                              /\ equity' = equity + Judged(id, weak).realized
                              /\ trades' = [trades EXCEPT ![id] = Judged(id, weak)]
    BY <1>3 DEF SettleTrade
  <2>1. TradeInv(Judged(id, weak)) /\ IsOpen(trades[id]) /\ id \in Ids
    BY JudgeFacts
  <2>2. /\ Ids' = Ids /\ trades'[id] = Judged(id, weak)
        /\ \A j \in Ids : j # id => trades'[j] = trades[j]
    BY <2>1, JudgedList
  <2>3. OpenTrades' = OpenTrades \ {id} /\ id \in OpenTrades
    BY <2>1, <2>2 DEF OpenTrades
  <2>4. /\ DOMAIN Settlements = Ids \ OpenTrades
        /\ DOMAIN Settlements' = (Ids \ OpenTrades) \cup {id}
        /\ id \notin DOMAIN Settlements
    BY <2>1, <2>2, <2>3 DEF Settlements
  <2>5. Settlements'[id] = Judged(id, weak).realized
    BY <2>1, <2>2, <2>3 DEF Settlements
  <2>6. \A u \in DOMAIN Settlements : Settlements'[u] = Settlements[u]
    BY <2>1, <2>2, <2>3, <2>4 DEF Settlements
  <2>7. LedgerOfReplay!Settle(id)
    BY <2>3, <2>4, <2>5, <2>6 DEF LedgerOfReplay!Settle, Settlements
  <2> QED BY <2>3, <2>7 DEF LedgerOfReplay!Next
<1>4. ASSUME NEW n, n \notin Ids, Ids' = Ids \cup {n}, OpenTrades' = OpenTrades \cup {n},
             equity' = equity, \A j \in Ids \ OpenTrades : trades'[j] = trades[j]
      PROVE  LedgerOfReplay!Next
  <2>1. (Ids \ OpenTrades)' = Ids \ OpenTrades
    BY <1>4
  <2>2. Settlements' = Settlements
    BY <1>4, <2>1, LedgerSame
  <2>3. n \notin DOMAIN Settlements /\ n \notin OpenTrades
    BY <1>4 DEF Settlements, OpenTrades
  <2>4. LedgerOfReplay!Enter(n)
    BY <1>4, <2>2, <2>3 DEF LedgerOfReplay!Enter, Settlements
  <2> QED BY <1>4, <2>3, <2>4 DEF LedgerOfReplay!Next
<1>5. ASSUME NEW id \in due, Continue(id) PROVE LedgerOfReplay!Next
  <2>1. /\ Ids' = Ids \cup {Len(trades) + 1} /\ Len(trades) + 1 \notin Ids
        /\ \A j \in Ids : j # id => trades'[j] = trades[j]
        /\ IsOpen(trades'[id]) /\ IsOpen(trades'[Len(trades) + 1])
    BY <1>5, ContinuedList
  <2>2. id \in OpenTrades /\ equity' = equity
    BY <1>5 DEF Inv, Continue
  <2>3. OpenTrades' = OpenTrades \cup {Len(trades) + 1}
    BY <2>1, <2>2 DEF OpenTrades
  <2> QED BY <1>4, <2>1, <2>2, <2>3
<1>6. ASSUME NEW p \in Plans, TakeSignal(p) PROVE LedgerOfReplay!Next
  <2>1. /\ Ids' = Ids \cup {Len(trades) + 1} /\ Len(trades) + 1 \notin Ids
        /\ \A j \in Ids : trades'[j] = trades[j]
        /\ IsOpen(trades'[Len(trades) + 1])
    BY <1>6, SignalList
  <2>2. equity' = equity
    BY <1>6 DEF TakeSignal
  <2>3. OpenTrades' = OpenTrades \cup {Len(trades) + 1}
    BY <2>1 DEF OpenTrades
  <2> QED BY <1>4, <2>1, <2>2, <2>3
<1> QED BY <1>1, <1>2, <1>3, <1>5, <1>6 DEF Next

\* The replay implements its ledger: trades are entered once and settled once,
\* and the equity is the balance of the settlements.
THEOREM ImplementsLedger == Spec => LedgerSpec
<1>1. Inv /\ [Next]_vars =>
        [LedgerOfReplay!Next]_<<OpenTrades, [id \in Ids \ OpenTrades |-> trades[id].realized], equity>>
  BY LedgerStep DEF Settlements
<1> QED BY <1>1, LedgerInit, InvAlways, PTL DEF Spec, LedgerSpec, LedgerOfReplay!Spec
=============================================================================
