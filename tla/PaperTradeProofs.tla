-------------------------- MODULE PaperTradeProofs --------------------------
(***************************************************************************)
(* Theorems about PaperTrade, for every set of trades, plans, quantities   *)
(* and prices and every fraction the configuration admits.                 *)
(*                                                                         *)
(* The inductive invariant says of a row what the next price may assume:   *)
(* before the first target nothing is sold and the stop lies between the   *)
(* planned stop and the first target; after it the banked profit and the   *)
(* protected stop are both on the winning side of the entry, the stop no   *)
(* farther than the best a unit may gain.                                  *)
(***************************************************************************)
EXTENDS PaperTrade, TLAPS

BeforeTp1(r) ==
    /\ r.realized = 0 /\ r.qty = r.size /\ r.outcome = "open"
    /\ Gain(r.plan, r.plan.stop) <= Gain(r.plan, r.stop)
    /\ Gain(r.plan, r.stop) < Gain(r.plan, r.plan.tp1)

AfterTp1(r) ==
    /\ r.realized >= 0 /\ r.qty <= r.size
    /\ 0 <= Gain(r.plan, r.stop) /\ Gain(r.plan, r.stop) <= Best(r.plan)
    /\ r.realized + Best(r.plan) * r.qty <= Best(r.plan) * r.size

Bounded(r) == /\ r.realized >= Pnl(r.plan, r.plan.stop, r.size)
              /\ r.realized <= Best(r.plan) * r.size
Honest(r)  == r.outcome \in {"win", "partial_win"} => r.realized >= 0

RowInv(r) ==
    /\ r \in Row
    /\ Active(r) => IF r.tp1Hit THEN AfterTp1(r) ELSE BeforeTp1(r)
    /\ Bounded(r) /\ Honest(r)

Inv == /\ TypeOK
       /\ \A t \in Trades : Exists(t) => RowInv(trades[t])
       /\ \A t \in pass : Exists(t) => Active(trades[t])

-----------------------------------------------------------------------------
(* Arithmetic.                                                             *)

\* A product with a natural number keeps the order.
LEMMA ProductMonotone ==
    ASSUME NEW a \in Int, NEW b \in Int, NEW q \in Nat, a <= b
    PROVE  a * q <= b * q
  OBVIOUS

\* A share of a natural number is at most that number.
LEMMA ShareBounded ==
    ASSUME NEW m \in Nat, NEW n \in Nat, NEW d \in Nat \ {0}, n <= d
    PROVE  /\ (m * n) \div d \in Nat
           /\ (m * n) \div d <= m
<1>1. m * n \in Nat /\ m * n <= m * d
  <2>1. n * m <= d * m
    BY ProductMonotone
  <2> QED BY <2>1
<1> DEFINE k == (m * n) \div d
<1>2. k \in Int /\ d * k <= m * n
  BY <1>1
<1>3. k >= 0
  BY <1>1
<1>4. k <= m
  <2> SUFFICES ASSUME k >= m + 1 PROVE FALSE
    BY <1>2
  <2>1. (m + 1) * d <= k * d
    BY <1>2, ProductMonotone
  <2> QED BY <2>1, <1>1, <1>2
<1> QED BY <1>2, <1>3, <1>4

\* A share of a larger number is no smaller, and a share is a natural number.
LEMMA ShareMonotone ==
    ASSUME NEW m \in Nat, NEW k \in Nat, NEW n \in Nat, NEW d \in Nat \ {0}, m <= k
    PROVE  /\ (m * n) \div d \in Nat /\ (k * n) \div d \in Nat
           /\ (m * n) \div d <= (k * n) \div d
<1> DEFINE a == m * n
           b == k * n
<1>1. a \in Nat /\ b \in Nat /\ a <= b
  BY ProductMonotone
<1> HIDE DEF a, b
<1>2. /\ a = d * (a \div d) + (a % d) /\ a % d \in 0..(d - 1) /\ a \div d \in Int
      /\ b = d * (b \div d) + (b % d) /\ b % d \in 0..(d - 1) /\ b \div d \in Int
  BY <1>1
<1> DEFINE s == a \div d
           u == b \div d
<1>2a. /\ a = d * s + (a % d) /\ a % d \in 0..(d - 1) /\ s \in Int
       /\ b = d * u + (b % d) /\ b % d \in 0..(d - 1) /\ u \in Int
  BY <1>2
<1> HIDE DEF s, u
<1>3. ASSUME NEW x \in Int, x < 0 PROVE d * x <= -d
  <2>1. x * d <= (-1) * d
    BY <1>3, ProductMonotone
  <2> QED BY <2>1
<1>4. s >= 0 /\ u >= 0
  <2>1. d * s > -d /\ d * u > -d
    BY <1>1, <1>2a
  <2> QED BY <1>2a, <1>3, <2>1
<1>5. s <= u
  <2> DEFINE x == u - s
  <2>1. x \in Int /\ d * x = d * u - d * s /\ d * x > -d
    BY <1>1, <1>2a
  <2> HIDE DEF x
  <2>2. ~(x < 0)
    BY <1>3, <2>1
  <2> QED BY <1>2a, <2>1, <2>2 DEF x
<1> QED BY <1>2, <1>4, <1>5 DEF s, u, a, b

-----------------------------------------------------------------------------
(* Prices of a plan and where a stop may lie.                              *)

\* What a row's fields are.
LEMMA RowFacts ==
    ASSUME NEW r \in Row
    PROVE  /\ r.plan \in Plan /\ WellPlanned(r.plan)
           /\ r.size \in Nat /\ r.size > 0 /\ r.qty \in Nat
           /\ r.stop \in Int /\ r.realized \in Int
<1>1. /\ r.plan \in Plans /\ r.size \in Quantities /\ r.qty \in Nat
      /\ r.stop \in Int /\ r.realized \in Int
  BY DEF Row
<1>2. r.plan \in Plan /\ WellPlanned(r.plan)
  BY <1>1, PlansAssumption
<1>3. r.size \in Nat /\ r.size > 0
  <2>1. \A q \in Quantities : q \in Nat /\ q > 0
    BY QuantitiesAssumption
  <2> QED BY <1>1, <2>1
<1> QED BY <1>1, <1>2, <1>3

\* A gain is an integer, and gains order prices.
LEMMA GainInt ==
    ASSUME NEW plan \in Plan, NEW price \in Int
    PROVE  /\ Gain(plan, price) \in Int
           /\ Gain(plan, price) = IF plan.side = "SHORT" THEN plan.entry - price
                                                         ELSE price - plan.entry
  BY DEF Plan, Gain, Sign

\* The best gain of a unit is at least that of the second target.
LEMMA BestFacts ==
    ASSUME NEW plan \in Plan, WellPlanned(plan)
    PROVE  /\ Best(plan) \in Int /\ 0 <= Best(plan)
           /\ Gain(plan, plan.tp2) <= Best(plan)
           /\ \A m \in Nat : m <= Greatest(-Gain(plan, plan.stop), Gain(plan, plan.tp1)) =>
                  (m * ProtectNum) \div ProtectDen <= Best(plan)
<1> DEFINE farthest == Greatest(-Gain(plan, plan.stop), Gain(plan, plan.tp1))
           share == (farthest * ProtectNum) \div ProtectDen
<1>1. /\ Gain(plan, plan.stop) \in Int /\ Gain(plan, plan.tp1) \in Int
      /\ Gain(plan, plan.tp2) \in Int
  BY GainInt DEF Plan
<1>2. farthest \in Nat /\ 0 <= Gain(plan, plan.tp2)
  BY <1>1 DEF WellPlanned, Greatest
<1> HIDE DEF farthest
<1>3. share \in Nat /\ \A m \in Nat : m <= farthest => (m * ProtectNum) \div ProtectDen <= share
  BY <1>2, ShareMonotone, FractionsAssumption
<1>4. /\ \A m \in Nat : (m * ProtectNum) \div ProtectDen \in Nat
      /\ Best(plan) = Greatest(Gain(plan, plan.tp2), share)
  BY ShareMonotone, FractionsAssumption DEF Best, farthest
<1> HIDE DEF share
<1> QED BY <1>1, <1>2, <1>3, <1>4 DEF Greatest, farthest

\* Profit at a better price is at least as much, and an integer.
LEMMA PnlMonotone ==
    ASSUME NEW plan \in Plan, NEW p \in Int, NEW q \in Int, NEW n \in Nat,
           Gain(plan, p) <= Gain(plan, q)
    PROVE  /\ Pnl(plan, p, n) \in Int /\ Pnl(plan, q, n) \in Int
           /\ Pnl(plan, p, n) <= Pnl(plan, q, n)
<1>1. Gain(plan, p) \in Int /\ Gain(plan, q) \in Int
  BY GainInt
<1>2. Gain(plan, p) * n <= Gain(plan, q) * n
  BY <1>1, ProductMonotone
<1> QED BY <1>1, <1>2 DEF Pnl

\* Profit has the sign of the gain.
LEMMA PnlSign ==
    ASSUME NEW plan \in Plan, NEW p \in Int, NEW n \in Nat
    PROVE  /\ Gain(plan, p) >= 0 => Pnl(plan, p, n) >= 0
           /\ Gain(plan, p) <= 0 => Pnl(plan, p, n) <= 0
           /\ Pnl(plan, p, 0) = 0
<1>1. Gain(plan, p) \in Int
  BY GainInt
<1>2. Gain(plan, p) >= 0 => 0 * n <= Gain(plan, p) * n
  BY <1>1, ProductMonotone
<1>3. Gain(plan, p) <= 0 => Gain(plan, p) * n <= 0 * n
  BY <1>1, ProductMonotone
<1> QED BY <1>1, <1>2, <1>3 DEF Pnl

\* The protected stop is in profit, no farther than the best of a unit if the
\* stop it was computed from lies between the planned one and the first target.
LEMMA ProtectedStopBounds ==
    ASSUME NEW plan \in Plan, WellPlanned(plan), NEW stop \in Int,
           Gain(plan, plan.stop) <= Gain(plan, stop), Gain(plan, stop) < Gain(plan, plan.tp1)
    PROVE  /\ ProtectedStop(plan, stop) \in Int
           /\ 0 <= Gain(plan, ProtectedStop(plan, stop))
           /\ Gain(plan, ProtectedStop(plan, stop)) <= Best(plan)
<1> DEFINE risk == Abs(plan.entry - stop)
           share == (risk * ProtectNum) \div ProtectDen
<1>1. /\ plan.entry \in Int /\ plan.side \in {"LONG", "SHORT"}
      /\ Gain(plan, plan.stop) \in Int /\ Gain(plan, plan.tp1) \in Int /\ Gain(plan, stop) \in Int
  BY GainInt DEF Plan
<1>2. risk \in Nat /\ risk = Abs(Gain(plan, stop))
  BY <1>1, GainInt DEF Abs
<1>3. risk <= Greatest(-Gain(plan, plan.stop), Gain(plan, plan.tp1))
  BY <1>1, <1>2 DEF Abs, Greatest
<1> HIDE DEF risk
<1>4. share \in Nat /\ share <= Best(plan)
  <2>1. share \in Nat
    BY <1>2, ShareMonotone, FractionsAssumption
  <2> QED BY <2>1, <1>2, <1>3, BestFacts
<1>5. CASE risk = 0
  <2>1. ProtectedStop(plan, stop) = stop /\ stop = plan.entry
    BY <1>1, <1>5 DEF ProtectedStop, Abs, risk
  <2> QED BY <2>1, <1>1, <1>2, <1>5, GainInt, BestFacts DEF Abs
<1>6. CASE risk # 0
  <2>1. ProtectedStop(plan, stop) = plan.entry + Sign(plan) * share
    BY <1>6 DEF ProtectedStop, risk
  <2>2. Gain(plan, plan.entry + Sign(plan) * share) = share
    <3> HIDE DEF share
    <3> QED BY <1>1, <1>4 DEF Gain, Sign
  <2>3. plan.entry + Sign(plan) * share \in Int
    BY <1>1, <1>4 DEF Sign
  <2> QED BY <2>1, <2>2, <2>3, <1>4
<1> QED BY <1>5, <1>6

\* A tightened stop is no looser than the stop and stays short of the price.
LEMMA TightenedStopBounds ==
    ASSUME NEW r \in Row, NEW price \in Int
    PROVE  /\ TightenedStop(r, price) \in Int
           /\ Gain(r.plan, r.stop) <= Gain(r.plan, TightenedStop(r, price))
           /\ \/ TightenedStop(r, price) = r.stop
              \/ Gain(r.plan, TightenedStop(r, price)) < Gain(r.plan, price)
<1> DEFINE share == (Abs(r.plan.entry - r.stop) * TightenNum) \div TightenDen
           distance == Greatest(share, TightenFloor)
<1>1. /\ r.plan \in Plan /\ r.plan.entry \in Int /\ r.stop \in Int
      /\ r.plan.side \in {"LONG", "SHORT"}
  BY RowFacts DEF Plan
<1>2. share \in Int
  <2>1. Abs(r.plan.entry - r.stop) * TightenNum \in Int
    BY <1>1, FractionsAssumption DEF Abs
  <2> QED BY <2>1, FractionsAssumption
<1>3. distance \in Int /\ distance >= 1
  <2> HIDE DEF share
  <2> QED BY <1>2, FractionsAssumption DEF Greatest
<1>4. TightenedStop(r, price) = IF r.plan.side = "SHORT" THEN Least(r.stop, price + distance)
                                ELSE Greatest(r.stop, price - distance)
  BY DEF TightenedStop
<1> HIDE DEF distance
<1> QED BY <1>1, <1>3, <1>4 DEF Gain, Sign, Least, Greatest

-----------------------------------------------------------------------------
(* Each outcome of a managed row keeps the invariant of rows.              *)

\* What closing does to the fields of a row.
LEMMA ClosedFields ==
    ASSUME NEW r \in Row, NEW price \in Int,
           NEW status \in {"tp2_hit", "stop_hit", "closed"}, NEW outcome \in Outcomes
    PROVE  LET c == Closed(r, price, status, outcome)
           IN  /\ c \in Row /\ c.plan = r.plan /\ c.size = r.size /\ ~Active(c)
               /\ c.realized = r.realized + Pnl(r.plan, price, r.qty)
               /\ c.outcome = outcome
<1> DEFINE c == Closed(r, price, status, outcome)
<1>1. Pnl(r.plan, price, r.qty) \in Int
  BY RowFacts, GainInt, PnlMonotone
<1>2. r.realized + Pnl(r.plan, price, r.qty) \in Int
  BY <1>1, RowFacts
<1>3. c \in Row
  BY <1>2 DEF Closed, Row, Statuses
<1>4. /\ c.plan = r.plan /\ c.size = r.size /\ c.status = status
      /\ c.realized = r.realized + Pnl(r.plan, price, r.qty) /\ c.outcome = outcome
  BY DEF Closed, Row
<1> QED BY <1>3, <1>4 DEF Active

\* A close at the stop, at a price beyond it or, after the first target, at no
\* loss, and no farther than the best of a unit, stays within the bounds; after
\* the first target the trade did not lose.
LEMMA CloseBounded ==
    ASSUME NEW r, RowInv(r), Active(r), NEW price \in Int,
           \/ Gain(r.plan, r.stop) <= Gain(r.plan, price)
           \/ r.tp1Hit /\ 0 <= Gain(r.plan, price),
           Gain(r.plan, price) <= Best(r.plan)
    PROVE  LET profit == r.realized + Pnl(r.plan, price, r.qty)
           IN  /\ profit \in Int
               /\ profit >= Pnl(r.plan, r.plan.stop, r.size)
               /\ profit <= Best(r.plan) * r.size
               /\ r.tp1Hit => profit >= 0
               /\ Gain(r.plan, price) >= 0 => profit >= 0
<1>1. r \in Row
  BY DEF RowInv
<1>2. /\ r.plan \in Plan /\ WellPlanned(r.plan) /\ r.plan.stop \in Int
      /\ r.size \in Nat /\ r.qty \in Nat /\ r.stop \in Int /\ r.realized \in Int
      /\ Best(r.plan) \in Int
  BY <1>1, RowFacts, BestFacts DEF Plan
<1>3. /\ Gain(r.plan, price) \in Int /\ Gain(r.plan, r.plan.stop) \in Int
      /\ Gain(r.plan, r.stop) \in Int
  BY <1>2, GainInt
<1>4. /\ Pnl(r.plan, price, r.qty) \in Int /\ Best(r.plan) * r.qty \in Int
      /\ Best(r.plan) * r.size \in Int
      /\ Pnl(r.plan, price, r.qty) <= Best(r.plan) * r.qty
  BY <1>2, <1>3, ProductMonotone DEF Pnl
<1>5. CASE r.tp1Hit
  <2>1. AfterTp1(r)
    BY <1>5 DEF RowInv
  <2>2. Pnl(r.plan, price, r.qty) >= 0
    BY <2>1, <1>2, <1>3, PnlSign DEF AfterTp1
  <2>3. Pnl(r.plan, r.plan.stop, r.size) <= 0 /\ Pnl(r.plan, r.plan.stop, r.size) \in Int
    BY <1>2, <1>3, PnlSign, PnlMonotone DEF WellPlanned
  <2> QED BY <2>1, <2>2, <2>3, <1>2, <1>4 DEF AfterTp1
<1>6. CASE ~r.tp1Hit
  <2>1. BeforeTp1(r)
    BY <1>6 DEF RowInv
  <2>2. Gain(r.plan, r.plan.stop) <= Gain(r.plan, price)
    BY <2>1, <1>3, <1>6 DEF BeforeTp1
  <2>3. /\ Pnl(r.plan, r.plan.stop, r.size) \in Int
        /\ Pnl(r.plan, r.plan.stop, r.size) <= Pnl(r.plan, price, r.size)
    BY <2>2, <1>2, PnlMonotone
  <2>4. Gain(r.plan, price) >= 0 => Pnl(r.plan, price, r.qty) >= 0
    BY <1>2, PnlSign
  <2> QED BY <2>1, <2>3, <2>4, <1>2, <1>4, <1>6 DEF BeforeTp1
<1> QED BY <1>5, <1>6

\* The order of a row's levels that every branch relies on.
LEMMA LevelsOrdered ==
    ASSUME NEW r, RowInv(r), Active(r)
    PROVE  /\ r \in Row /\ r.plan \in Plan /\ WellPlanned(r.plan)
           /\ r.stop \in Int /\ r.plan.stop \in Int /\ r.plan.tp1 \in Int /\ r.plan.tp2 \in Int
           /\ Gain(r.plan, r.plan.stop) \in Int /\ Gain(r.plan, r.stop) \in Int
           /\ Gain(r.plan, r.plan.tp1) \in Int /\ Gain(r.plan, r.plan.tp2) \in Int
           /\ Gain(r.plan, r.stop) <= Best(r.plan)
           /\ Gain(r.plan, r.plan.tp2) <= Best(r.plan) /\ Best(r.plan) \in Int
<1>1. r \in Row /\ r.plan \in Plan /\ WellPlanned(r.plan)
  BY RowFacts DEF RowInv
<1>2. /\ r.stop \in Int /\ r.plan.stop \in Int /\ r.plan.tp1 \in Int /\ r.plan.tp2 \in Int
  BY <1>1, RowFacts DEF Plan
<1>3. /\ Gain(r.plan, r.plan.stop) \in Int /\ Gain(r.plan, r.stop) \in Int
      /\ Gain(r.plan, r.plan.tp1) \in Int /\ Gain(r.plan, r.plan.tp2) \in Int
  BY <1>1, <1>2, GainInt
<1>4. Gain(r.plan, r.plan.tp2) <= Best(r.plan) /\ Best(r.plan) \in Int
  BY <1>1, BestFacts
<1>5. Gain(r.plan, r.stop) <= Best(r.plan)
  BY <1>1, <1>3, <1>4 DEF RowInv, AfterTp1, BeforeTp1, WellPlanned
<1> QED BY <1>1, <1>2, <1>3, <1>4, <1>5

\* A stop, a second target, a time stop.
LEMMA CloseKeepsRowInv ==
    ASSUME NEW r, RowInv(r), Active(r), NEW price \in Int,
           NEW status \in {"tp2_hit", "stop_hit", "closed"}, NEW outcome \in Outcomes,
           \/ Gain(r.plan, r.stop) <= Gain(r.plan, price)
           \/ r.tp1Hit /\ 0 <= Gain(r.plan, price),
           Gain(r.plan, price) <= Best(r.plan),
           outcome \in {"win", "partial_win"} =>
               \/ r.tp1Hit \/ Gain(r.plan, price) >= 0
               \/ r.realized + Pnl(r.plan, price, r.qty) >= 0
    PROVE  RowInv(Closed(r, price, status, outcome))
<1> DEFINE c == Closed(r, price, status, outcome)
           profit == r.realized + Pnl(r.plan, price, r.qty)
<1>1. r \in Row
  BY DEF RowInv
<1>2. /\ c \in Row /\ c.plan = r.plan /\ c.size = r.size /\ ~Active(c)
      /\ c.realized = profit /\ c.outcome = outcome
  BY <1>1, ClosedFields
<1>3. /\ profit \in Int
      /\ profit >= Pnl(r.plan, r.plan.stop, r.size)
      /\ profit <= Best(r.plan) * r.size
      /\ r.tp1Hit => profit >= 0
      /\ Gain(r.plan, price) >= 0 => profit >= 0
  BY CloseBounded
<1> HIDE DEF c, profit
<1>4. Bounded(c)
  BY <1>2, <1>3 DEF Bounded
<1>5. Honest(c)
  BY <1>2, <1>3 DEF Honest, profit
<1>6. RowInv(c)
  BY <1>2, <1>4, <1>5 DEF RowInv
<1> QED BY <1>6 DEF c

\* The quantity sold at the first target.
LEMMA CloseQtyBounds ==
    ASSUME NEW r \in Row
    PROVE  CloseQty(r) \in Nat /\ CloseQty(r) <= r.qty
  BY RowFacts, ShareBounded, FractionsAssumption DEF CloseQty

\* Profit splits with the quantity.
LEMMA PnlSplits ==
    ASSUME NEW plan \in Plan, NEW p \in Int, NEW m \in Nat, NEW n \in Nat
    PROVE  Pnl(plan, p, m) + Pnl(plan, p, n) = Pnl(plan, p, m + n)
<1>1. Gain(plan, p) \in Int
  BY GainInt
<1>2. \A g \in Int : g * m + g * n = g * (m + n)
  OBVIOUS
<1> QED BY <1>1, <1>2 DEF Pnl

\* The first target.
LEMMA PartialKeepsRowInv ==
    ASSUME NEW r, RowInv(r), Active(r), ~r.tp1Hit
    PROVE  RowInv(Partial(r))
<1> DEFINE p == Partial(r)
           sold == CloseQty(r)
           left == r.qty - sold
           stop == ProtectedStop(r.plan, r.stop)
           banked == Pnl(r.plan, r.plan.tp1, sold)
           best == Best(r.plan)
<1>1. /\ r \in Row /\ r.plan \in Plan /\ WellPlanned(r.plan)
      /\ r.stop \in Int /\ r.plan.stop \in Int /\ r.plan.tp1 \in Int /\ r.plan.tp2 \in Int
      /\ Gain(r.plan, r.plan.stop) \in Int /\ Gain(r.plan, r.stop) \in Int
      /\ Gain(r.plan, r.plan.tp1) \in Int /\ Gain(r.plan, r.plan.tp2) \in Int
  BY LevelsOrdered, RowFacts DEF Plan
<1>2. r.size \in Nat /\ r.qty \in Nat /\ r.realized = 0 /\ r.qty = r.size
  BY <1>1, RowFacts DEF RowInv, BeforeTp1
<1>3. sold \in Nat /\ sold <= r.qty /\ left \in Nat /\ sold + left = r.size
  BY <1>1, <1>2, CloseQtyBounds
<1>4. /\ stop \in Int /\ 0 <= Gain(r.plan, stop) /\ Gain(r.plan, stop) <= best
      /\ best \in Int /\ 0 <= best /\ Gain(r.plan, r.plan.tp1) <= best
  <2>1. BeforeTp1(r)
    BY DEF RowInv
  <2>2. /\ stop \in Int /\ 0 <= Gain(r.plan, stop) /\ Gain(r.plan, stop) <= best
    BY <1>1, <2>1, ProtectedStopBounds DEF BeforeTp1
  <2>3. best \in Int /\ 0 <= best /\ Gain(r.plan, r.plan.tp1) <= best
    BY <1>1, BestFacts DEF WellPlanned
  <2> QED BY <2>2, <2>3
<1> HIDE DEF best
<1>5. banked \in Int /\ banked >= 0 /\ banked <= best * sold
  <2>1. banked \in Int /\ banked >= 0
    BY <1>1, <1>3, PnlMonotone, PnlSign DEF WellPlanned
  <2> QED BY <2>1, <1>1, <1>3, <1>4, ProductMonotone DEF Pnl
<1>6. /\ best * sold + best * left = best * r.size
      /\ best * sold \in Int /\ best * left \in Int /\ best * left >= 0
  <2>1. \A m, n \in Nat : best * m + best * n = best * (m + n)
    BY <1>4
  <2>2. 0 * left <= best * left
    BY <1>3, <1>4, ProductMonotone
  <2> HIDE DEF sold, left
  <2> QED BY <2>1, <2>2, <1>2, <1>3, <1>4
<1>7. Pnl(r.plan, r.plan.stop, r.size) <= 0 /\ Pnl(r.plan, r.plan.stop, r.size) \in Int
  BY <1>1, <1>2, PnlSign, PnlMonotone DEF WellPlanned
<1>8. /\ p.plan = r.plan /\ p.size = r.size /\ p.qty = left /\ p.stop = stop
      /\ p.realized = 0 + banked /\ p.outcome = "partial_win" /\ p.tp1Hit
  BY <1>1, <1>2 DEF Partial, Row
<1>9. p \in Row
  <2>1. r.realized + banked \in Int
    BY <1>2, <1>5
  <2> HIDE DEF banked, sold, stop
  <2>2. p = [r EXCEPT !.realized = r.realized + banked, !.qty = left,
                  !.stop = stop, !.tp1Hit = TRUE,
                  !.status = IF left <= 0 THEN "tp2_hit" ELSE "tp1_hit",
                  !.outcome = "partial_win", !.resolved = TRUE]
    BY <1>1 DEF Partial, Row, banked, sold, stop
  <2> QED BY <2>1, <2>2, <1>1, <1>3, <1>4 DEF Row, Statuses, Outcomes
<1> HIDE DEF p, stop, banked, sold, left
<1>10. AfterTp1(p)
  BY <1>2, <1>3, <1>4, <1>5, <1>6, <1>8 DEF AfterTp1, best
<1>11. Bounded(p) /\ Honest(p)
  BY <1>2, <1>5, <1>6, <1>7, <1>8 DEF Bounded, Honest, best
<1>12. RowInv(p)
  BY <1>8, <1>9, <1>10, <1>11 DEF RowInv
<1> QED BY <1>12 DEF p

\* The stale policy.
LEMMA TightenKeepsRowInv ==
    ASSUME NEW r, RowInv(r), Active(r), ~r.tp1Hit, NEW price \in Int, ~AtTp1(r, price)
    PROVE  RowInv([r EXCEPT !.stop = TightenedStop(r, price)])
<1> DEFINE stop == TightenedStop(r, price)
           n == [r EXCEPT !.stop = stop]
<1>1. r \in Row /\ r.plan \in Plan /\ r.plan.tp1 \in Int /\ r.stop \in Int
  BY RowFacts DEF RowInv, Plan
<1>2. /\ stop \in Int /\ Gain(r.plan, r.stop) <= Gain(r.plan, stop)
      /\ stop = r.stop \/ Gain(r.plan, stop) < Gain(r.plan, price)
  BY <1>1, TightenedStopBounds
<1> HIDE DEF stop
<1>3. n \in Row /\ n.stop = stop /\ Active(n) /\ ~n.tp1Hit
  BY <1>1, <1>2 DEF Row, Active
<1>4. /\ n.plan = r.plan /\ n.size = r.size /\ n.qty = r.qty
      /\ n.realized = r.realized /\ n.outcome = r.outcome
  BY <1>1 DEF Row
<1>5. Gain(r.plan, price) < Gain(r.plan, r.plan.tp1) /\ Gain(r.plan, price) \in Int
  BY <1>1, GainInt DEF AtTp1
<1>6. /\ Gain(r.plan, stop) \in Int /\ Gain(r.plan, r.stop) \in Int
      /\ Gain(r.plan, r.plan.tp1) \in Int /\ Gain(r.plan, r.plan.stop) \in Int
  BY <1>1, <1>2, GainInt, LevelsOrdered
<1>7. BeforeTp1(r)
  BY DEF RowInv
<1>8. BeforeTp1(n)
  BY <1>2, <1>3, <1>4, <1>5, <1>6, <1>7 DEF BeforeTp1
<1>9. Bounded(n) /\ Honest(n)
  BY <1>4 DEF RowInv, Bounded, Honest
<1>10. RowInv(n)
  BY <1>3, <1>8, <1>9 DEF RowInv
<1> QED BY <1>10 DEF stop

\* Time and the decision window touch no money.
LEMMA ClockKeepsRowInv ==
    ASSUME NEW r, RowInv(r), Active(r),
           NEW held \in {"fresh", "held", "old"}, NEW remembered \in BOOLEAN
    PROVE  LET n == [r EXCEPT !.held = held, !.remembered = remembered]
           IN  RowInv(n) /\ Active(n)
<1> DEFINE n == [r EXCEPT !.held = held, !.remembered = remembered]
<1>1. r \in Row
  BY DEF RowInv
<1>2. n \in Row
  BY <1>1 DEF Row
<1>3. /\ n.plan = r.plan /\ n.size = r.size /\ n.qty = r.qty /\ n.stop = r.stop
      /\ n.realized = r.realized /\ n.outcome = r.outcome /\ n.status = r.status
      /\ n.tp1Hit = r.tp1Hit
  BY <1>1 DEF Row
<1> HIDE DEF n
<1>4. Active(n)
  BY <1>3 DEF Active
<1>5. IF n.tp1Hit THEN AfterTp1(n) ELSE BeforeTp1(n)
  BY <1>3 DEF RowInv, AfterTp1, BeforeTp1
<1>6. Bounded(n) /\ Honest(n)
  BY <1>3 DEF RowInv, Bounded, Honest
<1> QED BY <1>2, <1>4, <1>5, <1>6 DEF RowInv, n

-----------------------------------------------------------------------------
(* The invariant is inductive.                                             *)

LEMMA InitInv == Init => Inv
<1> SUFFICES ASSUME Init PROVE Inv
  OBVIOUS
<1>1. \A t \in Trades : ~Exists(t)
  BY DEF Init, Exists
<1> QED BY <1>1 DEF Init, Inv, TypeOK

\* Writing one row that keeps the invariant keeps the whole.
LEMMA WriteKeepsInv ==
    ASSUME Inv, NEW t \in Trades, NEW row, RowInv(row),
           trades' = [trades EXCEPT ![t] = row],
           pass' \subseteq pass, t \in pass' => Active(row)
    PROVE  Inv'
<1>1. row \in Row /\ row # None
  BY NoneAssumption DEF RowInv
<1>2. TypeOK'
  BY <1>1 DEF Inv, TypeOK
<1>3. trades'[t] = row /\ \A u \in Trades \ {t} : trades'[u] = trades[u]
  BY DEF Inv, TypeOK
<1>4. ASSUME NEW u \in Trades, Exists(u)' PROVE RowInv(trades[u])'
  <2>1. CASE u = t
    BY <2>1, <1>3
  <2>2. CASE u # t
    BY <2>2, <1>3, <1>4 DEF Inv, Exists
  <2> QED BY <2>1, <2>2
<1>5. ASSUME NEW u \in pass', Exists(u)' PROVE Active(trades[u])'
  <2>1. u \in pass /\ u \in Trades
    BY DEF Inv, TypeOK
  <2>2. CASE u = t
    BY <2>2, <1>3
  <2>3. CASE u # t
    BY <2>1, <2>3, <1>3, <1>5 DEF Inv, Exists
  <2> QED BY <2>2, <2>3
<1> QED BY <1>2, <1>4, <1>5 DEF Inv

\* What a managed row satisfies when its turn comes.
LEMMA ManagedRow ==
    ASSUME Inv, NEW t \in Trades, Managed(t)
    PROVE  RowInv(trades[t]) /\ Active(trades[t])
  BY DEF Inv, Managed, TypeOK

LEMMA ManageKeepsInv ==
    ASSUME Inv, NEW t \in Trades, Manage(t)
    PROVE  Inv'
<1> DEFINE r == trades[t]
<1>1. PICK price \in Prices :
        \/ StopHit(t, price) \/ Tp2Hit(t, price) \/ Tp1Hit(t, price)
        \/ Tighten(t, price) \/ TimeStop(t, price) \/ Hold(t, price)
  BY DEF Manage
<1>2. price \in Int
  BY PricesAssumption
<1>3. Managed(t)
  BY <1>1 DEF StopHit, Tp2Hit, Tp1Hit, Tighten, TimeStop, Hold
<1>4. RowInv(r) /\ Active(r)
  BY <1>3, ManagedRow
<1>5. /\ r.plan \in Plan /\ WellPlanned(r.plan)
      /\ r.stop \in Int /\ r.plan.tp2 \in Int
      /\ Gain(r.plan, r.stop) \in Int /\ Gain(r.plan, r.plan.tp2) \in Int
      /\ Gain(r.plan, r.plan.tp1) \in Int
      /\ Gain(r.plan, price) \in Int /\ Gain(r.plan, r.stop) <= Best(r.plan)
      /\ Gain(r.plan, r.plan.tp2) <= Best(r.plan) /\ Best(r.plan) \in Int
  BY <1>2, <1>4, LevelsOrdered, GainInt
<1>6. ASSUME NEW row, RowInv(row), Update(t, row) PROVE Inv'
  BY <1>6, WriteKeepsInv DEF Update
<1>7. CASE StopHit(t, price)
  <2> DEFINE outcome == IF r.tp1Hit THEN "partial_win" ELSE "loss"
  <2>1. RowInv(Closed(r, r.stop, "stop_hit", outcome))
    BY <1>4, <1>5, CloseKeepsRowInv DEF Outcomes
  <2> QED BY <2>1, <1>6, <1>7 DEF StopHit
<1>8. CASE Tp2Hit(t, price)
  <2>1. Gain(r.plan, r.plan.tp2) >= 0
    BY <1>4, <1>5, LevelsOrdered DEF WellPlanned
  <2>2. r.tp1Hit \/ Gain(r.plan, r.stop) <= Gain(r.plan, r.plan.tp2)
    BY <1>4, <1>5 DEF RowInv, BeforeTp1, WellPlanned
  <2>3. RowInv(Closed(r, r.plan.tp2, "tp2_hit", "win"))
    BY <2>1, <2>2, <1>4, <1>5, CloseKeepsRowInv DEF Outcomes
  <2> QED BY <2>3, <1>6, <1>8 DEF Tp2Hit
<1>9. CASE Tp1Hit(t, price)
  <2>1. ~r.tp1Hit
    BY <1>9 DEF Tp1Hit, AtTp1
  <2>2. RowInv(Partial(r))
    BY <2>1, <1>4, PartialKeepsRowInv
  <2> QED BY <2>2, <1>6, <1>9 DEF Tp1Hit
<1>10. CASE Tighten(t, price)
  <2>1. ~r.tp1Hit /\ ~AtTp1(r, price)
    BY <1>10 DEF Tighten, TightensFirst, Between
  <2>2. RowInv([r EXCEPT !.stop = TightenedStop(r, price)])
    BY <2>1, <1>2, <1>4, TightenKeepsRowInv
  <2> QED BY <2>2, <1>6, <1>10 DEF Tighten
<1>11. CASE TimeStop(t, price)
  <2> DEFINE profit == r.realized + Pnl(r.plan, price, r.qty)
             outcome == IF profit > 0 THEN "win" ELSE IF profit < 0 THEN "loss" ELSE "partial_win"
  <2>1. /\ Gain(r.plan, r.stop) <= Gain(r.plan, price)
        /\ Gain(r.plan, price) <= Best(r.plan)
    BY <1>5, <1>11 DEF TimeStop, Between, Stopped, AtTp2
  <2>2. profit \in Int
    BY <2>1, <1>2, <1>4, CloseBounded
  <2> HIDE DEF profit
  <2>3. outcome \in Outcomes /\ (outcome \in {"win", "partial_win"} => profit >= 0)
    BY <2>2 DEF Outcomes
  <2> HIDE DEF outcome
  <2>4. RowInv(Closed(r, price, "closed", outcome))
    BY <2>1, <2>3, <1>2, <1>4, CloseKeepsRowInv DEF profit
  <2>5. Update(t, Closed(r, price, "closed", outcome))
    BY <1>11 DEF TimeStop, outcome, profit
  <2> QED BY <2>4, <2>5, <1>6
<1>12. CASE Hold(t, price)
  BY <1>4, <1>6, <1>12 DEF Hold
<1> QED BY <1>1, <1>7, <1>8, <1>9, <1>10, <1>11, <1>12

LEMMA ExecuteKeepsInv ==
    ASSUME Inv, NEW t \in Trades, NEW plan \in Plans, NEW qty \in Quantities,
           Execute(t, plan, qty)
    PROVE  Inv'
<1> DEFINE row == [plan |-> plan, size |-> qty, qty |-> qty, stop |-> plan.stop, realized |-> 0,
                   status |-> "open", outcome |-> "open", tp1Hit |-> FALSE,
                   held |-> "fresh", remembered |-> TRUE, resolved |-> FALSE]
<1>1. /\ plan \in Plan /\ WellPlanned(plan)
      /\ plan.stop \in Int /\ plan.tp1 \in Int /\ plan.tp2 \in Int
  BY PlansAssumption DEF Plan
<1>2. qty \in Nat
  BY QuantitiesAssumption
<1>3. row \in Row
  BY <1>1, <1>2 DEF Row, Statuses, Outcomes
<1>4. /\ Gain(plan, plan.stop) \in Int /\ Gain(plan, plan.tp1) \in Int
      /\ Gain(plan, plan.tp2) \in Int
  BY <1>1, GainInt
<1>5. BeforeTp1(row)
  BY <1>1, <1>4 DEF BeforeTp1, WellPlanned
<1>6. Bounded(row)
  <2>1. Gain(plan, plan.stop) <= 0 /\ Best(plan) \in Int /\ 0 <= Best(plan)
    BY <1>1, <1>4, BestFacts DEF WellPlanned
  <2>2. 0 * qty <= Best(plan) * qty
    BY <2>1, <1>2, ProductMonotone
  <2> QED BY <2>1, <2>2, <1>1, <1>2, PnlSign DEF Bounded
<1>7. RowInv(row)
  BY <1>3, <1>5, <1>6 DEF RowInv, Active, Honest
<1>8. trades' = [trades EXCEPT ![t] = row] /\ pass' \subseteq pass /\ pass' = {}
  BY DEF Execute
<1> HIDE DEF row
<1> QED BY <1>7, <1>8, WriteKeepsInv

LEMMA ClockKeepsInv ==
    ASSUME Inv, NEW t \in Trades, HoldTimePasses(t) \/ DecisionForgotten(t)
    PROVE  Inv'
<1> DEFINE r == trades[t]
<1>1. RowInv(r) /\ Active(r) /\ pass' = pass
  BY DEF Inv, HoldTimePasses, DecisionForgotten, Open
<1>2. /\ r \in Row /\ r.held \in {"fresh", "held", "old"} /\ r.remembered \in BOOLEAN
  BY <1>1 DEF RowInv, Row
<1>3. PICK held \in {"fresh", "held", "old"}, remembered \in BOOLEAN :
        trades' = [trades EXCEPT ![t] = [r EXCEPT !.held = held, !.remembered = remembered]]
  <2>1. CASE HoldTimePasses(t)
    <3> DEFINE held == IF r.held = "fresh" THEN "held" ELSE "old"
    <3>1. [r EXCEPT !.held = held] = [r EXCEPT !.held = held, !.remembered = r.remembered]
      BY <1>2 DEF Row
    <3>2. trades' = [trades EXCEPT ![t] = [r EXCEPT !.held = held]]
      BY <2>1 DEF HoldTimePasses
    <3> QED BY <3>1, <3>2, <1>2
  <2>2. CASE DecisionForgotten(t)
    <3>1. [r EXCEPT !.remembered = FALSE] = [r EXCEPT !.held = r.held, !.remembered = FALSE]
      BY <1>2 DEF Row
    <3>2. trades' = [trades EXCEPT ![t] = [r EXCEPT !.remembered = FALSE]]
      BY <2>2 DEF DecisionForgotten
    <3> QED BY <3>1, <3>2, <1>2
  <2> QED BY <2>1, <2>2
<1>4. /\ RowInv([r EXCEPT !.held = held, !.remembered = remembered])
      /\ Active([r EXCEPT !.held = held, !.remembered = remembered])
  BY <1>1, ClockKeepsRowInv
<1> QED BY <1>1, <1>3, <1>4, WriteKeepsInv

LEMMA NextInv == Inv /\ [Next]_vars => Inv'
<1> SUFFICES ASSUME Inv, [Next]_vars PROVE Inv'
  OBVIOUS
<1>1. CASE BeginPass
  BY <1>1 DEF BeginPass, Inv, TypeOK, Exists, Open
<1>2. CASE Reset
  <2>1. \A t \in Trades : Exists(t)' => trades'[t] = trades[t] /\ Exists(t)
    BY <1>2 DEF Reset, Exists, Open
  <2>2. trades' \in [Trades -> Row \cup {None}] /\ pass' = pass
    BY <1>2 DEF Reset, Inv, TypeOK
  <2> QED BY <2>1, <2>2 DEF Inv, TypeOK
<1>3. CASE Crash
  BY <1>3 DEF Crash, Inv, TypeOK, Exists
<1>4. ASSUME NEW t \in Trades, Skip(t) \/ PassFails(t) PROVE Inv'
  BY <1>4 DEF Skip, PassFails, Inv, TypeOK, Exists
<1>5. CASE UNCHANGED vars
  BY <1>5 DEF vars, Inv, TypeOK, Exists
<1> QED BY <1>1, <1>2, <1>3, <1>4, <1>5, ManageKeepsInv, ExecuteKeepsInv, ClockKeepsInv DEF Next

THEOREM Invariant == Spec => []Inv
<1> QED BY InitInv, NextInv, PTL DEF Spec

-----------------------------------------------------------------------------
(* What follows.                                                           *)

\* Every reachable row is well typed.
THEOREM TypeCorrect == Spec => []TypeOK
<1>1. Inv => TypeOK
  BY DEF Inv
<1> QED BY <1>1, Invariant, PTL

\* No trade loses more than its admitted risk or gains more than its size at
\* the second target or at the farthest protected stop, for any plan, price
\* path, order of events and whatever protectR is configured.
THEOREM ProfitIsBounded == Spec => []RealizedBounded
<1>1. Inv => RealizedBounded
  BY DEF Inv, RealizedBounded, Rows, RowInv, Bounded
<1> QED BY <1>1, Invariant, PTL

\* A trade filed as won, or partly won, did not lose.
THEOREM WinsAreNotLosses == Spec => []NeverFlattered
<1>1. Inv => NeverFlattered
  BY DEF Inv, NeverFlattered, Rows, RowInv, Honest
<1> QED BY <1>1, Invariant, PTL

\* What one step may do to one row.
Ratchets(r, n) == \/ Gain(r.plan, r.stop) <= Gain(r.plan, n.stop)
                  \/ r.tp1Hit # n.tp1Hit

LEMMA ManageRatchets ==
    ASSUME Inv, NEW t \in Trades, Manage(t)
    PROVE  \E row : trades' = [trades EXCEPT ![t] = row] /\ Ratchets(trades[t], row)
<1> DEFINE r == trades[t]
<1>1. PICK price \in Prices :
        \/ StopHit(t, price) \/ Tp2Hit(t, price) \/ Tp1Hit(t, price)
        \/ Tighten(t, price) \/ TimeStop(t, price) \/ Hold(t, price)
  BY DEF Manage
<1>2. Managed(t)
  BY <1>1 DEF StopHit, Tp2Hit, Tp1Hit, Tighten, TimeStop, Hold
<1>3. RowInv(r) /\ Active(r) /\ r \in Row /\ price \in Int
  BY <1>2, ManagedRow, PricesAssumption DEF RowInv
<1>4. Gain(r.plan, r.stop) \in Int
  BY <1>3, LevelsOrdered
<1>5. \A p, status, outcome : Ratchets(r, Closed(r, p, status, outcome))
  <2> SUFFICES ASSUME NEW p, NEW status, NEW outcome
               PROVE  Closed(r, p, status, outcome).stop = r.stop
    BY <1>4 DEF Ratchets
  <2> QED BY <1>3 DEF Closed, Row
<1>6. CASE Tp1Hit(t, price)
  <2>1. ~r.tp1Hit /\ Partial(r).tp1Hit
    BY <1>3, <1>6 DEF Tp1Hit, AtTp1, Partial, Row
  <2>2. r.tp1Hit # Partial(r).tp1Hit
    BY <2>1
  <2>3. Ratchets(r, Partial(r))
    BY <2>2 DEF Ratchets
  <2>4. trades' = [trades EXCEPT ![t] = Partial(r)]
    BY <1>6 DEF Tp1Hit, Update
  <2> QED BY <2>3, <2>4
<1>7. CASE Tighten(t, price)
  <2>1. [r EXCEPT !.stop = TightenedStop(r, price)].stop = TightenedStop(r, price)
    BY <1>3 DEF Row
  <2>2. Ratchets(r, [r EXCEPT !.stop = TightenedStop(r, price)])
    BY <2>1, <1>3, TightenedStopBounds DEF Ratchets
  <2> QED BY <2>2, <1>7 DEF Tighten, Update
<1>8. CASE Hold(t, price)
  <2>1. Ratchets(r, r)
    BY <1>4 DEF Ratchets
  <2> QED BY <2>1, <1>8 DEF Hold, Update
<1>9. CASE StopHit(t, price)
  BY <1>5, <1>9 DEF StopHit, Update
<1>10. CASE Tp2Hit(t, price)
  BY <1>5, <1>10 DEF Tp2Hit, Update
<1>11. CASE TimeStop(t, price)
  BY <1>5, <1>11 DEF TimeStop, Update
<1> QED BY <1>1, <1>6, <1>7, <1>8, <1>9, <1>10, <1>11

\* A step rewrites no closed row, and moves a stop only as Ratchets allows.
LEMMA StepChangesRows ==
    ASSUME Inv, [Next]_vars, NEW t \in Trades, Exists(t), Exists(t)'
    PROVE  \/ trades'[t] = trades[t]
           \/ Active(trades[t]) /\ Ratchets(trades[t], trades'[t])
<1> USE DEF Inv, TypeOK
<1>1. CASE BeginPass \/ Crash \/ UNCHANGED vars
  BY <1>1 DEF BeginPass, Crash, vars
<1>2. CASE Reset
  BY <1>2 DEF Reset, Exists
<1>3. ASSUME NEW u \in Trades, Manage(u)
      PROVE  trades'[t] = trades[t] \/ (Active(trades[t]) /\ Ratchets(trades[t], trades'[t]))
  <2>1. Managed(u)
    BY <1>3 DEF Manage, StopHit, Tp2Hit, Tp1Hit, Tighten, TimeStop, Hold
  <2>2. Active(trades[u])
    BY <2>1, ManagedRow
  <2>3. PICK row : trades' = [trades EXCEPT ![u] = row] /\ Ratchets(trades[u], row)
    BY <1>3, ManageRatchets
  <2> QED BY <2>2, <2>3
<1>4. ASSUME NEW u \in Trades, HoldTimePasses(u) \/ DecisionForgotten(u)
      PROVE  trades'[t] = trades[t] \/ (Active(trades[t]) /\ Ratchets(trades[t], trades'[t]))
  <2>1. CASE t # u
    BY <1>4, <2>1 DEF HoldTimePasses, DecisionForgotten
  <2>2. CASE t = u
    <3>1. RowInv(trades[t]) /\ Active(trades[t]) /\ trades[t] \in Row
      BY <1>4, <2>2 DEF HoldTimePasses, DecisionForgotten, Open, RowInv
    <3>2. trades'[t].stop = trades[t].stop
      BY <1>4, <2>2, <3>1 DEF HoldTimePasses, DecisionForgotten, Row
    <3>3. Gain(trades[t].plan, trades[t].stop) \in Int
      BY <3>1, LevelsOrdered
    <3> QED BY <3>1, <3>2, <3>3 DEF Ratchets
  <2> QED BY <2>1, <2>2
<1>5. ASSUME NEW u \in Trades,
             \/ Skip(u) \/ PassFails(u)
             \/ \E plan \in Plans, qty \in Quantities : Execute(u, plan, qty)
      PROVE  trades'[t] = trades[t]
  BY <1>5 DEF Skip, PassFails, Execute, Exists
<1> QED BY <1>1, <1>2, <1>3, <1>4, <1>5 DEF Next

\* A closed trade is never written again.
THEOREM ClosedTradesAreFinal == Spec => ClosedIsFinal
<1>1. ASSUME Inv, [Next]_vars, NEW t \in Trades,
             Exists(t), trades[t].status \in {"tp2_hit", "stop_hit", "closed"}
      PROVE  trades'[t] = trades[t]
  <2>1. ~Active(trades[t])
    BY <1>1 DEF Active
  <2>2. CASE Exists(t)'
    BY <1>1, <2>1, <2>2, StepChangesRows
  <2>3. CASE ~Exists(t)'
    <3>3. CASE Reset
      BY <1>1, <2>1, <3>3 DEF Reset, Open, Inv, TypeOK
    <3>4. ASSUME NEW v \in Trades, Manage(v) PROVE trades'[t] = trades[t]
      <4>1. Active(trades[v]) /\ v # t
        BY <1>1, <2>1, <3>4, ManagedRow
           DEF Manage, StopHit, Tp2Hit, Tp1Hit, Tighten, TimeStop, Hold
      <4>2. PICK row : trades' = [trades EXCEPT ![v] = row]
        BY <1>1, <3>4, ManageRatchets
      <4> QED BY <4>1, <4>2, <1>1 DEF Inv, TypeOK
    <3>5. ASSUME NEW v \in Trades,
                 \/ HoldTimePasses(v) \/ DecisionForgotten(v) \/ Skip(v) \/ PassFails(v)
                 \/ \E plan \in Plans, qty \in Quantities : Execute(v, plan, qty)
          PROVE  trades'[t] = trades[t]
      BY <1>1, <2>1, <3>5
         DEF HoldTimePasses, DecisionForgotten, Skip, PassFails, Execute, Open, Exists, Inv, TypeOK
    <3>6. CASE BeginPass \/ Crash \/ UNCHANGED vars
      BY <3>6 DEF BeginPass, Crash, vars
    <3> QED BY <1>1, <3>3, <3>4, <3>5, <3>6 DEF Next
  <2> QED BY <2>2, <2>3
<1>2. Inv /\ [Next]_vars => [\A t \in Trades :
        (Exists(t) /\ trades[t].status \in {"tp2_hit", "stop_hit", "closed"})
          => trades'[t] = trades[t]]_vars
  BY <1>1
<1> QED BY <1>2, Invariant, PTL DEF Spec, ClosedIsFinal

\* Only the first target may loosen a stop.
THEOREM StopsOnlyRatchet == Spec => StopRatchets
<1>1. ASSUME Inv, [Next]_vars, NEW t \in Trades, Open(t), Exists(t)'
      PROVE  \/ Gain(trades[t].plan, trades[t].stop) <= Gain(trades[t].plan, trades'[t].stop)
             \/ trades[t].tp1Hit # trades'[t].tp1Hit
  <2>1. RowInv(trades[t]) /\ Active(trades[t])
    BY <1>1 DEF Open, Inv
  <2>2. Gain(trades[t].plan, trades[t].stop) \in Int
    BY <2>1, LevelsOrdered
  <2> QED BY <1>1, <2>2, StepChangesRows DEF Open, Ratchets
<1>2. Inv /\ [Next]_vars => [\A t \in Trades :
        (Open(t) /\ Exists(t)') =>
          \/ Gain(trades[t].plan, trades[t].stop) <= Gain(trades[t].plan, trades'[t].stop)
          \/ trades[t].tp1Hit # trades'[t].tp1Hit]_vars
  BY <1>1
<1> QED BY <1>2, Invariant, PTL DEF Spec, StopRatchets

-----------------------------------------------------------------------------
(* The rows implement Position.                                            *)

\* An open row has something left to sell, another has not.
Stocked(r) == IF Active(r) THEN r.qty > 0 ELSE r.qty = 0

StockInv == Inv /\ \A t \in Trades : Exists(t) => Stocked(trades[t])

\* What a step may do to the money of a row.
Keeps(r, n) == n.size = r.size /\ n.qty = r.qty /\ n.realized = r.realized
Sells(r, n) == /\ n.size = r.size /\ 0 <= n.qty /\ n.qty < r.qty
               /\ n.qty > 0 => r.qty = r.size

\* The first target sells a part of a whole position, all of it, or nothing.
LEMMA PartialSells ==
    ASSUME NEW r, RowInv(r), Active(r), ~r.tp1Hit, r.qty > 0
    PROVE  /\ Stocked(Partial(r))
           /\ Keeps(r, Partial(r)) \/ Sells(r, Partial(r))
<1> DEFINE p == Partial(r)
           sold == CloseQty(r)
<1>1. r \in Row /\ r.qty = r.size
  BY DEF RowInv, BeforeTp1
<1>2. /\ sold \in Nat /\ sold <= r.qty /\ r.qty \in Nat
      /\ r.plan \in Plan /\ r.realized \in Int /\ r.plan.tp1 \in Int
  BY <1>1, CloseQtyBounds, RowFacts DEF Plan
<1>3. /\ p.size = r.size /\ p.qty = r.qty - sold
      /\ p.realized = r.realized + Pnl(r.plan, r.plan.tp1, sold)
      /\ p.status = IF r.qty - sold <= 0 THEN "tp2_hit" ELSE "tp1_hit"
  BY <1>1 DEF Partial, Row
<1> HIDE DEF p, sold
<1>4. Stocked(p)
  BY <1>2, <1>3 DEF Stocked, Active
<1>5. CASE sold = 0
  <2>1. Gain(r.plan, r.plan.tp1) \in Int
    BY <1>2, GainInt
  <2>2. Pnl(r.plan, r.plan.tp1, sold) = 0
    BY <2>1, <1>5 DEF Pnl
  <2> QED BY <2>2, <1>2, <1>3, <1>4, <1>5 DEF Keeps, p
<1>6. CASE sold > 0
  <2>1. Sells(r, p)
    BY <1>1, <1>2, <1>3, <1>6 DEF Sells
  <2> QED BY <2>1, <1>4 DEF p
<1> QED BY <1>2, <1>5, <1>6

\* A close sells what is left.
LEMMA CloseSells ==
    ASSUME NEW r \in Row, r.qty > 0, NEW price,
           NEW status \in {"tp2_hit", "stop_hit", "closed"}, NEW outcome
    PROVE  LET c == Closed(r, price, status, outcome) IN Stocked(c) /\ Sells(r, c)
<1> DEFINE c == Closed(r, price, status, outcome)
<1>1. c.size = r.size /\ c.qty = 0 /\ c.status = status
  BY DEF Closed, Row
<1> HIDE DEF c
<1>2. ~Active(c)
  BY <1>1 DEF Active
<1> QED BY <1>1, <1>2 DEF Stocked, Sells, c

LEMMA ManageSells ==
    ASSUME StockInv, NEW t \in Trades, Manage(t)
    PROVE  \E row : /\ trades' = [trades EXCEPT ![t] = row]
                    /\ row \in Row /\ Stocked(row)
                    /\ Keeps(trades[t], row) \/ Sells(trades[t], row)
<1> DEFINE r == trades[t]
<1>1. PICK price \in Prices :
        \/ StopHit(t, price) \/ Tp2Hit(t, price) \/ Tp1Hit(t, price)
        \/ Tighten(t, price) \/ TimeStop(t, price) \/ Hold(t, price)
  BY DEF Manage
<1>2. Managed(t)
  BY <1>1 DEF StopHit, Tp2Hit, Tp1Hit, Tighten, TimeStop, Hold
<1>3. RowInv(r) /\ Active(r) /\ r \in Row /\ r.qty > 0
  BY <1>2, ManagedRow DEF StockInv, RowInv, Stocked, Managed
<1> DEFINE Goal == \E row : /\ trades' = [trades EXCEPT ![t] = row]
                            /\ row \in Row /\ Stocked(row)
                            /\ Keeps(r, row) \/ Sells(r, row)
<1>a. r.stop \in Int /\ r.plan.tp2 \in Int /\ price \in Int
  BY <1>3, RowFacts, PricesAssumption DEF Plan
<1>4. ASSUME NEW p \in Int, NEW status \in {"tp2_hit", "stop_hit", "closed"},
             NEW outcome \in Outcomes,
             Update(t, Closed(r, p, status, outcome))
      PROVE  Goal
  <2>1. Stocked(Closed(r, p, status, outcome)) /\ Sells(r, Closed(r, p, status, outcome))
    BY <1>3, CloseSells
  <2>2. trades' = [trades EXCEPT ![t] = Closed(r, p, status, outcome)]
    BY <1>4 DEF Update
  <2>3. Closed(r, p, status, outcome) \in Row
    BY <1>3, ClosedFields
  <2> QED BY <2>1, <2>2, <2>3
<1>5. CASE StopHit(t, price)
  <2>1. Update(t, Closed(r, r.stop, "stop_hit", IF r.tp1Hit THEN "partial_win" ELSE "loss"))
    BY <1>5 DEF StopHit
  <2> QED BY <2>1, <1>4, <1>a DEF Outcomes
<1>6. CASE Tp2Hit(t, price)
  <2>1. Update(t, Closed(r, r.plan.tp2, "tp2_hit", "win"))
    BY <1>6 DEF Tp2Hit
  <2> QED BY <2>1, <1>4, <1>a DEF Outcomes
<1>7. CASE Tp1Hit(t, price)
  <2>1. Stocked(Partial(r)) /\ (Keeps(r, Partial(r)) \/ Sells(r, Partial(r)))
    BY <1>3, <1>7, PartialSells DEF Tp1Hit, AtTp1
  <2>2. Partial(r) \in Row
    BY <1>3, <1>7, PartialKeepsRowInv DEF Tp1Hit, AtTp1, RowInv
  <2> QED BY <2>1, <2>2, <1>7 DEF Tp1Hit, Update
<1>8. CASE Tighten(t, price)
  <2> DEFINE n == [r EXCEPT !.stop = TightenedStop(r, price)]
  <2>1. n.size = r.size /\ n.qty = r.qty /\ n.realized = r.realized /\ n.status = r.status
    BY <1>3 DEF Row
  <2>2. trades' = [trades EXCEPT ![t] = n]
    BY <1>8 DEF Tighten, Update
  <2>3. n \in Row
    BY <1>3, <1>8, <1>a, TightenKeepsRowInv DEF Tighten, TightensFirst, Between, RowInv
  <2> HIDE DEF n
  <2> QED BY <2>1, <2>2, <2>3, <1>3 DEF Keeps, Stocked, Active
<1>9. CASE TimeStop(t, price)
  <2>1. PICK outcome \in Outcomes : Update(t, Closed(r, price, "closed", outcome))
    BY <1>9 DEF TimeStop, Outcomes
  <2> QED BY <2>1, <1>4, <1>a
<1>10. CASE Hold(t, price)
  BY <1>3, <1>10 DEF Hold, Update, Keeps, StockInv, Managed
<1> QED BY <1>1, <1>5, <1>6, <1>7, <1>8, <1>9, <1>10

\* The clock writes a row that keeps its money.
LEMMA ClockKeepsMoney ==
    ASSUME StockInv, NEW t \in Trades, HoldTimePasses(t) \/ DecisionForgotten(t)
    PROVE  \E row : /\ trades' = [trades EXCEPT ![t] = row]
                    /\ row \in Row /\ Stocked(row) /\ Keeps(trades[t], row)
<1> DEFINE r == trades[t]
<1>1. r \in Row /\ Active(r) /\ r.qty > 0
  BY DEF StockInv, Inv, RowInv, HoldTimePasses, DecisionForgotten, Open, Stocked
<1>2. CASE HoldTimePasses(t)
  <2> DEFINE n == [r EXCEPT !.held = IF @ = "fresh" THEN "held" ELSE "old"]
  <2>1. n.size = r.size /\ n.qty = r.qty /\ n.realized = r.realized /\ n.status = r.status
    BY <1>1 DEF Row
  <2>2. trades' = [trades EXCEPT ![t] = n] /\ n \in Row
    BY <1>1, <1>2 DEF HoldTimePasses, Row
  <2> HIDE DEF n
  <2> QED BY <2>1, <2>2, <1>1 DEF Keeps, Stocked, Active
<1>3. CASE DecisionForgotten(t)
  <2> DEFINE n == [r EXCEPT !.remembered = FALSE]
  <2>1. n.size = r.size /\ n.qty = r.qty /\ n.realized = r.realized /\ n.status = r.status
    BY <1>1 DEF Row
  <2>2. trades' = [trades EXCEPT ![t] = n] /\ n \in Row
    BY <1>1, <1>3 DEF DecisionForgotten, Row
  <2> HIDE DEF n
  <2> QED BY <2>1, <2>2, <1>1 DEF Keeps, Stocked, Active
<1> QED BY <1>2, <1>3

LEMMA StockInit == Init => StockInv
<1> SUFFICES ASSUME Init PROVE StockInv
  OBVIOUS
<1>1. \A t \in Trades : ~Exists(t)
  BY DEF Init, Exists
<1> QED BY <1>1, InitInv DEF StockInv

\* What a step does to the rows: it writes one, adds one, deletes open ones, or
\* leaves them alone.
Writes == \E t \in Trades, row \in Row :
    /\ Exists(t) /\ trades' = [trades EXCEPT ![t] = row] /\ Stocked(row)
    /\ Keeps(trades[t], row) \/ Sells(trades[t], row)
Adds == \E t \in Trades, plan \in Plans, qty \in Quantities : Execute(t, plan, qty)

LEMMA StepKinds ==
    ASSUME StockInv, [Next]_vars
    PROVE  Writes \/ Adds \/ Reset \/ UNCHANGED trades
<1>1. ASSUME NEW t \in Trades, Manage(t) PROVE Writes
  <2>1. Exists(t)
    BY <1>1 DEF Manage, StopHit, Tp2Hit, Tp1Hit, Tighten, TimeStop, Hold, Managed
  <2> QED BY <2>1, <1>1, ManageSells DEF Writes
<1>2. ASSUME NEW t \in Trades, HoldTimePasses(t) \/ DecisionForgotten(t) PROVE Writes
  <2>1. Exists(t)
    BY <1>2 DEF HoldTimePasses, DecisionForgotten, Open
  <2> QED BY <2>1, <1>2, ClockKeepsMoney DEF Writes
<1>3. ASSUME NEW t \in Trades, Skip(t) \/ PassFails(t) PROVE UNCHANGED trades
  BY <1>3 DEF Skip, PassFails
<1>4. CASE BeginPass \/ Crash \/ UNCHANGED vars
  BY <1>4 DEF BeginPass, Crash, vars
<1> QED BY <1>1, <1>2, <1>3, <1>4 DEF Next, Adds

\* A decision that is executed becomes a row.
LEMMA NewRow ==
    ASSUME TypeOK, NEW t \in Trades, NEW plan \in Plans, NEW qty \in Quantities,
           Execute(t, plan, qty)
    PROVE  trades'[t] \in Row
<1>1. plan \in Plan /\ qty \in Nat
  BY PlansAssumption, QuantitiesAssumption
<1>2. trades'[t] = [plan |-> plan, size |-> qty, qty |-> qty, stop |-> plan.stop, realized |-> 0,
                    status |-> "open", outcome |-> "open", tp1Hit |-> FALSE,
                    held |-> "fresh", remembered |-> TRUE, resolved |-> FALSE]
  BY DEF Execute, TypeOK
<1> QED BY <1>1, <1>2 DEF Plan, Row, Statuses, Outcomes

LEMMA StockNext == StockInv /\ [Next]_vars => StockInv'
<1> SUFFICES ASSUME StockInv, [Next]_vars PROVE StockInv'
  OBVIOUS
<1>1. Inv /\ Inv'
  BY NextInv DEF StockInv
<1>2. SUFFICES ASSUME NEW u \in Trades, Exists(u)' PROVE Stocked(trades[u])'
  BY <1>1 DEF StockInv
<1>3. CASE Writes
  BY <1>1, <1>2, <1>3 DEF Writes, StockInv, Inv, TypeOK, Exists, Stocked, Active
<1>4. CASE Adds
  <2>1. PICK t \in Trades, plan \in Plans, qty \in Quantities : Execute(t, plan, qty)
    BY <1>4 DEF Adds
  <2>2. qty > 0
    BY QuantitiesAssumption
  <2>3. CASE u = t
    BY <2>1, <2>2, <2>3, <1>1 DEF Execute, Stocked, Active, Inv, TypeOK
  <2>4. CASE u # t
    <3>1. trades'[u] = trades[u]
      BY <2>1, <2>4, <1>1 DEF Execute, Inv, TypeOK
    <3> QED BY <3>1, <1>2 DEF StockInv, Exists, Stocked, Active
  <2> QED BY <2>3, <2>4
<1>5. CASE Reset
  BY <1>2, <1>5 DEF Reset, StockInv, Exists, Stocked, Active
<1>6. CASE UNCHANGED trades
  BY <1>2, <1>6 DEF StockInv, Exists, Stocked, Active
<1> QED BY <1>3, <1>4, <1>5, <1>6, StepKinds

LEMMA StockAlways == Spec => []StockInv
<1> QED BY StockInit, StockNext, PTL DEF Spec

Held == {u \in Trades : Exists(u)}
Entry(t) == [size |-> trades[t].size, left |-> trades[t].qty, banked |-> trades[t].realized]

LEMMA BookFields ==
    /\ DOMAIN Book = Held /\ \A t \in Held : Book[t] = Entry(t)
    /\ DOMAIN Book' = Held' /\ \A t \in Held' : Book'[t] = Entry(t)'
  BY DEF Book, Held, Entry

LEMMA BookStep == StockInv /\ [Next]_vars => [PositionOfRows!Next]_Book
<1> SUFFICES ASSUME StockInv, [Next]_vars PROVE PositionOfRows!Next \/ Book' = Book
  OBVIOUS
<1>1. Inv /\ TypeOK /\ TypeOK'
  BY NextInv DEF StockInv, Inv
<1>2. CASE Writes
  <2>1. PICK t \in Trades, row \in Row :
           /\ Exists(t) /\ trades' = [trades EXCEPT ![t] = row] /\ Stocked(row)
           /\ Keeps(trades[t], row) \/ Sells(trades[t], row)
    BY <1>2 DEF Writes
  <2>2. trades'[t] = row /\ \A u \in Trades \ {t} : trades'[u] = trades[u]
    BY <2>1, <1>1 DEF TypeOK
  <2>3. row # None
    BY <2>1, NoneAssumption
  <2>4. Held' = Held /\ t \in Held
    BY <2>1, <2>2, <2>3 DEF Held, Exists
  <2>5. \A u \in Held \ {t} : Entry(u)' = Entry(u)
    BY <2>2 DEF Held, Entry
  <2>6. CASE Keeps(trades[t], row)
    <3>1. Entry(t)' = Entry(t)
      BY <2>2, <2>6 DEF Entry, Keeps
    <3> QED BY <3>1, <2>4, <2>5 DEF Book, Held, Entry
  <2>7. CASE Sells(trades[t], row)
    <3>1. PositionOfRows!Sell(t)
      BY <2>2, <2>4, <2>5, <2>7, BookFields DEF PositionOfRows!Sell, Sells, Entry
    <3> QED BY <3>1, <2>4, BookFields DEF PositionOfRows!Next
  <2> QED BY <2>1, <2>6, <2>7
<1>3. CASE Adds
  <2>1. PICK t \in Trades, plan \in Plans, qty \in Quantities : Execute(t, plan, qty)
    BY <1>3 DEF Adds
  <2>2. qty > 0
    BY QuantitiesAssumption
  <2>3. \A u \in Trades \ {t} : trades'[u] = trades[u]
    BY <2>1, <1>1 DEF Execute, TypeOK
  <2>4. trades'[t].size = qty /\ trades'[t].qty = qty /\ trades'[t].realized = 0
    BY <2>1, <1>1 DEF Execute, TypeOK
  <2>5. Exists(t)' /\ ~Exists(t)
    <3>1. trades'[t] \in Row
      BY <2>1, <1>1, NewRow
    <3> QED BY <3>1, <2>1, NoneAssumption DEF Execute, Exists
  <2>6. Held' = Held \cup {t} /\ t \notin Held
    BY <2>3, <2>5 DEF Held, Exists
  <2>7. \A u \in Held : Entry(u)' = Entry(u)
    BY <2>3, <2>6 DEF Held, Entry
  <2>8. PositionOfRows!Enter(t)
    <3>1. DOMAIN Book' = DOMAIN Book \cup {t}
      BY <2>6, BookFields
    <3>2. \A u \in DOMAIN Book : Book'[u] = Book[u]
      BY <2>6, <2>7, BookFields
    <3>3. Book'[t] = Entry(t)'
      BY <2>6, BookFields
    <3>4. /\ Book'[t].left = Book'[t].size
          /\ Book'[t].left > 0
          /\ Book'[t].banked = 0
      BY <3>3, <2>2, <2>4 DEF Entry
    <3> HIDE DEF Book
    <3> QED BY <3>1, <3>2, <3>4 DEF PositionOfRows!Enter
  <2> QED BY <2>6, <2>8, BookFields DEF PositionOfRows!Next
<1>4. CASE Reset
  <2>1. \A t \in Held' : t \in Held /\ trades'[t] = trades[t]
    BY <1>4 DEF Reset, Held, Exists
  <2>2. \A t \in Held \ Held' : trades[t].qty > 0
    BY <1>4 DEF Reset, Held, Exists, Open, StockInv, Stocked
  <2>3. PositionOfRows!Drop
    BY <2>1, <2>2, BookFields DEF PositionOfRows!Drop, Entry
  <2> QED BY <2>3 DEF PositionOfRows!Next
<1>5. CASE UNCHANGED trades
  BY <1>5 DEF Book, Exists
<1> QED BY <1>2, <1>3, <1>4, <1>5, StepKinds

\* The rows implement Position: at most two sales, no money without one, and
\* nothing after the last.
THEOREM ImplementsPosition == Spec => PositionSpec
<1>1. Init => PositionOfRows!Init
  BY DEF Init, PositionOfRows!Init, Book, Exists
<1> QED BY <1>1, BookStep, StockAlways, PTL DEF Spec, PositionSpec, PositionOfRows!Spec

=============================================================================
